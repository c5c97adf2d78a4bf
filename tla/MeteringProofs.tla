--------------------------- MODULE MeteringProofs ---------------------------
(***************************************************************************)
(* What a request is charged, and what the reports of the console show of  *)
(* it, for any number of requests, users, accounts, models and days.       *)
(***************************************************************************)
EXTENDS UsageReports, FiniteSetTheorems, TLAPS

LEMMA DaysType == Days \subseteq 1..MaxDay /\ 1 \in Days /\ MaxDay \in Nat
  BY MeteringAssumption DEF Days

(* Nothing is charged before the first request.                            *)
LEMMA MeteringInit == Init => MeteringInv
<1> SUFFICES ASSUME Init PROVE MeteringInv
  OBVIOUS
<1> USE MeteringAssumption DEF Init
<1>1. NoUsage \in Usage /\ NoRow \in Row
  BY DEF NoUsage, NoRow, Usage, Row
<1>2. MeteringTypeOK
  BY <1>1, DaysType DEF MeteringTypeOK, Phases
<1>3. Carried
  <2> SUFFICES ASSUME NEW r \in Requests
      PROVE /\ phase[r] = "new" /\ charged[r] = served[r] /\ counted[r] = 0
            /\ seen[r] = NoUsage /\ Honest(r, seen[r])
    BY DEF Carried
  <2>1. seen[r] = NoUsage /\ spent[r] = 0
    OBVIOUS
  <2> QED
    BY <2>1 DEF Honest, NoUsage
<1>4. Recorded /\ EventsCharge
  BY DEF Recorded, EventsCharge
<1>5. RowsCharge
  BY DEF RowsCharge, Into, NoRow
<1> QED
  BY <1>2, <1>3, <1>4, <1>5 DEF MeteringInv

----------------------------------------------------------------------------
(* What is written stays true while the requests it is about stand still.  *)

LEMMA RowsStay ==
  ASSUME RowsCharge, UNCHANGED <<rollup, counted>>,
         \A q \in Requests : counted[q] # 0 =>
             seen'[q] = seen[q] /\ served'[q] = served[q]
  PROVE  RowsCharge'
<1> SUFFICES ASSUME NEW k \in Keys
    PROVE (IF rollup[k].requests = 0
           THEN \A r \in Requests : ~Into(r, k)
           ELSE \E r \in Requests : Into(r, k) /\ served[r] = rollup[k].account)'
  BY DEF RowsCharge, Keys, Days
<1>1. \A q \in Requests : Into(q, k)' <=> Into(q, k)
  BY DEF Into
<1>2. \A q \in Requests : Into(q, k) => served'[q] = served[q]
  BY DEF Into
<1>3. CASE rollup[k].requests = 0
  BY <1>1, <1>3 DEF RowsCharge
<1>4. CASE rollup[k].requests # 0
  <2>1. PICK q \in Requests : Into(q, k) /\ served[q] = rollup[k].account
    BY <1>4 DEF RowsCharge
  <2> QED
    BY <1>1, <1>2, <1>4, <2>1
<1> QED
  BY <1>3, <1>4

LEMMA EventsStay ==
  ASSUME MeteringTypeOK, MeteringTypeOK', Recorded, EventsCharge, events' = events,
         \A q \in Requests : phase[q] \notin Opened \cup {"new"} =>
             /\ served'[q] = served[q]
             /\ spent'[q] = spent[q]
             /\ phase'[q] \notin Opened \cup {"new"}
  PROVE  Recorded' /\ EventsCharge'
<1> SUFFICES ASSUME NEW e \in events
    PROVE /\ phase'[e.request] \notin Opened \cup {"new"}
          /\ e.account = served'[e.request]
          /\ Honest(e.request, e.usage)'
  BY DEF Recorded, EventsCharge, Opened
<1>1. e.request \in Requests
  BY DEF MeteringTypeOK, Event
<1> QED
  BY <1>1 DEF Recorded, EventsCharge, Honest

\* A step of one request that adds nothing to Kafka and nothing to the table.
LEMMA StepOfOne ==
  ASSUME MeteringInv, NEW r \in Requests, NEW from, NEW to \in Phases, Go(r, from, to),
         UNCHANGED <<recordVars, today>>,
         interrupted' \in {interrupted, interrupted \cup {r}},
         \/ UNCHANGED answerVars
         \/ /\ phase[r] \in Opened \cup {"new"}
            /\ charged' \in [Requests -> Accounts \cup {NoAccount}]
            /\ served' \in [Requests -> Accounts \cup {NoAccount}]
            /\ spent' \in [Requests -> 0..MaxTokens]
            /\ seen' \in [Requests -> Usage]
            /\ \A q \in Requests \ {r} :
                  /\ charged'[q] = charged[q] /\ served'[q] = served[q]
                  /\ spent'[q] = spent[q] /\ seen'[q] = seen[q],
         phase[r] \notin Opened \cup {"new"} => to \notin Opened \cup {"new"},
         charged'[r] = served'[r],
         charged'[r] \in Accounts,
         Honest(r, seen[r])',
         to \in {"new", "sent", "resent"} => seen'[r] = NoUsage,
         to = "bump" => seen'[r].model # NoModel,
         counted[r] # 0 => to \in {"close", "done"},
         to \in {"close", "done"} /\ seen'[r].model # NoModel /\ r \notin interrupted'
             => counted[r] # 0
  PROVE  MeteringInv'
<1> USE DEF MeteringInv
<1>1. MeteringTypeOK'
  BY DEF MeteringTypeOK, Go, answerVars, recordVars, Days, Keys
<1>2. \A q \in Requests \ {r} :
        /\ phase'[q] = phase[q] /\ charged'[q] = charged[q] /\ served'[q] = served[q]
        /\ spent'[q] = spent[q] /\ seen'[q] = seen[q] /\ counted'[q] = counted[q]
        /\ q \in interrupted' <=> q \in interrupted
  BY DEF MeteringTypeOK, Go, answerVars, recordVars
<1>3. phase'[r] = to /\ counted'[r] = counted[r]
  BY DEF MeteringTypeOK, Go, recordVars
<1>4. Carried'
  <2> SUFFICES ASSUME NEW q \in Requests
      PROVE (/\ charged[q] = served[q]
             /\ phase[q] # "new" => charged[q] \in Accounts
             /\ Honest(q, seen[q])
             /\ phase[q] \in {"new", "sent", "resent"} => seen[q] = NoUsage
             /\ phase[q] = "bump" => seen[q].model # NoModel
             /\ counted[q] # 0 => phase[q] \in {"close", "done"}
             /\ phase[q] \in {"close", "done"} /\ seen[q].model # NoModel
                  /\ q \notin interrupted => counted[q] # 0)'
    BY DEF Carried
  <2>1. CASE q = r
    BY <2>1, <1>3
  <2>2. CASE q # r
    BY <2>2, <1>2 DEF Carried, Honest
  <2> QED
    BY <2>1, <2>2
<1>5. Recorded' /\ EventsCharge'
  <2>1. \A q \in Requests : phase[q] \notin Opened \cup {"new"} =>
             /\ served'[q] = served[q]
             /\ spent'[q] = spent[q]
             /\ phase'[q] \notin Opened \cup {"new"}
    BY <1>2, <1>3 DEF answerVars
  <2> QED
    BY <1>1, <2>1, EventsStay DEF recordVars
<1>6. RowsCharge'
  <2>1. \A q \in Requests : counted[q] # 0 =>
            seen'[q] = seen[q] /\ served'[q] = served[q]
    BY <1>2 DEF Carried, answerVars, Opened
  <2> QED
    BY <2>1, RowsStay DEF recordVars
<1> QED
  BY <1>1, <1>4, <1>5, <1>6

----------------------------------------------------------------------------
(* The answer.                                                             *)

\* Folding what GitHub reports keeps the figures of a request honest.
LEMMA FoldIsHonest ==
  ASSUME NEW r \in Requests, NEW u \in Usage, Honest(r, u), NEW n \in 0..MaxTokens,
         NEW m \in Nat, m = spent[r], n >= m, NEW F \in Carries
  PROVE  /\ Fold(u, r, n, F) \in Usage
         /\ Fold(u, r, n, F).model \in {NoModel, ModelOf[r]}
         /\ Fold(u, r, n, F).prompt \in {0, PromptOf[r]}
         /\ Fold(u, r, n, F).completion <= n
<1>1. n \in Nat /\ ModelOf[r] \in Models /\ PromptOf[r] \in Nat
  BY MeteringAssumption
<1>2. u.model \in Models \cup {NoModel} /\ u.prompt \in Nat /\ u.completion \in Nat
  BY DEF Usage
<1> QED
  BY <1>1, <1>2 DEF Fold, Honest, Usage

LEMMA ObserveKeeps ==
  ASSUME MeteringInv, NEW r \in Requests, NEW n \in 0..MaxTokens, NEW F \in Carries,
         NEW cut \in BOOLEAN, Observe(r, n, F, cut)
  PROVE  MeteringInv'
<1>1. spent[r] \in Nat /\ n \in Nat /\ seen[r] \in Usage /\ Honest(r, seen[r])
      /\ phase[r] \in Opened /\ charged[r] = served[r] /\ charged[r] \in Accounts
      /\ counted[r] = 0
  BY MeteringAssumption DEF MeteringInv, MeteringTypeOK, Carried, Observe, Go, Opened
<1>2. spent' = [spent EXCEPT ![r] = n] /\ spent'[r] = n /\ n >= spent[r]
  BY DEF Observe, MeteringInv, MeteringTypeOK
<1>3. seen' \in [Requests -> Usage] /\ Honest(r, seen[r])'
      /\ \A q \in Requests \ {r} : seen'[q] = seen[q]
  <2>1. CASE cut
    BY <1>1, <1>2, <2>1 DEF Observe, Honest, MeteringInv, MeteringTypeOK, Usage
  <2>2. CASE ~cut
    <3>1. seen' = [seen EXCEPT ![r] = Fold(seen[r], r, n, F)]
      BY <2>2 DEF Observe
    <3> QED
      BY <1>1, <1>2, <3>1, FoldIsHonest DEF Honest, MeteringInv, MeteringTypeOK
  <2> QED
    BY <2>1, <2>2
<1>4. spent' \in [Requests -> 0..MaxTokens]
      /\ \A q \in Requests \ {r} : spent'[q] = spent[q]
  BY <1>2 DEF MeteringInv, MeteringTypeOK
<1>5. Go(r, Opened, "answering")
  BY DEF Observe
<1> QED
  BY <1>1, <1>3, <1>4, <1>5, StepOfOne
     DEF Observe, Opened, Phases, MeteringInv, MeteringTypeOK

LEMMA AnswerKeeps ==
  ASSUME MeteringInv, NEW r \in Requests, NEW n \in 0..MaxTokens, NEW F \in Carries,
         AnswerBuffered(r, n, F)
  PROVE  MeteringInv'
<1>1. n \in Nat /\ phase[r] \in {"sent", "resent"} /\ charged[r] = served[r]
      /\ charged[r] \in Accounts /\ counted[r] = 0
  BY MeteringAssumption DEF MeteringInv, MeteringTypeOK, Carried, AnswerBuffered, Go
<1>2. spent' = [spent EXCEPT ![r] = n] /\ spent'[r] = n
      /\ seen' = [seen EXCEPT ![r] = Fold(NoUsage, r, n, F)]
      /\ seen'[r] = Fold(NoUsage, r, n, F)
  BY DEF AnswerBuffered, MeteringInv, MeteringTypeOK
<1>3. Fold(NoUsage, r, n, F) \in Usage /\ Honest(r, seen[r])'
  BY <1>1, <1>2, MeteringAssumption DEF Fold, NoUsage, Usage, Honest
<1>4. /\ spent' \in [Requests -> 0..MaxTokens]
      /\ seen' \in [Requests -> Usage]
      /\ \A q \in Requests \ {r} : spent'[q] = spent[q] /\ seen'[q] = seen[q]
  BY <1>2, <1>3 DEF MeteringInv, MeteringTypeOK
<1>5. Go(r, {"sent", "resent"}, "usage")
  BY DEF AnswerBuffered
<1> QED
  BY <1>1, <1>3, <1>4, <1>5, StepOfOne
     DEF AnswerBuffered, Opened, Phases, MeteringInv, MeteringTypeOK

LEMMA SendKeeps ==
  ASSUME MeteringInv, NEW r \in Requests, NEW a \in Accounts,
         Send(r, a) \/ Rebind(r, a)
  PROVE  MeteringInv'
<1>1. /\ charged' = [charged EXCEPT ![r] = a] /\ served' = [served EXCEPT ![r] = a]
      /\ UNCHANGED <<spent, seen, recordVars, interrupted, today>>
  BY DEF Send, Rebind
<1>2. Go(r, {"new"}, "sent") \/ Go(r, {"sent"}, "resent")
  BY DEF Send, Rebind
<1>3. phase[r] \in {"new", "sent"} /\ seen[r] = NoUsage /\ counted[r] = 0
      /\ Honest(r, seen[r])
  BY <1>2 DEF Go, MeteringInv, Carried
<1>4. /\ charged' \in [Requests -> Accounts \cup {NoAccount}]
      /\ served' \in [Requests -> Accounts \cup {NoAccount}]
      /\ charged'[r] = a /\ served'[r] = a
      /\ \A q \in Requests \ {r} : charged'[q] = charged[q] /\ served'[q] = served[q]
      /\ spent' \in [Requests -> 0..MaxTokens] /\ seen' \in [Requests -> Usage]
  BY <1>1 DEF MeteringInv, MeteringTypeOK
<1>5. Honest(r, seen[r])'
  BY <1>1, <1>3 DEF Honest
<1>6. CASE Go(r, {"new"}, "sent")
  BY <1>1, <1>3, <1>4, <1>5, <1>6, StepOfOne DEF Opened, Phases
<1>7. CASE Go(r, {"sent"}, "resent")
  BY <1>1, <1>3, <1>4, <1>5, <1>7, StepOfOne DEF Opened, Phases
<1> QED
  BY <1>2, <1>6, <1>7

----------------------------------------------------------------------------
(* The emission.                                                           *)

LEMMA PublishKeeps ==
  ASSUME MeteringInv, NEW r \in Requests, NEW to \in {"prompt", "close", "done"},
         NEW from, Go(r, from, to), phase[r] = "usage", Publish(r),
         UNCHANGED <<answerVars, today>>,
         interrupted' \in {interrupted, interrupted \cup {r}},
         to \in {"close", "done"} => r \in interrupted'
  PROVE  MeteringInv'
<1> USE DEF MeteringInv
<1> DEFINE e == [request |-> r, account |-> charged[r], usage |-> seen[r]]
<1>1. e \in Event /\ e.account = served[e.request] /\ Honest(e.request, e.usage)
  BY DEF MeteringTypeOK, Carried, Event
<1>2. MeteringTypeOK'
  BY <1>1 DEF MeteringTypeOK, Publish, Go, answerVars, Days, Keys, Phases
<1>3. phase' = [phase EXCEPT ![r] = to] /\ phase'[r] = to /\ counted' = counted
  BY DEF Go, Publish, MeteringTypeOK
<1>4. Carried'
  BY <1>3 DEF Carried, answerVars, Honest
<1>5. Recorded'
  <2>1. ASSUME NEW x \in events' PROVE phase'[x.request] \notin Opened \cup {"new"}
    <3>1. x \in events => x.request \in Requests
      BY DEF MeteringTypeOK, Event
    <3> QED
      BY <1>3, <3>1 DEF Publish, Recorded, Opened, MeteringTypeOK
  <2> QED
    BY <2>1 DEF Recorded, Opened
<1>6. EventsCharge'
  BY <1>1 DEF EventsCharge, Publish, answerVars, Honest
<1>7. RowsCharge'
  BY RowsStay DEF Publish, answerVars
<1> QED
  BY <1>2, <1>4, <1>5, <1>6, <1>7

LEMMA BumpKeeps ==
  ASSUME MeteringInv, NEW r \in Requests, NEW to \in {"close", "done"},
         NEW from, Go(r, from, to), phase[r] = "bump", BumpUsage(r),
         UNCHANGED <<answerVars, today>>,
         interrupted' \in {interrupted, interrupted \cup {r}}
  PROVE  MeteringInv'
<1> USE DEF MeteringInv
<1> DEFINE key == <<UserOf[r], today, seen[r].model>>
           old == rollup[key]
           row == [account |-> IF old.requests = 0 THEN charged[r] ELSE old.account,
                   prompt |-> old.prompt + seen[r].prompt,
                   completion |-> old.completion + seen[r].completion,
                   requests |-> old.requests + 1]
<1>1. /\ counted[r] = 0 /\ charged[r] = served[r] /\ charged[r] \in Accounts
      /\ seen[r] \in Usage /\ seen[r].model # NoModel /\ today \in Days
  BY DEF MeteringTypeOK, Carried
<1>2. key \in Keys /\ old \in Row
  BY <1>1, MeteringAssumption DEF MeteringTypeOK, Keys, Usage
<1>3. row \in Row /\ row.requests # 0
  BY <1>1, <1>2 DEF Row, Usage
<1>4. rollup' = [rollup EXCEPT ![key] = row] /\ rollup'[key] = row
      /\ \A k \in Keys \ {key} : rollup'[k] = rollup[k]
  BY <1>2 DEF BumpUsage, MeteringTypeOK
<1>5. counted' = [counted EXCEPT ![r] = today] /\ counted'[r] = today /\ today # 0
      /\ today \in 0..MaxDay
  BY <1>1, MeteringAssumption DEF BumpUsage, MeteringTypeOK, Days
<1>6. MeteringTypeOK'
  <2>1. rollup' \in [Keys -> Row]
    BY <1>3, <1>4 DEF MeteringTypeOK
  <2>2. counted' \in [Requests -> 0..MaxDay]
    BY <1>5 DEF MeteringTypeOK
  <2>3. phase' \in [Requests -> Phases]
    BY DEF MeteringTypeOK, Go, Phases
  <2> QED
    BY <2>1, <2>2, <2>3 DEF MeteringTypeOK, BumpUsage, answerVars, Days, Keys
<1>7. phase' = [phase EXCEPT ![r] = to] /\ phase'[r] = to
  BY DEF Go, MeteringTypeOK
<1>8. Carried'
  BY <1>5, <1>7 DEF Carried, answerVars, Honest, MeteringTypeOK
<1>9. Recorded' /\ EventsCharge'
  BY <1>6, <1>7, EventsStay DEF BumpUsage, answerVars, Opened, MeteringTypeOK
<1>10. \A q \in Requests, k \in Keys : Into(q, k)' <=>
          IF q = r THEN k = key ELSE Into(q, k)
  BY <1>5 DEF Into, answerVars, MeteringTypeOK
<1>11. RowsCharge'
  <2> SUFFICES ASSUME NEW k \in Keys
      PROVE (IF rollup[k].requests = 0
             THEN \A q \in Requests : ~Into(q, k)
             ELSE \E q \in Requests : Into(q, k) /\ served[q] = rollup[k].account)'
    BY DEF RowsCharge, Keys, Days
  <2>1. CASE k # key
    <3>1. CASE rollup[k].requests = 0
      BY <1>4, <1>10, <2>1, <3>1 DEF RowsCharge
    <3>2. CASE rollup[k].requests # 0
      <4>1. PICK q \in Requests : Into(q, k) /\ served[q] = rollup[k].account
        BY <3>2 DEF RowsCharge
      <4>2. q # r
        BY <1>1, <4>1 DEF Into
      <4> QED
        BY <1>4, <1>10, <2>1, <3>2, <4>1, <4>2 DEF answerVars
    <3> QED
      BY <3>1, <3>2
  <2>2. CASE k = key /\ old.requests = 0
    BY <1>1, <1>3, <1>4, <1>10, <2>2 DEF answerVars
  <2>3. CASE k = key /\ old.requests # 0
    <3>1. PICK q \in Requests : Into(q, k) /\ served[q] = old.account
      BY <2>3 DEF RowsCharge
    <3>2. q # r
      BY <1>1, <3>1 DEF Into
    <3> QED
      BY <1>3, <1>4, <1>10, <2>3, <3>1, <3>2 DEF answerVars
  <2> QED
    BY <2>1, <2>2, <2>3
<1> QED
  BY <1>6, <1>8, <1>9, <1>11

----------------------------------------------------------------------------
LEMMA PlainKeeps ==
  ASSUME MeteringInv, NEW r \in Requests,
         Refuse(r) \/ EndStream(r) \/ Leave(r) \/ EmitPrompt(r) \/ Close(r)
  PROVE  MeteringInv'
<1>1. charged[r] = served[r] /\ Honest(r, seen[r])
      /\ (phase[r] # "new" => charged[r] \in Accounts)
  BY DEF MeteringInv, Carried
<1>2. UNCHANGED answerVars => Honest(r, seen[r])'
  BY <1>1 DEF answerVars, Honest
<1> USE DEF MeteringInv, Carried, Opened, Phases, answerVars
<1>3. CASE Refuse(r)
  <2>1. Go(r, {"sent", "resent"}, "done") /\ seen[r].model = NoModel
    BY <1>3 DEF Refuse, Go, NoUsage
  <2> QED
    BY <1>1, <1>2, <1>3, <2>1, StepOfOne DEF Refuse, Go
<1>4. CASE EndStream(r)
  <2>1. Go(r, Opened, "usage")
    BY <1>4 DEF EndStream
  <2> QED
    BY <1>1, <1>2, <1>4, <2>1, StepOfOne DEF EndStream, Go
<1>5. CASE Leave(r)
  <2>1. Go(r, Opened, "close")
    BY <1>5 DEF Leave
  <2> QED
    BY <1>1, <1>2, <1>5, <2>1, StepOfOne DEF Leave, Go
<1>6. CASE EmitPrompt(r)
  <2> DEFINE to == IF seen[r].model = NoModel THEN "close" ELSE "bump"
  <2>1. Go(r, {"prompt"}, to)
    BY <1>6 DEF EmitPrompt
  <2> QED
    BY <1>1, <1>2, <1>6, <2>1, StepOfOne DEF EmitPrompt, Go
<1>7. CASE Close(r)
  <2>1. Go(r, {"close"}, "done")
    BY <1>7 DEF Close
  <2> QED
    BY <1>1, <1>2, <1>7, <2>1, StepOfOne DEF Close, Go
<1> QED
  BY <1>3, <1>4, <1>5, <1>6, <1>7

LEMMA EmitKeeps ==
  ASSUME MeteringInv, NEW r \in Requests,
         (\E ok \in BOOLEAN : EmitUsage(r, ok)) \/ EmitRollup(r)
  PROVE  MeteringInv'
<1> USE DEF answerVars, Opened, Phases
<1>1. ASSUME NEW ok \in BOOLEAN, EmitUsage(r, ok) PROVE MeteringInv'
  <2>1. Go(r, {"usage"}, "prompt") /\ phase[r] = "usage"
    BY <1>1 DEF EmitUsage, Go
  <2>2. CASE ok
    BY <1>1, <2>1, <2>2, PublishKeeps DEF EmitUsage
  <2>3. CASE ~ok
    <3>1. Honest(r, seen[r])' /\ charged[r] = served[r] /\ charged[r] \in Accounts
          /\ counted[r] = 0
      BY <1>1, <2>1 DEF EmitUsage, MeteringInv, Carried, Honest
    <3> QED
      BY <1>1, <2>1, <2>3, <3>1, StepOfOne DEF EmitUsage
  <2> QED
    BY <2>2, <2>3
<1>2. CASE EmitRollup(r)
  <2>1. Go(r, {"bump"}, "close") /\ phase[r] = "bump"
    BY <1>2 DEF EmitRollup, Go
  <2> QED
    BY <1>2, <2>1, BumpKeeps DEF EmitRollup
<1> QED
  BY <1>1, <1>2

LEMMA CutOffKeeps ==
  ASSUME MeteringInv, NEW r \in Requests, CutOff(r) \/ Die(r)
  PROVE  MeteringInv'
<1>1. PICK from \in {Emitting, Opened \cup Emitting}, to \in {"close", "done"} :
        Go(r, from, to)
  BY DEF CutOff, Die
<1>2. /\ phase[r] \in Opened \cup Emitting
      /\ Effect(r) /\ interrupted' = interrupted \cup {r} /\ UNCHANGED <<answerVars, today>>
  BY DEF CutOff, Die, Go
<1>3. CASE UNCHANGED recordVars
  <2>1. Honest(r, seen[r])' /\ charged[r] = served[r] /\ charged[r] \in Accounts
        /\ counted[r] = 0
    BY <1>2 DEF MeteringInv, Carried, Honest, answerVars, Opened, Emitting
  <2>2. r \in interrupted' /\ to \in Phases /\ charged' = charged /\ served' = served
    BY <1>2 DEF Phases, answerVars
  <2> QED
    BY <1>1, <1>2, <1>3, <2>1, <2>2, StepOfOne DEF Opened
<1>4. CASE phase[r] = "usage" /\ Publish(r)
  BY <1>1, <1>2, <1>4, PublishKeeps
<1>5. CASE phase[r] = "bump" /\ BumpUsage(r)
  BY <1>1, <1>2, <1>5, BumpKeeps
<1> QED
  BY <1>2, <1>3, <1>4, <1>5 DEF Effect

LEMMA MeteringStep == MeteringInv /\ [Next]_vars => MeteringInv'
<1> SUFFICES ASSUME MeteringInv, [Next]_vars PROVE MeteringInv'
  OBVIOUS
<1>1. ASSUME NEW r \in Requests, Step(r) PROVE MeteringInv'
  BY <1>1, SendKeeps, ObserveKeeps, AnswerKeeps, PlainKeeps, EmitKeeps, CutOffKeeps
     DEF Step
<1>2. CASE NextDay
  <2>1. today' \in Days /\ UNCHANGED <<phase, answerVars, recordVars, interrupted>>
    BY <1>2, MeteringAssumption DEF NextDay, Days, MeteringInv, MeteringTypeOK
  <2> QED
    BY <2>1 DEF MeteringInv, MeteringTypeOK, Carried, Honest, Recorded, EventsCharge,
       RowsCharge, Into, answerVars, recordVars, Days, Keys
<1>3. CASE UNCHANGED vars
  BY <1>3 DEF vars, MeteringInv, MeteringTypeOK, Carried, Honest, Recorded,
     EventsCharge, RowsCharge, Into, answerVars, recordVars, Days, Keys
<1> QED
  BY <1>1, <1>2, <1>3 DEF Next

(* The inductive invariant of metering.                                    *)
THEOREM MeteringInvariant == Spec => []MeteringInv
  BY MeteringInit, MeteringStep, PTL DEF Spec

(* Whatever lines of an answer are lost and wherever a request is cut      *)
(* short, an event in Kafka charges the account that answered, and no more *)
(* than GitHub counted.                                                    *)
THEOREM EventsAreHonest == Spec => []EventsCharge
<1>1. MeteringInv => EventsCharge
  BY DEF MeteringInv
<1> QED
  BY <1>1, MeteringInvariant, PTL

(* A row of usage_rollup is charged to an account that answered one of its *)
(* requests.                                                               *)
THEOREM RowsAreCharged == Spec => []RowsCharge
<1>1. MeteringInv => RowsCharge
  BY DEF MeteringInv
<1> QED
  BY <1>1, MeteringInvariant, PTL

(* Only an interruption loses a request: the failures of Kafka do not.     *)
THEOREM UndisturbedIsCounted == Spec => []NothingForgotten
<1>1. MeteringInv => NothingForgotten
  BY DEF MeteringInv, Carried, NothingForgotten
<1> QED
  BY <1>1, MeteringInvariant, PTL

----------------------------------------------------------------------------
(* Sums.  A sum is the number of its units, so that facts about finite     *)
(* sets are facts about sums.                                              *)
\* One term of a sum grows by n, or comes in with n: so does the sum.
LEMMA SumGrows ==
  ASSUME NEW D, NEW f \in [D -> Nat], IsFiniteSet(Units(f)),
         NEW x, NEW m \in Nat, m = IF x \in D THEN f[x] ELSE 0,
         NEW n \in Nat,
         NEW g \in [D \cup {x} -> Nat], g[x] = m + n,
         \A y \in D \ {x} : g[y] = f[y]
  PROVE  IsFiniteSet(Units(g)) /\ Sum(g) = Sum(f) + n
<1> DEFINE New == {x} \X ((m + 1)..(m + n))
<1>1. IsFiniteSet(New) /\ Cardinality(New) = n
  <2>1. IsFiniteSet((m + 1)..(m + n)) /\ Cardinality((m + 1)..(m + n)) = n
    <3>1. m + 1 \in Int /\ m + n \in Int
      OBVIOUS
    <3>2. /\ IsFiniteSet((m + 1)..(m + n))
          /\ Cardinality((m + 1)..(m + n)) =
               IF m + 1 > m + n THEN 0 ELSE (m + n) - (m + 1) + 1
      BY <3>1, FS_Interval, Zenon
    <3> QED
      BY <3>2
  <2>2. IsFiniteSet({x}) /\ Cardinality({x}) = 1
    BY FS_Singleton
  <2> QED
    <3>1. IsFiniteSet(New) /\ Cardinality(New) = Cardinality({x}) * Cardinality((m + 1)..(m + n))
      BY <2>1, <2>2, FS_Product, Zenon
    <3>2. 1 * n = n
      OBVIOUS
    <3> QED
      BY <2>1, <2>2, <3>1, <3>2, Zenon
<1>2. \A y, i : <<y, i>> \in Units(f) <=> y \in D /\ i \in 1..f[y]
  BY DEF Units
<1>3. \A y, i : <<y, i>> \in Units(g) <=> y \in D \cup {x} /\ i \in 1..g[y]
  BY DEF Units
<1>4. /\ \A u \in Units(f) : u = <<u[1], u[2]>>
      /\ \A u \in Units(g) : u = <<u[1], u[2]>>
      /\ \A u \in New : u = <<u[1], u[2]>>
  BY DEF Units
<1>5. \A y, i : <<y, i>> \in Units(g) <=> <<y, i>> \in Units(f) \/ <<y, i>> \in New
  <2> SUFFICES ASSUME NEW y, NEW i
      PROVE <<y, i>> \in Units(g) <=> <<y, i>> \in Units(f) \/ <<y, i>> \in New
    OBVIOUS
  <2>1. CASE y = x /\ x \in D
    BY <1>2, <1>3, <2>1
  <2>2. CASE y = x /\ x \notin D
    BY <1>2, <1>3, <2>2
  <2>3. CASE y # x
    BY <1>2, <1>3, <2>3
  <2> QED
    BY <2>1, <2>2, <2>3
<1>6. Units(g) = Units(f) \cup New
  <2> HIDE DEF New
  <2> QED
    BY <1>4, <1>5
<1>7. Units(f) \cap New = {}
  <2>1. ASSUME NEW u \in Units(f), u \in New PROVE FALSE
    <3>1. u[1] = x /\ u[2] \in (m + 1)..(m + n) /\ u = <<u[1], u[2]>>
      BY <2>1
    <3>2. x \in D /\ u[2] \in 1..f[x]
      BY <1>2, <3>1
    <3> QED
      BY <3>1, <3>2
  <2> QED
    BY <2>1
<1> HIDE DEF New
<1>8. Cardinality(Units(f)) \in Nat /\ Cardinality({}) = 0
  BY FS_CardinalityType, FS_EmptySet
<1> QED
  <2>1. /\ IsFiniteSet(Units(f) \cup New)
        /\ Cardinality(Units(f) \cup New) =
             Cardinality(Units(f)) + Cardinality(New) - Cardinality(Units(f) \cap New)
    BY <1>1, FS_Union, Zenon
  <2>2. IsFiniteSet(Units(g)) /\ Sum(g) = Sum(f) + n - 0
    BY <1>1, <1>6, <1>7, <1>8, <2>1, Zenon DEF Sum
  <2>3. Sum(f) \in Nat
    BY <1>8 DEF Sum
  <2> QED
    BY <2>2, <2>3

LEMMA TermGrows ==
  ASSUME NEW D, NEW f \in [D -> Nat], IsFiniteSet(Units(f)),
         NEW x \in D, NEW n \in Nat,
         NEW g \in [D -> Nat], g[x] = f[x] + n, \A y \in D \ {x} : g[y] = f[y]
  PROVE  IsFiniteSet(Units(g)) /\ Sum(g) = Sum(f) + n
<1>1. D \cup {x} = D
  OBVIOUS
<1>2. PICK m \in Nat : m = f[x]
  OBVIOUS
<1>3. m = (IF x \in D THEN f[x] ELSE 0) /\ g[x] = m + n /\ g \in [D \cup {x} -> Nat]
  BY <1>1, <1>2
<1> QED
  BY <1>3, SumGrows

LEMMA TermJoins ==
  ASSUME NEW D, NEW f \in [D -> Nat], IsFiniteSet(Units(f)),
         NEW x, x \notin D, NEW E, E = D \cup {x},
         NEW g \in [E -> Nat], \A y \in D : g[y] = f[y]
  PROVE  IsFiniteSet(Units(g)) /\ Sum(g) = Sum(f) + g[x]
<1>1. PICK m \in Nat : m = 0
  OBVIOUS
<1>2. PICK n \in Nat : n = g[x]
  OBVIOUS
<1>3. m = (IF x \in D THEN f[x] ELSE 0) /\ g[x] = m + n
      /\ \A y \in D \ {x} : g[y] = f[y]
  BY <1>1, <1>2
<1>4. IsFiniteSet(Units(g)) /\ Sum(g) = Sum(f) + n
  BY <1>3, SumGrows
<1> QED
  BY <1>2, <1>4

LEMMA SumOfNothing ==
  ASSUME NEW D, NEW f \in [D -> Nat], \A x \in D : f[x] = 0
  PROVE  IsFiniteSet(Units(f)) /\ Sum(f) = 0
<1>1. Units(f) = {}
  BY DEF Units
<1> QED
  BY <1>1, FS_EmptySet, Zenon DEF Sum

LEMMA PartOfSum ==
  ASSUME NEW D, NEW f \in [D -> Nat], IsFiniteSet(Units(f)),
         NEW E \in SUBSET D, NEW g \in [E -> Nat], \A x \in E : g[x] = f[x]
  PROVE  IsFiniteSet(Units(g))
<1>1. Units(g) \in SUBSET Units(f)
  BY DEF Units
<1> QED
  BY <1>1, FS_Subset, Zenon

----------------------------------------------------------------------------
\* Columns of a table and figures of requests are functions one can add up.
LEMMA ColumnTypes ==
  ASSUME NEW t \in [Keys -> Row], NEW K \in SUBSET Keys
  PROVE  /\ [k \in K |-> t[k].requests] \in [K -> Nat]
         /\ [k \in K |-> t[k].prompt] \in [K -> Nat]
         /\ [k \in K |-> t[k].completion] \in [K -> Nat]
<1>1. \A k \in Keys : /\ t[k].requests \in Nat /\ t[k].prompt \in Nat
                      /\ t[k].completion \in Nat
  BY DEF Row
<1> QED
  BY <1>1

LEMMA FigureTypes ==
  ASSUME NEW u \in [Requests -> Usage], NEW S \in SUBSET Requests
  PROVE  /\ [r \in S |-> u[r].prompt] \in [S -> Nat]
         /\ [r \in S |-> u[r].completion] \in [S -> Nat]
<1>1. \A r \in Requests : u[r].prompt \in Nat /\ u[r].completion \in Nat
  BY DEF Usage
<1> QED
  BY <1>1

LEMMA ReportInit == Init => ReportInv
<1> SUFFICES ASSUME Init PROVE ReportInv
  OBVIOUS
<1>1. CountedRequests = {} /\ \A K : InRows(K) = {}
  BY DEF Init, CountedRequests, InRows, Into
<1>2. \A k \in Keys : /\ rollup[k].requests = 0 /\ rollup[k].prompt = 0
                      /\ rollup[k].completion = 0
  BY DEF Init, NoRow
<1>3. \A K \in SUBSET Keys :
        /\ [k \in K |-> rollup[k].requests] \in [K -> Nat]
        /\ [k \in K |-> rollup[k].prompt] \in [K -> Nat]
        /\ [k \in K |-> rollup[k].completion] \in [K -> Nat]
  BY <1>2
<1>4. ASSUME NEW K \in SUBSET Keys
      PROVE  /\ IsFiniteSet(Units([k \in K |-> rollup[k].requests]))
             /\ IsFiniteSet(Units([k \in K |-> rollup[k].prompt]))
             /\ IsFiniteSet(Units([k \in K |-> rollup[k].completion]))
             /\ Report(K) = [requests |-> 0, prompt |-> 0, completion |-> 0]
  <2>1. /\ IsFiniteSet(Units([k \in K |-> rollup[k].requests]))
        /\ Sum([k \in K |-> rollup[k].requests]) = 0
    BY <1>2, <1>3, SumOfNothing
  <2>2. /\ IsFiniteSet(Units([k \in K |-> rollup[k].prompt]))
        /\ Sum([k \in K |-> rollup[k].prompt]) = 0
    BY <1>2, <1>3, SumOfNothing
  <2>3. /\ IsFiniteSet(Units([k \in K |-> rollup[k].completion]))
        /\ Sum([k \in K |-> rollup[k].completion]) = 0
    BY <1>2, <1>3, SumOfNothing
  <2> QED
    BY <2>1, <2>2, <2>3 DEF Report
<1>5. ASSUME NEW f \in [{} -> Nat] PROVE IsFiniteSet(Units(f)) /\ Sum(f) = 0
  BY SumOfNothing
<1>6. /\ IsFiniteSet(Units([r \in {} |-> seen[r].prompt]))
      /\ Sum([r \in {} |-> seen[r].prompt]) = 0
      /\ IsFiniteSet(Units([r \in {} |-> seen[r].completion]))
      /\ Sum([r \in {} |-> seen[r].completion]) = 0
  <2>1. /\ [r \in {} |-> seen[r].prompt] \in [{} -> Nat]
        /\ [r \in {} |-> seen[r].completion] \in [{} -> Nat]
    OBVIOUS
  <2> QED
    BY <1>5, <2>1
<1>7. IsFiniteSet({}) /\ Cardinality({}) = 0
  BY FS_EmptySet, Zenon
<1>8. Named
  BY <1>1 DEF Named
<1>9. Finite
  BY <1>1, <1>4, <1>6, <1>7 DEF Finite
<1>10. RowsHoldRequests
  BY <1>1, <1>4, <1>6, <1>7 DEF RowsHoldRequests, Used
<1> QED
  BY <1>8, <1>9, <1>10 DEF ReportInv

\* Nothing is added to the table, and no request that was counted changes.
LEMMA ReportsStay ==
  ASSUME ReportInv, UNCHANGED <<rollup, counted>>,
         \A q \in Requests : counted[q] # 0 => seen'[q] = seen[q]
  PROVE  ReportInv'
<1>1. CountedRequests' = CountedRequests
  BY DEF CountedRequests
<1>2. \A K : InRows(K)' = InRows(K) /\ InRows(K) \subseteq CountedRequests
  BY DEF InRows, Into, CountedRequests
<1>3. \A r \in CountedRequests : seen'[r] = seen[r]
  BY DEF CountedRequests
<1>4. ASSUME NEW S \in SUBSET CountedRequests
      PROVE  /\ [r \in S |-> seen'[r].prompt] = [r \in S |-> seen[r].prompt]
             /\ [r \in S |-> seen'[r].completion] = [r \in S |-> seen[r].completion]
  BY <1>3
<1>5. Named'
  BY <1>1, <1>3 DEF ReportInv, Named
<1>6. Finite'
  BY <1>1, <1>4 DEF ReportInv, Finite, Keys, Days
<1>7. RowsHoldRequests'
  <2> SUFFICES ASSUME NEW K \in SUBSET Keys
      PROVE  Report(K)' = Used(InRows(K))'
    BY DEF RowsHoldRequests, Keys, Days
  <2>1. Report(K)' = Report(K)
    BY DEF Report
  <2>2. Used(InRows(K))' = Used(InRows(K))
    BY <1>2, <1>4 DEF Used
  <2> QED
    BY <2>1, <2>2 DEF ReportInv, RowsHoldRequests
<1> QED
  BY <1>5, <1>6, <1>7 DEF ReportInv

\* Any part of the table, and any of the requests counted, add up.
LEMMA ColumnsFinite ==
  ASSUME MeteringTypeOK, ReportInv, NEW K \in SUBSET Keys
  PROVE  /\ IsFiniteSet(Units([k \in K |-> rollup[k].requests]))
         /\ IsFiniteSet(Units([k \in K |-> rollup[k].prompt]))
         /\ IsFiniteSet(Units([k \in K |-> rollup[k].completion]))
<1>1. rollup \in [Keys -> Row] /\ Keys \in SUBSET Keys
  BY DEF MeteringTypeOK
<1>2. IsFiniteSet(Units([k \in K |-> rollup[k].requests]))
  <2> DEFINE f == [k \in Keys |-> rollup[k].requests]
             g == [k \in K |-> rollup[k].requests]
  <2>1. f \in [Keys -> Nat] /\ g \in [K -> Nat] /\ \A k \in K : g[k] = f[k]
    BY <1>1, ColumnTypes
  <2>2. IsFiniteSet(Units(f))
    BY DEF ReportInv, Finite
  <2> HIDE DEF f, g
  <2>3. IsFiniteSet(Units(g))
    BY <2>1, <2>2, PartOfSum
  <2> QED
    BY <2>3 DEF g
<1>3. IsFiniteSet(Units([k \in K |-> rollup[k].prompt]))
  <2> DEFINE f == [k \in Keys |-> rollup[k].prompt]
             g == [k \in K |-> rollup[k].prompt]
  <2>1. f \in [Keys -> Nat] /\ g \in [K -> Nat] /\ \A k \in K : g[k] = f[k]
    BY <1>1, ColumnTypes
  <2>2. IsFiniteSet(Units(f))
    BY DEF ReportInv, Finite
  <2> HIDE DEF f, g
  <2>3. IsFiniteSet(Units(g))
    BY <2>1, <2>2, PartOfSum
  <2> QED
    BY <2>3 DEF g
<1>4. IsFiniteSet(Units([k \in K |-> rollup[k].completion]))
  <2> DEFINE f == [k \in Keys |-> rollup[k].completion]
             g == [k \in K |-> rollup[k].completion]
  <2>1. f \in [Keys -> Nat] /\ g \in [K -> Nat] /\ \A k \in K : g[k] = f[k]
    BY <1>1, ColumnTypes
  <2>2. IsFiniteSet(Units(f))
    BY DEF ReportInv, Finite
  <2> HIDE DEF f, g
  <2>3. IsFiniteSet(Units(g))
    BY <2>1, <2>2, PartOfSum
  <2> QED
    BY <2>3 DEF g
<1> QED
  BY <1>2, <1>3, <1>4

LEMMA FiguresFinite ==
  ASSUME MeteringTypeOK, ReportInv, NEW S \in SUBSET CountedRequests
  PROVE  /\ IsFiniteSet(S)
         /\ IsFiniteSet(Units([q \in S |-> seen[q].prompt]))
         /\ IsFiniteSet(Units([q \in S |-> seen[q].completion]))
<1> DEFINE C == CountedRequests
<1>1. seen \in [Requests -> Usage] /\ C \in SUBSET Requests /\ S \in SUBSET Requests
  BY DEF MeteringTypeOK, CountedRequests
<1>2. IsFiniteSet(S)
  BY FS_Subset, Zenon DEF ReportInv, Finite
<1>3. IsFiniteSet(Units([q \in S |-> seen[q].prompt]))
  <2> DEFINE f == [q \in C |-> seen[q].prompt]
             g == [q \in S |-> seen[q].prompt]
  <2>1. f \in [C -> Nat] /\ g \in [S -> Nat] /\ \A q \in S : g[q] = f[q]
    BY <1>1, FigureTypes
  <2>2. IsFiniteSet(Units(f))
    BY DEF ReportInv, Finite
  <2> HIDE DEF f, g
  <2>3. IsFiniteSet(Units(g))
    BY <2>1, <2>2, PartOfSum
  <2> QED
    BY <2>3 DEF g
<1>4. IsFiniteSet(Units([q \in S |-> seen[q].completion]))
  <2> DEFINE f == [q \in C |-> seen[q].completion]
             g == [q \in S |-> seen[q].completion]
  <2>1. f \in [C -> Nat] /\ g \in [S -> Nat] /\ \A q \in S : g[q] = f[q]
    BY <1>1, FigureTypes
  <2>2. IsFiniteSet(Units(f))
    BY DEF ReportInv, Finite
  <2> HIDE DEF f, g
  <2>3. IsFiniteSet(Units(g))
    BY <2>1, <2>2, PartOfSum
  <2> QED
    BY <2>3 DEF g
<1> QED
  BY <1>2, <1>3, <1>4

\* A request is counted: its row and what the requests of the row add up to
\* grow by the same figures.
LEMMA BumpReports ==
  ASSUME MeteringInv, MeteringTypeOK', ReportInv, NEW r \in Requests,
         phase[r] = "bump", BumpUsage(r), UNCHANGED answerVars
  PROVE  ReportInv'
<1> DEFINE key == <<UserOf[r], today, seen[r].model>>
<1>1. /\ counted[r] = 0 /\ seen[r] \in Usage /\ seen[r].model # NoModel
      /\ today \in Days /\ today # 0
  BY MeteringAssumption DEF MeteringInv, MeteringTypeOK, Carried, Days
<1>2. key \in Keys
  BY <1>1, MeteringAssumption DEF Keys, Usage
<1>3. /\ rollup'[key].requests = rollup[key].requests + 1
      /\ rollup'[key].prompt = rollup[key].prompt + seen[r].prompt
      /\ rollup'[key].completion = rollup[key].completion + seen[r].completion
      /\ \A k \in Keys \ {key} : rollup'[k] = rollup[k]
  BY <1>2 DEF BumpUsage, MeteringInv, MeteringTypeOK
<1>4. counted' = [counted EXCEPT ![r] = today] /\ counted'[r] = today /\ seen' = seen
  BY <1>1 DEF BumpUsage, MeteringInv, MeteringTypeOK, answerVars
<1>5. CountedRequests' = CountedRequests \cup {r} /\ r \notin CountedRequests
  BY <1>1, <1>4 DEF CountedRequests, MeteringInv, MeteringTypeOK
<1>6. \A q \in Requests, k \in Keys : Into(q, k)' <=>
          IF q = r THEN k = key ELSE Into(q, k)
  BY <1>1, <1>4 DEF Into, MeteringInv, MeteringTypeOK
<1> HIDE DEF key
<1>7. seen[r].prompt \in Nat /\ seen[r].completion \in Nat
  BY <1>1 DEF Usage
<1>8. Named'
  BY <1>1, <1>4, <1>5 DEF Named, ReportInv
<1>9. ASSUME NEW K \in SUBSET Keys
      PROVE  /\ [k \in K |-> rollup[k].requests] \in [K -> Nat]
             /\ [k \in K |-> rollup[k].prompt] \in [K -> Nat]
             /\ [k \in K |-> rollup[k].completion] \in [K -> Nat]
             /\ [k \in K |-> rollup'[k].requests] \in [K -> Nat]
             /\ [k \in K |-> rollup'[k].prompt] \in [K -> Nat]
             /\ [k \in K |-> rollup'[k].completion] \in [K -> Nat]
  <2>1. rollup \in [Keys -> Row] /\ rollup' \in [Keys -> Row]
    BY DEF MeteringInv, MeteringTypeOK, Keys, Days
  <2> QED
    BY <2>1, ColumnTypes
<1>10. ASSUME NEW S \in SUBSET Requests
       PROVE  /\ [q \in S |-> seen[q].prompt] \in [S -> Nat]
              /\ [q \in S |-> seen[q].completion] \in [S -> Nat]
  BY FigureTypes DEF MeteringInv, MeteringTypeOK
<1>11. Finite'
  <2> DEFINE C == CountedRequests
  <2>0. C \in SUBSET Requests /\ C \cup {r} \in SUBSET Requests
    BY DEF CountedRequests
  <2>1. IsFiniteSet(C \cup {r})
    BY FS_AddElement, Zenon DEF ReportInv, Finite
  <2>2. ASSUME NEW f \in [Keys -> Nat], NEW g \in [Keys -> Nat], NEW n \in Nat,
               IsFiniteSet(Units(f)), g[key] = f[key] + n,
               \A k \in Keys \ {key} : g[k] = f[k]
        PROVE  IsFiniteSet(Units(g))
    BY <1>2, <2>2, TermGrows
  <2>3. ASSUME NEW f \in [C -> Nat], NEW g \in [C \cup {r} -> Nat],
               IsFiniteSet(Units(f)), \A q \in C : g[q] = f[q]
        PROVE  IsFiniteSet(Units(g))
    BY <1>5, <2>3, TermJoins
  <2>4. IsFiniteSet(Units([k \in Keys |-> rollup'[k].requests]))
    BY <1>2, <1>3, <1>9, <2>2 DEF ReportInv, Finite
  <2>5. IsFiniteSet(Units([k \in Keys |-> rollup'[k].prompt]))
    BY <1>2, <1>3, <1>7, <1>9, <2>2 DEF ReportInv, Finite
  <2>6. IsFiniteSet(Units([k \in Keys |-> rollup'[k].completion]))
    BY <1>2, <1>3, <1>7, <1>9, <2>2 DEF ReportInv, Finite
  <2>7. IsFiniteSet(Units([q \in C \cup {r} |-> seen[q].prompt]))
    BY <1>10, <2>0, <2>3 DEF ReportInv, Finite
  <2>8. IsFiniteSet(Units([q \in C \cup {r} |-> seen[q].completion]))
    BY <1>10, <2>0, <2>3 DEF ReportInv, Finite
  <2>9. Keys' = Keys
    BY DEF Keys, Days
  <2> QED
    BY <1>4, <1>5, <2>1, <2>4, <2>5, <2>6, <2>7, <2>8, <2>9 DEF Finite
<1>12. RowsHoldRequests'
  <2> SUFFICES ASSUME NEW K \in SUBSET Keys
      PROVE  Report(K)' = Used(InRows(K))'
    BY DEF RowsHoldRequests, Keys, Days
  <2> DEFINE S == InRows(K)
  <2>1. /\ Report(K) = Used(S)
        /\ S \in SUBSET CountedRequests /\ S \in SUBSET Requests /\ r \notin S
    BY <1>5 DEF ReportInv, RowsHoldRequests, InRows, Into, CountedRequests
  <2> HIDE DEF S
  <2>2. CASE key \notin K
    <3>1. InRows(K)' = S
      BY <1>1, <1>6, <2>2 DEF S, InRows, Into
    <3>2. /\ [k \in K |-> rollup'[k].requests] = [k \in K |-> rollup[k].requests]
          /\ [k \in K |-> rollup'[k].prompt] = [k \in K |-> rollup[k].prompt]
          /\ [k \in K |-> rollup'[k].completion] = [k \in K |-> rollup[k].completion]
      BY <1>3, <2>2
    <3>3. Report(K)' = Report(K)
      BY <3>2 DEF Report
    <3>4. Used(InRows(K))' = Used(S)
      BY <1>4, <3>1 DEF Used
    <3> QED
      BY <2>1, <3>3, <3>4
  <2>3. CASE key \in K
    <3>1. InRows(K)' = S \cup {r}
      BY <1>6, <2>3 DEF S, InRows
    <3>2. /\ IsFiniteSet(S)
          /\ IsFiniteSet(Units([q \in S |-> seen[q].prompt]))
          /\ IsFiniteSet(Units([q \in S |-> seen[q].completion]))
      BY <2>1, FiguresFinite DEF MeteringInv
    <3>3. /\ IsFiniteSet(Units([k \in K |-> rollup[k].requests]))
          /\ IsFiniteSet(Units([k \in K |-> rollup[k].prompt]))
          /\ IsFiniteSet(Units([k \in K |-> rollup[k].completion]))
      BY ColumnsFinite DEF MeteringInv
    <3>4. /\ Sum([k \in K |-> rollup[k].requests]) = Cardinality(S)
          /\ Sum([k \in K |-> rollup[k].prompt]) = Sum([q \in S |-> seen[q].prompt])
          /\ Sum([k \in K |-> rollup[k].completion]) = Sum([q \in S |-> seen[q].completion])
      BY <2>1 DEF Report, Used
    <3>5. S \cup {r} \in SUBSET Requests
      BY <2>1
    <3>6. /\ Cardinality(S \cup {r}) = Cardinality(S) + 1
          /\ Cardinality(S) \in Nat
      BY <2>1, <3>2, FS_AddElement, FS_CardinalityType, Zenon
    <3>7. Sum([k \in K |-> rollup'[k].requests]) = Cardinality(S \cup {r})
      <4> DEFINE f == [k \in K |-> rollup[k].requests]
                 f2 == [k \in K |-> rollup'[k].requests]
      <4>1. /\ f \in [K -> Nat] /\ IsFiniteSet(Units(f)) /\ 1 \in Nat
            /\ f2 \in [K -> Nat]
            /\ f2[key] = f[key] + 1 /\ \A k \in K \ {key} : f2[k] = f[k]
        BY <1>3, <1>9, <2>3, <3>3
      <4>2. Sum(f2) = Sum(f) + 1
        <5> HIDE DEF f, f2
        <5> QED
          BY <2>3, <4>1, TermGrows
      <4> QED
        BY <3>4, <3>6, <4>2
    <3>8. Sum([k \in K |-> rollup'[k].prompt])
            = Sum([q \in S \cup {r} |-> seen[q].prompt])
      <4> DEFINE f == [k \in K |-> rollup[k].prompt]
                 f2 == [k \in K |-> rollup'[k].prompt]
                 g == [q \in S |-> seen[q].prompt]
                 g2 == [q \in S \cup {r} |-> seen[q].prompt]
      <4>1. /\ f \in [K -> Nat] /\ f2 \in [K -> Nat]
            /\ f2[key] = f[key] + seen[r].prompt
            /\ \A k \in K \ {key} : f2[k] = f[k]
        BY <1>3, <1>9, <2>3
      <4>2. /\ g \in [S -> Nat] /\ g2 \in [S \cup {r} -> Nat]
            /\ g2[r] = seen[r].prompt /\ \A q \in S : g2[q] = g[q]
        BY <1>10, <2>1, <3>5
      <4>3. Sum(f) = Sum(g) /\ IsFiniteSet(Units(f)) /\ IsFiniteSet(Units(g))
        BY <3>2, <3>3, <3>4
      <4> HIDE DEF f, f2, g, g2
      <4>4. Sum(f2) = Sum(f) + seen[r].prompt
        BY <1>7, <2>3, <4>1, <4>3, TermGrows
      <4>5. Sum(g2) = Sum(g) + g2[r]
        BY <2>1, <4>2, <4>3, TermJoins
      <4>6. Sum(f2) = Sum(g2)
        BY <4>2, <4>3, <4>4, <4>5
      <4> QED
        BY <4>6 DEF f2, g2
    <3>9. Sum([k \in K |-> rollup'[k].completion])
            = Sum([q \in S \cup {r} |-> seen[q].completion])
      <4> DEFINE f == [k \in K |-> rollup[k].completion]
                 f2 == [k \in K |-> rollup'[k].completion]
                 g == [q \in S |-> seen[q].completion]
                 g2 == [q \in S \cup {r} |-> seen[q].completion]
      <4>1. /\ f \in [K -> Nat] /\ f2 \in [K -> Nat]
            /\ f2[key] = f[key] + seen[r].completion
            /\ \A k \in K \ {key} : f2[k] = f[k]
        BY <1>3, <1>9, <2>3
      <4>2. /\ g \in [S -> Nat] /\ g2 \in [S \cup {r} -> Nat]
            /\ g2[r] = seen[r].completion /\ \A q \in S : g2[q] = g[q]
        BY <1>10, <2>1, <3>5
      <4>3. Sum(f) = Sum(g) /\ IsFiniteSet(Units(f)) /\ IsFiniteSet(Units(g))
        BY <3>2, <3>3, <3>4
      <4> HIDE DEF f, f2, g, g2
      <4>4. Sum(f2) = Sum(f) + seen[r].completion
        BY <1>7, <2>3, <4>1, <4>3, TermGrows
      <4>5. Sum(g2) = Sum(g) + g2[r]
        BY <2>1, <4>2, <4>3, TermJoins
      <4>6. Sum(f2) = Sum(g2)
        BY <4>2, <4>3, <4>4, <4>5
      <4> QED
        BY <4>6 DEF f2, g2
    <3> QED
      BY <1>4, <3>1, <3>7, <3>8, <3>9 DEF Report, Used
  <2> QED
    BY <2>2, <2>3
<1> QED
  BY <1>8, <1>11, <1>12 DEF ReportInv

\* A step adds a request that was never counted to its row, or leaves the
\* table and the figures of whoever was counted alone.
LEMMA CountsOrStays ==
  ASSUME MeteringInv, [Next]_vars
  PROVE  \/ \E r \in Requests :
               phase[r] = "bump" /\ BumpUsage(r) /\ UNCHANGED answerVars
         \/ /\ UNCHANGED <<rollup, counted>>
            /\ \A q \in Requests : counted[q] # 0 => seen'[q] = seen[q]
<1>1. \A q \in Requests : counted[q] # 0 => phase[q] \in {"close", "done"}
  BY DEF MeteringInv, Carried
<1>2. ASSUME NEW r \in Requests,
             \/ \E a \in Accounts : Send(r, a) \/ Rebind(r, a)
             \/ Refuse(r) \/ EndStream(r) \/ Leave(r) \/ EmitPrompt(r) \/ Close(r)
             \/ \E ok \in BOOLEAN : EmitUsage(r, ok)
      PROVE  UNCHANGED <<rollup, counted, seen>>
  BY <1>2 DEF Send, Rebind, Refuse, EndStream, Leave, EmitPrompt, Close, EmitUsage,
     Publish, answerVars, recordVars
<1>3. ASSUME NEW r \in Requests, NEW n \in 0..MaxTokens, NEW F \in Carries,
             (\E cut \in BOOLEAN : Observe(r, n, F, cut)) \/ AnswerBuffered(r, n, F)
      PROVE  /\ UNCHANGED <<rollup, counted>>
             /\ \A q \in Requests : counted[q] # 0 => seen'[q] = seen[q]
  <2>1. counted[r] = 0 /\ UNCHANGED <<rollup, counted>>
    BY <1>1, <1>3 DEF Observe, AnswerBuffered, Go, Opened, recordVars
  <2>2. \A q \in Requests \ {r} : seen'[q] = seen[q]
    BY <1>3 DEF Observe, AnswerBuffered, MeteringInv, MeteringTypeOK
  <2> QED
    BY <2>1, <2>2
<1>4. ASSUME NEW r \in Requests, EmitRollup(r) \/ CutOff(r) \/ Die(r)
      PROVE  \/ phase[r] = "bump" /\ BumpUsage(r) /\ UNCHANGED answerVars
             \/ UNCHANGED <<rollup, counted, seen>>
  BY <1>4 DEF EmitRollup, CutOff, Die, Go, Effect, Publish, recordVars, answerVars
<1>5. CASE NextDay \/ UNCHANGED vars
  BY <1>5 DEF NextDay, vars, recordVars, answerVars
<1> QED
  BY <1>2, <1>3, <1>4, <1>5 DEF Next, Step

LEMMA ReportStep == MeteringInv /\ ReportInv /\ [Next]_vars => ReportInv'
<1> SUFFICES ASSUME MeteringInv, ReportInv, [Next]_vars PROVE ReportInv'
  OBVIOUS
<1>1. MeteringTypeOK'
  BY MeteringStep DEF MeteringInv
<1> QED
  BY <1>1, CountsOrStays, BumpReports, ReportsStay

(* The rows of usage_rollup hold what the requests counted in them used:   *)
(* the inductive invariant of the reports.                                 *)
THEOREM RowsAddUp == Spec => []ReportInv
<1>1. Init => ReportInv
  BY ReportInit
<1>2. MeteringInv /\ ReportInv /\ [Next]_vars => ReportInv'
  BY ReportStep
<1> QED
  BY <1>1, <1>2, MeteringInvariant, PTL DEF Spec

----------------------------------------------------------------------------
\* The rows of a window hold the requests a user of the console asks for.
LEMMA WindowIsWanted ==
  ASSUME MeteringTypeOK, NEW from \in Dates, NEW to \in Dates, NEW d \in Days
  PROVE  d \in Window(from, to) <=> Wanted(d, from, to)
<1>1. /\ d \in Int /\ today \in Int /\ WindowDays \in Int
      /\ from \in Int \cup {NoDate} /\ to \in Int \cup {NoDate} /\ NoDate \notin Int
  BY WindowAssumption, MeteringAssumption DEF MeteringTypeOK, Days, Dates
<1> QED
  BY <1>1 DEF Window, Wanted

\* r is counted in the rows K when its own row is among them.
LEMMA RequestsOfRows ==
  ASSUME NEW K, NEW r \in Requests
  PROVE  r \in InRows(K) <=>
           counted[r] # 0 /\ <<UserOf[r], counted[r], seen[r].model>> \in K
  BY DEF InRows, Into

LEMMA RequestsOfWindow ==
  ASSUME MeteringTypeOK, ReportInv, NEW r \in Requests,
         NEW from \in Dates, NEW to \in Dates
  PROVE  r \in CountedIn(from, to) <=>
           /\ counted[r] # 0
           /\ <<UserOf[r], counted[r], seen[r].model>> \in InWindow(from, to)
<1> DEFINE k == <<UserOf[r], counted[r], seen[r].model>>
<1>1. ASSUME counted[r] # 0 PROVE k \in Keys /\ counted[r] \in Days
  <2>1. counted[r] \in Days
    BY <1>1, MeteringAssumption DEF MeteringTypeOK, Days
  <2>2. seen[r].model \in Models
    BY <1>1 DEF MeteringTypeOK, Usage, ReportInv, Named, CountedRequests
  <2> QED
    BY <2>1, <2>2, MeteringAssumption DEF Keys
<1> QED
  BY <1>1, WindowIsWanted DEF CountedIn, InWindow

(* Over every window the console can ask for, the reports by day, by user  *)
(* and by model count each request once, with its own figures.             *)
THEOREM ReportsAreExact == Spec => []ReportsAddUp
<1>1. MeteringTypeOK /\ ReportInv => ReportsAddUp
  <2> SUFFICES ASSUME MeteringTypeOK, ReportInv, NEW from \in Dates, NEW to \in Dates
      PROVE LET C == CountedIn(from, to) IN
        /\ \A u \in Users : ByUser(from, to)[u] = Used({r \in C : UserOf[r] = u})
        /\ \A m \in Models : ByModel(from, to)[m] = Used({r \in C : seen[r].model = m})
        /\ \A d \in Window(from, to) \cap Days :
               Timeseries(from, to)[d] = Used({r \in C : counted[r] = d})
    BY DEF ReportsAddUp
  <2> DEFINE C == CountedIn(from, to)
             W == InWindow(from, to)
  <2>1. \A K \in SUBSET Keys : Report(K) = Used(InRows(K))
    BY DEF ReportInv, RowsHoldRequests
  <2>2. W \subseteq Keys /\ C \subseteq Requests
    BY DEF InWindow, CountedIn
  <2>3. \A r \in Requests : r \in C <=>
          counted[r] # 0 /\ <<UserOf[r], counted[r], seen[r].model>> \in W
    BY RequestsOfWindow
  <2> HIDE DEF C, W
  <2>4. ASSUME NEW u \in Users
        PROVE  InRows({k \in W : k[1] = u}) = {r \in C : UserOf[r] = u}
    <3>1. ASSUME NEW r \in Requests
          PROVE  r \in InRows({k \in W : k[1] = u}) <=> r \in C /\ UserOf[r] = u
      <4> DEFINE row == <<UserOf[r], counted[r], seen[r].model>>
      <4>1. row \in {k \in W : k[1] = u} <=> row \in W /\ UserOf[r] = u
        OBVIOUS
      <4>2. r \in InRows({k \in W : k[1] = u}) <=>
              counted[r] # 0 /\ row \in {k \in W : k[1] = u}
        BY RequestsOfRows
      <4> QED
        BY <2>3, <4>1, <4>2
    <3> QED
      BY <2>2, <3>1 DEF InRows
  <2>5. ASSUME NEW m \in Models
        PROVE  InRows({k \in W : k[3] = m}) = {r \in C : seen[r].model = m}
    <3>1. ASSUME NEW r \in Requests
          PROVE  r \in InRows({k \in W : k[3] = m}) <=> r \in C /\ seen[r].model = m
      <4> DEFINE row == <<UserOf[r], counted[r], seen[r].model>>
      <4>1. row \in {k \in W : k[3] = m} <=> row \in W /\ seen[r].model = m
        OBVIOUS
      <4>2. r \in InRows({k \in W : k[3] = m}) <=>
              counted[r] # 0 /\ row \in {k \in W : k[3] = m}
        BY RequestsOfRows
      <4> QED
        BY <2>3, <4>1, <4>2
    <3> QED
      BY <2>2, <3>1 DEF InRows
  <2>6. ASSUME NEW d \in Days
        PROVE  InRows({k \in W : k[2] = d}) = {r \in C : counted[r] = d}
    <3>1. ASSUME NEW r \in Requests
          PROVE  r \in InRows({k \in W : k[2] = d}) <=> r \in C /\ counted[r] = d
      <4> DEFINE row == <<UserOf[r], counted[r], seen[r].model>>
      <4>1. row \in {k \in W : k[2] = d} <=> row \in W /\ counted[r] = d
        OBVIOUS
      <4>2. r \in InRows({k \in W : k[2] = d}) <=>
              counted[r] # 0 /\ row \in {k \in W : k[2] = d}
        BY RequestsOfRows
      <4> QED
        BY <2>3, <4>1, <4>2
    <3> QED
      BY <2>2, <3>1 DEF InRows
  <2>7. ASSUME NEW u \in Users
        PROVE  ByUser(from, to)[u] = Used({r \in C : UserOf[r] = u})
    BY <2>1, <2>2, <2>4 DEF ByUser, W
  <2>8. ASSUME NEW m \in Models
        PROVE  ByModel(from, to)[m] = Used({r \in C : seen[r].model = m})
    BY <2>1, <2>2, <2>5 DEF ByModel, W
  <2>9. ASSUME NEW d \in Window(from, to) \cap Days
        PROVE  Timeseries(from, to)[d] = Used({r \in C : counted[r] = d})
    BY <2>1, <2>2, <2>6 DEF Timeseries, W
  <2> QED
    BY <2>7, <2>8, <2>9 DEF C
<1>2. MeteringInv => MeteringTypeOK
  BY DEF MeteringInv
<1> QED
  BY <1>1, <1>2, MeteringInvariant, RowsAddUp, PTL

(* The report by account is exact for every account that no move of a user *)
(* within a day concerns.                                                  *)
THEOREM AccountReportIsExact == Spec => []AccountsExactUnlessMoved
<1>1. MeteringInv /\ ReportInv => AccountsExactUnlessMoved
  <2> SUFFICES ASSUME MeteringInv, ReportInv, NEW from \in Dates, NEW to \in Dates,
                      NEW a \in Accounts, ~Moved(a)
      PROVE  ByAccount(from, to)[a] = Used({r \in CountedIn(from, to) : served[r] = a})
    BY DEF AccountsExactUnlessMoved
  <2> DEFINE C == CountedIn(from, to)
             W == InWindow(from, to)
             K == {k \in W : rollup[k].account = a}
  <2>1. K \in SUBSET Keys /\ W \in SUBSET Keys /\ C \in SUBSET Requests
    BY DEF InWindow, CountedIn
  <2>2. \A r \in Requests : r \in C <=>
          counted[r] # 0 /\ <<UserOf[r], counted[r], seen[r].model>> \in W
    BY RequestsOfWindow DEF MeteringInv
  <2>3. ASSUME NEW r \in Requests, NEW k \in Keys, Into(r, k)
        PROVE  rollup[k].account = a <=> served[r] = a
    <3>1. PICK q \in Requests : Into(q, k) /\ served[q] = rollup[k].account
      BY <2>3 DEF MeteringInv, RowsCharge
    <3>2. counted[r] # 0 /\ counted[r] = counted[q] /\ UserOf[r] = UserOf[q]
          /\ seen[r].model = seen[q].model
      BY <2>3, <3>1 DEF Into
    <3> QED
      BY <3>1, <3>2 DEF Moved
  <2> HIDE DEF C, W
  <2>4. InRows(K) = {r \in C : served[r] = a}
    <3>1. ASSUME NEW r \in Requests
          PROVE  r \in InRows(K) <=> r \in C /\ served[r] = a
      <4> DEFINE k == <<UserOf[r], counted[r], seen[r].model>>
      <4>1. r \in InRows(K) <=> counted[r] # 0 /\ k \in K
        BY RequestsOfRows
      <4>2. counted[r] # 0 /\ k \in W => (rollup[k].account = a <=> served[r] = a)
        BY <2>1, <2>3 DEF Into
      <4> QED
        BY <2>2, <4>1, <4>2
    <3> QED
      BY <2>1, <3>1 DEF InRows
  <2>5. ByAccount(from, to)[a] = Report(K)
    BY DEF ByAccount, W
  <2> QED
    BY <2>1, <2>4, <2>5 DEF ReportInv, RowsHoldRequests, C
<1> QED
  BY <1>1, MeteringInvariant, RowsAddUp, PTL
============================================================================
