------------------------------ MODULE Metering ------------------------------
(***************************************************************************)
(* What a request is charged (proxy/usage.py, gen and _emit_usage of       *)
(* proxy/app.py, observability/sink.py, bump_usage of db/repo.py).  The    *)
(* upstream answer names the model and the tokens used, in one body or     *)
(* piece by piece; the figures go to Kafka and into usage_rollup, each     *)
(* behind an await, all within five seconds.                               *)
(*                                                                         *)
(* An await that is given up may have had its effect or not.  An effect    *)
(* that comes later than that is not told apart from one that comes just   *)
(* before: nothing reads the difference.                                   *)
(***************************************************************************)
EXTENDS Naturals

CONSTANTS
    Requests,
    Streams,        \* the requests that ask for a stream
    Users, Accounts, Models,
    UserOf, ModelOf, PromptOf,  \* of each request; PromptOf in tokens
    NoModel,        \* model == ""
    NoAccount,
    MaxTokens,      \* bound: completion tokens of one answer
    MaxDay          \* bound: days

ASSUME MeteringAssumption ==
    /\ Streams \subseteq Requests
    /\ UserOf \in [Requests -> Users]
    /\ ModelOf \in [Requests -> Models]
    /\ PromptOf \in [Requests -> Nat]
    /\ NoModel \notin Models
    /\ NoAccount \notin Accounts
    /\ MaxTokens \in Nat
    /\ MaxDay \in Nat \ {0}

VARIABLES
    phase,          \* the await each request is at
    charged,        \* the local account_id
    served,         \* the account that gave the answer in use
    spent,          \* completion tokens GitHub has counted
    seen,           \* the Usage the proxy has made of the answer
    events,         \* what the topic ghcproxy.usage holds
    rollup,         \* the table usage_rollup
    counted,        \* the day a request was added to usage_rollup, 0 if never
    interrupted,    \* requests cut short by a client, a timeout, an error, a crash
    today           \* CURRENT_DATE

answerVars == <<charged, served, spent, seen>>
recordVars == <<events, rollup, counted>>
vars == <<phase, answerVars, recordVars, interrupted, today>>

Phases == {"new", "sent", "resent", "answering", "usage", "prompt", "bump",
           "close", "done"}
Opened == {"sent", "resent", "answering"}
Emitting == {"usage", "prompt", "bump"}

Days == 1..MaxDay
Keys == Users \X Days \X Models         \* PRIMARY KEY (user_id, day, model)
Usage == [model : Models \cup {NoModel}, prompt : Nat, completion : Nat]
NoUsage == [model |-> NoModel, prompt |-> 0, completion |-> 0]
Row == [account : Accounts \cup {NoAccount}, prompt : Nat, completion : Nat,
        requests : Nat]
NoRow == [account |-> NoAccount, prompt |-> 0, completion |-> 0, requests |-> 0]
Event == [request : Requests, account : Accounts, usage : Usage]

MeteringTypeOK ==
    /\ phase \in [Requests -> Phases]
    /\ charged \in [Requests -> Accounts \cup {NoAccount}]
    /\ served \in [Requests -> Accounts \cup {NoAccount}]
    /\ spent \in [Requests -> 0..MaxTokens]
    /\ seen \in [Requests -> Usage]
    /\ events \subseteq Event
    /\ rollup \in [Keys -> Row]
    /\ counted \in [Requests -> 0..MaxDay]
    /\ interrupted \subseteq Requests
    /\ today \in Days

Init ==
    /\ phase = [r \in Requests |-> "new"]
    /\ charged = [r \in Requests |-> NoAccount]
    /\ served = [r \in Requests |-> NoAccount]
    /\ spent = [r \in Requests |-> 0]
    /\ seen = [r \in Requests |-> NoUsage]
    /\ events = {}
    /\ rollup = [k \in Keys |-> NoRow]
    /\ counted = [r \in Requests |-> 0]
    /\ interrupted = {}
    /\ today = 1

Go(r, from, to) ==
    /\ phase[r] \in from
    /\ phase' = [phase EXCEPT ![r] = to]

----------------------------------------------------------------------------
(* Which account answers.  Routing says which bindings a request may get;  *)
(* here it may be any.                                                     *)

\* Mutant: result.account_id keeps its default.
SendUnnamed(r, a) ==
    /\ Go(r, {"new"}, "sent")
    /\ served' = [served EXCEPT ![r] = a]
    /\ UNCHANGED <<charged, spent, seen, recordVars, interrupted, today>>

Send(r, a) ==
    /\ Go(r, {"new"}, "sent")
    /\ charged' = [charged EXCEPT ![r] = a]
    /\ served' = [served EXCEPT ![r] = a]
    /\ UNCHANGED <<spent, seen, recordVars, interrupted, today>>

\* Mutant: account_id is not set again after the rebind.
RebindKeepsAccount(r, a) ==
    /\ Go(r, {"sent"}, "resent")
    /\ served' = [served EXCEPT ![r] = a]
    /\ UNCHANGED <<charged, spent, seen, recordVars, interrupted, today>>

\* The first answer was an expired login; the retry has the next binding.
Rebind(r, a) ==
    /\ Go(r, {"sent"}, "resent")
    /\ charged' = [charged EXCEPT ![r] = a]
    /\ served' = [served EXCEPT ![r] = a]
    /\ UNCHANGED <<spent, seen, recordVars, interrupted, today>>

\* No account for the retry; or a 401 or 403 that is not retried, which ends
\* a stream before its generator.
Refuse(r) ==
    /\ phase[r] = "resent" => r \in Streams
    /\ Go(r, {"sent", "resent"}, "done")
    /\ UNCHANGED <<answerVars, recordVars, interrupted, today>>

----------------------------------------------------------------------------
(* The answer.                                                             *)

\* The fields of one JSON object: none that count (an error, a ping), the
\* model of a chunk, the count of a message_delta, or all of them, as in a
\* message_start, a last OpenAI chunk and a buffered body.
Carries == {{}, {"model"}, {"completion"}, {"model", "prompt", "completion"}}

\* Mutant: the counts of one answer are added up.
FoldAdds(u, r, n, F) ==
    [model |-> IF "model" \in F THEN ModelOf[r] ELSE u.model,
     prompt |-> IF "prompt" \in F THEN u.prompt + PromptOf[r] ELSE u.prompt,
     completion |-> IF "completion" \in F THEN u.completion + n ELSE u.completion]

\* "The latest wins."  n is the count so far.
Fold(u, r, n, F) ==
    [model |-> IF "model" \in F THEN ModelOf[r] ELSE u.model,
     prompt |-> IF "prompt" \in F THEN PromptOf[r] ELSE u.prompt,
     completion |-> IF "completion" \in F THEN n ELSE u.completion]

\* A line of the stream.  GitHub has counted up to n; a line that a chunk
\* boundary cuts in two is neither valid JSON nor a "data:" line, and ignored.
Observe(r, n, F, cut) ==
    /\ r \in Streams
    /\ Go(r, Opened, "answering")
    /\ n >= spent[r]
    /\ spent' = [spent EXCEPT ![r] = n]
    /\ seen' = IF cut THEN seen ELSE [seen EXCEPT ![r] = Fold(@, r, n, F)]
    /\ UNCHANGED <<charged, served, recordVars, interrupted, today>>

EndStream(r) ==
    /\ r \in Streams
    /\ Go(r, Opened, "usage")
    /\ UNCHANGED <<answerVars, recordVars, interrupted, today>>

\* The whole body at once.
AnswerBuffered(r, n, F) ==
    /\ r \notin Streams
    /\ Go(r, {"sent", "resent"}, "usage")
    /\ spent' = [spent EXCEPT ![r] = n]
    /\ seen' = [seen EXCEPT ![r] = Fold(NoUsage, r, n, F)]
    /\ UNCHANGED <<charged, served, recordVars, interrupted, today>>

\* The client goes or the connection breaks: the generator is closed at its
\* yield or await, and nothing is emitted.
Leave(r) ==
    /\ r \in Streams
    /\ Go(r, Opened, "close")
    /\ interrupted' = interrupted \cup {r}
    /\ UNCHANGED <<answerVars, recordVars, today>>

----------------------------------------------------------------------------
(* _emit_usage.                                                            *)

Publish(r) ==
    /\ events' = events \cup
           {[request |-> r, account |-> charged[r], usage |-> seen[r]]}
    /\ UNCHANGED <<rollup, counted>>

\* Mutants: the row is overwritten; it is looked up by day and model only.
BumpOverwrites(r) ==
    LET k == <<UserOf[r], today, seen[r].model>> IN
    /\ rollup' = [rollup EXCEPT ![k] =
           [account |-> charged[r], prompt |-> seen[r].prompt,
            completion |-> seen[r].completion, requests |-> 1]]
    /\ counted' = [counted EXCEPT ![r] = today]
    /\ UNCHANGED events

BumpWithoutAccount(r) ==
    LET k == <<UserOf[r], today, seen[r].model>> IN
    /\ rollup' = [rollup EXCEPT ![k] =
           [@ EXCEPT !.prompt = @ + seen[r].prompt,
                     !.completion = @ + seen[r].completion,
                     !.requests = @ + 1]]
    /\ counted' = [counted EXCEPT ![r] = today]
    /\ UNCHANGED events

\* INSERT ... ON CONFLICT (user_id, day, model) DO UPDATE.  The account of the
\* row is that of the request that inserted it.
BumpUsage(r) ==
    LET k == <<UserOf[r], today, seen[r].model>> IN
    /\ rollup' = [rollup EXCEPT ![k] =
           [account |-> IF @.requests = 0 THEN charged[r] ELSE @.account,
            prompt |-> @.prompt + seen[r].prompt,
            completion |-> @.completion + seen[r].completion,
            requests |-> @.requests + 1]]
    /\ counted' = [counted EXCEPT ![r] = today]
    /\ UNCHANGED events

\* KafkaSink swallows errors, NullSink and a sink not started publish nothing.
EmitUsage(r, ok) ==
    /\ Go(r, {"usage"}, "prompt")
    /\ IF ok THEN Publish(r) ELSE UNCHANGED recordVars
    /\ UNCHANGED <<answerVars, interrupted, today>>

\* Mutant: a failure of Kafka reaches the except of _emit_usage.
PromptRaises(r) ==
    /\ \/ Go(r, {"prompt"}, IF seen[r].model = NoModel THEN "close" ELSE "bump")
       \/ Go(r, {"prompt"}, "close")
    /\ UNCHANGED <<answerVars, recordVars, interrupted, today>>

EmitPrompt(r) ==
    /\ Go(r, {"prompt"}, IF seen[r].model = NoModel THEN "close" ELSE "bump")
    /\ UNCHANGED <<answerVars, recordVars, interrupted, today>>

EmitRollup(r) ==
    /\ Go(r, {"bump"}, "close")
    /\ BumpUsage(r)
    /\ UNCHANGED <<answerVars, interrupted, today>>

\* The call a request waits for had its effect, or did not.
Effect(r) ==
    \/ UNCHANGED recordVars
    \/ phase[r] = "usage" /\ Publish(r)
    \/ phase[r] = "bump" /\ BumpUsage(r)

\* Five seconds are over, the database refuses, or the client has gone.
\* Mutant: the timeout bounds the sink and not the database.
CutOffSink(r) ==
    /\ Go(r, {"usage", "prompt"}, "close")
    /\ Effect(r)
    /\ interrupted' = interrupted \cup {r}
    /\ UNCHANGED <<answerVars, today>>

CutOff(r) ==
    /\ Go(r, Emitting, "close")
    /\ Effect(r)
    /\ interrupted' = interrupted \cup {r}
    /\ UNCHANGED <<answerVars, today>>

\* The finally of gen, or the return of _buffered.
Close(r) ==
    /\ Go(r, {"close"}, "done")
    /\ UNCHANGED <<answerVars, recordVars, interrupted, today>>

\* The process dies, or a call before the emission raises.
Die(r) ==
    /\ Go(r, Opened \cup Emitting, "done")
    /\ Effect(r)
    /\ interrupted' = interrupted \cup {r}
    /\ UNCHANGED <<answerVars, today>>

NextDay ==
    /\ today < MaxDay
    /\ today' = today + 1
    /\ UNCHANGED <<phase, answerVars, recordVars, interrupted>>

----------------------------------------------------------------------------
Step(r) ==
    \/ \E a \in Accounts : Send(r, a) \/ Rebind(r, a)
    \/ Refuse(r)
    \/ \E n \in 0..MaxTokens, F \in Carries :
         \/ \E cut \in BOOLEAN : Observe(r, n, F, cut)
         \/ AnswerBuffered(r, n, F)
    \/ EndStream(r)
    \/ Leave(r)
    \/ \E ok \in BOOLEAN : EmitUsage(r, ok)
    \/ EmitPrompt(r)
    \/ EmitRollup(r)
    \/ CutOff(r)
    \/ Close(r)
    \/ Die(r)

Finished == \A r \in Requests : phase[r] = "done"

Next ==
    \/ \E r \in Requests : Step(r)
    \/ NextDay
    \/ Finished /\ UNCHANGED vars

Spec == Init /\ [][Next]_vars

\* asyncio.wait_for fires; the event loop runs what is ready.  Nothing is
\* assumed of Kafka, of the database or of GitHub.
FairSpec == Spec /\ \A r \in Requests : WF_vars(CutOff(r)) /\ WF_vars(Close(r))

----------------------------------------------------------------------------
Into(r, k) ==           \* r is counted in row k
    counted[r] # 0 /\ k = <<UserOf[r], counted[r], seen[r].model>>

(* The figures of a request are figures GitHub gave for it, and never more *)
(* than it used, whatever lines were lost: "the latest wins".              *)
Honest(r, u) ==
    /\ u.model \in {NoModel, ModelOf[r]}
    /\ u.prompt \in {0, PromptOf[r]}
    /\ u.completion <= spent[r]

(* An event in Kafka charges the account that gave the answer, also after  *)
(* a rebind, and no more than was used.                                    *)
EventsCharge ==
    \A e \in events : e.account = served[e.request] /\ Honest(e.request, e.usage)

(* A row of usage_rollup is charged to an account that answered one of the *)
(* requests counted in it; where there is no row, none was counted.        *)
RowsCharge ==
    \A k \in Keys :
        IF rollup[k].requests = 0
        THEN \A r \in Requests : ~Into(r, k)
        ELSE \E r \in Requests : Into(r, k) /\ served[r] = rollup[k].account

(* "Observability must never break": a request whose answer named a model  *)
(* and that nobody cut short is counted, even if Kafka is down.            *)
NothingForgotten ==
    \A r \in Requests :
        phase[r] = "done" /\ seen[r].model # NoModel /\ r \notin interrupted
            => counted[r] # 0

(* The inductive invariant: what a request carries at each await.          *)
Carried ==
    \A r \in Requests :
        /\ charged[r] = served[r]
        /\ phase[r] # "new" => charged[r] \in Accounts
        /\ Honest(r, seen[r])
        /\ phase[r] \in {"new", "sent", "resent"} => seen[r] = NoUsage
        /\ phase[r] = "bump" => seen[r].model # NoModel
        /\ counted[r] # 0 => phase[r] \in {"close", "done"}
        /\ phase[r] \in {"close", "done"} /\ seen[r].model # NoModel
             /\ r \notin interrupted => counted[r] # 0

Recorded == \A e \in events : phase[e.request] \notin Opened \cup {"new"}

MeteringInv ==
    /\ MeteringTypeOK
    /\ Carried
    /\ Recorded
    /\ EventsCharge
    /\ RowsCharge

(* "... or stall the response": once the answer has ended, the response is *)
(* closed, though Kafka or the database hang for ever.                     *)
ResponseCloses == \A r \in Requests : phase[r] \in Emitting ~> phase[r] = "done"
============================================================================
