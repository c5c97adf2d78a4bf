---------------------------- MODULE UsageReports ----------------------------
(***************************************************************************)
(* The usage pages of the console over what Metering writes: the four      *)
(* SUM ... GROUP BY of db/repo.py and the window of admin/api.py.          *)
(***************************************************************************)
EXTENDS Metering, Integers, FiniteSets

CONSTANTS
    WindowDays,     \* _DEFAULT_WINDOW_DAYS
    NoDate          \* from or to left out

ASSUME WindowAssumption == WindowDays \in Nat \ {0} /\ NoDate \notin Int

Dates == Days \cup {NoDate}

Window(from, to) ==
    LET last == IF to = NoDate THEN today ELSE to
    IN  (IF from = NoDate THEN last - (WindowDays - 1) ELSE from)..last

\* SUM: of each x as many units as f[x] says.
Units(f) == UNION {{x} \X (1..f[x]) : x \in DOMAIN f}
Sum(f) == Cardinality(Units(f))

\* The sums of the rows K: requests and tokens.
Report(K) ==
    [requests |-> Sum([k \in K |-> rollup[k].requests]),
     prompt |-> Sum([k \in K |-> rollup[k].prompt]),
     completion |-> Sum([k \in K |-> rollup[k].completion])]

InWindow(from, to) == {k \in Keys : k[2] \in Window(from, to)}
Timeseries(from, to) == [d \in Window(from, to) \cap Days |->
                            Report({k \in InWindow(from, to) : k[2] = d})]
ByUser(from, to) == [u \in Users |-> Report({k \in InWindow(from, to) : k[1] = u})]
ByModel(from, to) == [m \in Models |-> Report({k \in InWindow(from, to) : k[3] = m})]
ByAccount(from, to) == [a \in Accounts |->
                          Report({k \in InWindow(from, to) : rollup[k].account = a})]

----------------------------------------------------------------------------
Wanted(d, from, to) ==
    LET last == IF to = NoDate THEN today ELSE to
    IN  /\ d <= last
        /\ IF from = NoDate THEN last - d < WindowDays ELSE d >= from

CountedIn(from, to) ==
    {r \in Requests : counted[r] # 0 /\ Wanted(counted[r], from, to)}

Used(S) ==              \* what the requests S reported when they were counted
    [requests |-> Cardinality(S),
     prompt |-> Sum([r \in S |-> seen[r].prompt]),
     completion |-> Sum([r \in S |-> seen[r].completion])]

(* Over every window, the reports by day, user and model count each        *)
(* counted request once and with its own figures, however the upserts of   *)
(* concurrent requests fall; the default window is the last WindowDays.    *)
ReportsAddUp ==
    \A from, to \in Dates :
        LET C == CountedIn(from, to) IN
        /\ \A u \in Users : ByUser(from, to)[u] = Used({r \in C : UserOf[r] = u})
        /\ \A m \in Models : ByModel(from, to)[m] = Used({r \in C : seen[r].model = m})
        /\ \A d \in Window(from, to) \cap Days :
               Timeseries(from, to)[d] = Used({r \in C : counted[r] = d})

(* The report by account: a row keeps the account of its first request, so *)
(* tokens go to the wrong account when a user moves within a day.  For an  *)
(* account that no such move concerns the report is exact.                 *)
Moved(a) ==
    \E r, q \in Requests :
        /\ counted[r] # 0 /\ counted[r] = counted[q]
        /\ UserOf[r] = UserOf[q] /\ seen[r].model = seen[q].model
        /\ served[r] = a /\ served[q] # a

AccountsExactUnlessMoved ==
    \A from, to \in Dates, a \in Accounts :
        ~Moved(a) => ByAccount(from, to)[a] =
                         Used({r \in CountedIn(from, to) : served[r] = a})

\* What the two rest on: any rows hold the figures of the requests counted in
\* them, and so far there are finitely many of each.
CountedRequests == {r \in Requests : counted[r] # 0}
InRows(K) == {r \in Requests : \E k \in K : Into(r, k)}
Named == \A r \in CountedRequests : seen[r].model # NoModel
Finite ==
    /\ IsFiniteSet(CountedRequests)
    /\ IsFiniteSet(Units([r \in CountedRequests |-> seen[r].prompt]))
    /\ IsFiniteSet(Units([r \in CountedRequests |-> seen[r].completion]))
    /\ IsFiniteSet(Units([k \in Keys |-> rollup[k].requests]))
    /\ IsFiniteSet(Units([k \in Keys |-> rollup[k].prompt]))
    /\ IsFiniteSet(Units([k \in Keys |-> rollup[k].completion]))
RowsHoldRequests == \A K \in SUBSET Keys : Report(K) = Used(InRows(K))

ReportInv ==
    /\ Named
    /\ Finite
    /\ RowsHoldRequests
============================================================================
