------------------------------- MODULE Sizing -------------------------------
(***************************************************************************)
(* sizingd: clusters report complete days of measurements, and the cohort  *)
(* pass (internal/baseline) turns them into verdicts, baselines and a      *)
(* monthly history before the days are pruned.                             *)
(*                                                                         *)
(* Reports arrive between any two steps of a pass.  A step of the pass is  *)
(* what it reads and the transaction it then writes: a report between the  *)
(* two touches nothing that the write does.  Any step can fail, and the    *)
(* process can die and be upgraded.                                        *)
(*                                                                         *)
(* One tick is one UTC day; a day has any number of passes.                *)
(***************************************************************************)
EXTENDS SizingScore

CONSTANTS
  Node,            \* nodes, in the order of their primary key
  SystemOf,        \* SystemOf[n]: the cluster of a node
  Content,         \* measurements that reports carry
  NoHardware,      \* the hardware of a degraded report
  Month(_),        \* the calendar month of a day
  MinDayAge, MaxDayAge,   \* ages of a day that a report may claim
  WindowDays,
  MinDistinctSystems, MinNodes,   \* the floor of a baseline
  RecomputeBatch,
  MonthlyRollupDays,
  Retention,       \* days that daily rows are kept
  MaxOutage,       \* bound: days without a successful rollup
  MaxDay,          \* bound: last day
  MaxReports,      \* bound: node-days reported, first or again
  MaxVersion       \* bound: last PressureVersion

Day == 0 .. MaxDay
NodeDay == Node \X Day
Months == {Month(d) : d \in Day}
Version == 1 .. MaxVersion
Verdicts == {"none", "ok", "at_risk", "undersized", "insufficient_data"}
Kind == {"family", "family_solo"}
Family == UNION {c.families : c \in Content}
CohortKey == Kind \X Family

ASSUME NodesAssumption == Node \subseteq Nat /\ IsFiniteSet(Node)
ASSUME ContentAssumption == \A c \in Content : Measured(c)
ASSUME LimitsAssumption ==
  /\ MinDayAge \in Nat \ {0} /\ MaxDayAge \in Nat /\ MinDayAge <= MaxDayAge
  /\ WindowDays \in Nat /\ RecomputeBatch \in Nat \ {0}
  /\ MinDistinctSystems \in Nat \ {0} /\ MinNodes \in Nat \ {0}
  /\ MonthlyRollupDays \in Nat /\ Retention \in Nat
ASSUME BoundsAssumption ==
  MaxOutage \in Nat \ {0} /\ MaxDay \in Nat \ {0} /\ MaxVersion \in Nat \ {0}
ASSUME MonthAssumption == \A d \in Day : Month(d) \in Nat
\* What the defaults satisfy (15, 45 and 100 days) and nothing in the code
\* checks: a rollup that comes back reaches every day that can still change,
\* and finds all the days of the months it recomputes.
ASSUME HistoryAssumption ==
  /\ MaxDayAge + MaxOutage <= MonthlyRollupDays
  /\ \A d, e \in Day : Month(e) = Month(d) => d - e <= Retention - MonthlyRollupDays

VARIABLES
  today,
  version,     \* PressureVersion of the running binary
  daily,       \* sizing_node_daily: what each node-day stores
  hw,          \* sizing_node: the hardware of each node and its last change
  verdict,     \* sizing_node_verdict
  cohorts,     \* sizing_cohort_baseline: the keys of the baselines published
  monthly,     \* sizing_node_monthly: the days each month counts
  pass,        \* the cohort pass
  rolled,      \* ghost: the day of the last pass whose rollup succeeded
  lost,        \* ghost: node-days stored once and pruned
  reports      \* ghost: node-days reported so far (bounded)

ghosts == <<rolled, lost, reports>>
tables == <<daily, hw, verdict, cohorts, monthly>>
vars == <<today, version, tables, pass, ghosts>>

-----------------------------------------------------------------------------
Row == [content : Content, pressure : {Unscored} \cup 0 .. MaxPressure, version : Version]

Unknown == [hardware |-> NoHardware, known |-> FALSE, changedAt |-> -1]

\* batch: scores computed and not yet written; late: nodes whose hardware
\* changed after the pass began; counted: those that enter the cohorts;
\* families: the workloads of each of them, as the pass read them; published:
\* the cohorts with the updated_at of this pass; month: the next to roll up.
NoPass == [pc |-> "idle", day |-> -1, batch |-> << >>, late |-> {},
           counted |-> {}, families |-> << >>, published |-> {}, month |-> -1]

Init ==
  /\ today = 1
  /\ version = 1
  /\ daily = << >>
  /\ hw = [n \in Node |-> Unknown]
  /\ verdict = [n \in Node |-> "none"]
  /\ cohorts = {}
  /\ monthly = [n \in Node |-> [m \in Months |-> 0]]
  /\ pass = NoPass
  /\ rolled = 0
  /\ lost = {}
  /\ reports = 0

Stored == DOMAIN daily

\* The window of the pass, over what is stored now.
InWindow(x) == x[2] >= pass.day - WindowDays /\ x[2] <= pass.day

Window(n) == {x \in Stored : x[1] = n /\ InWindow(x)}

-----------------------------------------------------------------------------
(* handleReports. *)

\* The node dimension: a report that has no hardware changes nothing but what
\* the next report is compared with.
UpsertNode(n, hardware) ==
  LET changed == hw[n].known /\ hw[n].hardware # hardware /\ hardware # NoHardware
  IN
  /\ hw' = [hw EXCEPT ![n] =
       [hardware |-> hardware, known |-> TRUE,
        changedAt |-> IF changed THEN today ELSE hw[n].changedAt]]
  /\ pass' = IF changed /\ pass.pc \in {"rescore", "judge"}
             THEN [pass EXCEPT !.late = @ \cup {n}] ELSE pass

\* A day that is complete and that Prometheus still had.
Reportable(d) == d <= today - MinDayAge /\ d >= today - MaxDayAge

\* What is stored of a day is replaced, and scored by this binary.
StoreDay(n, d, c) ==
  daily' = [x \in Stored \cup {<<n, d>>} |->
    IF x = <<n, d>>
    THEN [content |-> c, pressure |-> Evaluate(c), version |-> version]
    ELSE daily[x]]

\* A failed transaction (503) is no report; a longer report is several with
\* nothing between them.  (The ingest counters are not modelled.)
Report(n, d, c) ==
  /\ Reportable(d)
  /\ reports < MaxReports
  /\ reports' = reports + 1
  /\ StoreDay(n, d, c)
  /\ UpsertNode(n, c.hardware)
  /\ UNCHANGED <<today, version, verdict, cohorts, monthly, rolled, lost>>

-----------------------------------------------------------------------------
(* The cohort pass: Runner.Run. *)

Stale == {x \in Stored : daily[x].version # version}

\* Mutation of Before: the oldest stale scores first.
OldestFirst(x, y) == x[2] < y[2] \/ (x[2] = y[2] /\ x[1] < y[1])

\* The order of StaleSizingScores: the newest day first.
Before(x, y) == x[2] > y[2] \/ (x[2] = y[2] /\ x[1] < y[1])

StaleBatch == {x \in Stale : Cardinality({y \in Stale : Before(y, x)}) < RecomputeBatch}

\* The pass reads a batch of stale scores and computes them anew.
BeginPass ==
  /\ pass.pc = "idle"
  /\ pass' = [NoPass EXCEPT
       !.pc = IF StaleBatch = {} THEN "judge" ELSE "rescore",
       !.day = today,
       !.batch = [x \in StaleBatch |-> Evaluate(daily[x].content)]]
  /\ UNCHANGED <<today, version, tables, ghosts>>

\* It writes them back, over what was reported meanwhile.
Rescore ==
  /\ pass.pc = "rescore"
  /\ daily' = [x \in Stored |->
       IF x \in DOMAIN pass.batch
       THEN [daily[x] EXCEPT !.pressure = pass.batch[x], !.version = version]
       ELSE daily[x]]
  /\ pass' = [pass EXCEPT !.pc = "judge", !.batch = << >>]
  /\ UNCHANGED <<today, version, hw, verdict, cohorts, monthly, ghosts>>

\* A node whose hardware changed from the start of the window to that of the
\* pass is two machines.
HardwareChanged(n) ==
  /\ hw[n].changedAt \in Day
  /\ hw[n].changedAt >= pass.day - WindowDays
  /\ n \notin pass.late

\* What the window says of a node, given its verdict so far; a node that has
\* left the window keeps it.
Judged(n) ==
  IF Window(n) = {} THEN verdict[n]
  ELSE EvaluateVerdict([x \in Window(n) |-> daily[x].pressure], verdict[n])

\* foldNodes: the nodes whose demand can be measured.
Countable ==
  {n \in Node : /\ ~HardwareChanged(n)
               /\ \E x \in Window(n) : Usable(daily[x].content, daily[x].pressure)}

\* The window is read once, for the verdicts and for the cohorts.
Judge ==
  /\ pass.pc = "judge"
  /\ verdict' = [n \in Node |-> Judged(n)]
  /\ pass' = [pass EXCEPT !.pc = "publish", !.late = {}, !.counted = Countable]
  /\ UNCHANGED <<today, version, daily, hw, cohorts, monthly, ghosts>>

\* Modules are read apart from the window, and later.
Workloads(n) == UNION {daily[x].content.families : x \in Window(n)}

Members(k) == {n \in pass.counted :
  /\ k[2] \in Workloads(n)
  /\ k[1] = "family_solo" => IsSolo(k[2], Workloads(n))}

ClearsFloor(members) ==
  /\ Cardinality({SystemOf[n] : n \in members}) >= MinDistinctSystems
  /\ Cardinality(members) >= MinNodes

\* publishCohorts
Publishable == {k \in CohortKey : ClearsFloor(Members(k))}

PublishCohorts ==
  /\ pass.pc = "publish"
  /\ cohorts' = cohorts \cup Publishable
  /\ pass' = [pass EXCEPT !.pc = "expire", !.published = Publishable,
                          !.families = [n \in pass.counted |-> Workloads(n)]]
  /\ UNCHANGED <<today, version, daily, hw, verdict, monthly, ghosts>>

\* monthRanges: the months that the last MonthlyRollupDays touch.
Touched == {Month(d) : d \in {e \in Day : e \in pass.day - MonthlyRollupDays .. pass.day}}

\* Mutation of DeleteStaleCohorts: a pass that publishes nothing sweeps nothing.
DeleteStaleCohortsIfAny ==
  /\ pass.pc = "expire"
  /\ cohorts' = IF pass.published = {} THEN cohorts ELSE cohorts \cap pass.published
  /\ pass' = [pass EXCEPT !.pc = "rollup", !.published = {}, !.month = Min(Touched)]
  /\ UNCHANGED <<today, version, daily, hw, verdict, monthly, ghosts>>

\* DeleteStaleSizingCohorts: those not published again go.
DeleteStaleCohorts ==
  /\ pass.pc = "expire"
  /\ cohorts' = cohorts \cap pass.published
  /\ pass' = [pass EXCEPT !.pc = "rollup", !.published = {}, !.month = Min(Touched)]
  /\ UNCHANGED <<today, version, daily, hw, verdict, monthly, ghosts>>

\* Mutation of DaysOf: only the days within reach.
DaysWithinReach(n, m) ==
  {x \in Stored : x[1] = n /\ Month(x[2]) = m /\ x[2] >= pass.day - MonthlyRollupDays}

\* The whole month, however little of it is within reach.
DaysOf(n, m) == {x \in Stored : x[1] = n /\ Month(x[2]) = m}

\* One month is recomputed, for the nodes that have days in it.
RollupMonth ==
  LET m == pass.month
      rest == {o \in Touched : o > m}
  IN
  /\ pass.pc = "rollup"
  /\ monthly' = [n \in Node |-> [monthly[n] EXCEPT ![m] =
       IF DaysOf(n, m) = {} THEN @ ELSE Cardinality(DaysOf(n, m))]]
  /\ IF rest = {}
     THEN pass' = [pass EXCEPT !.pc = "prune", !.month = -1] /\ rolled' = pass.day
     ELSE pass' = [pass EXCEPT !.month = Min(rest)] /\ UNCHANGED rolled
  /\ UNCHANGED <<today, version, daily, hw, verdict, cohorts, lost, reports>>

\* PruneSizingDaily
PruneDaily ==
  LET old == {x \in Stored : x[2] < pass.day - Retention}
  IN
  /\ pass.pc = "prune"
  /\ daily' = [x \in Stored \ old |-> daily[x]]
  /\ lost' = lost \cup old
  /\ pass' = NoPass
  /\ UNCHANGED <<today, version, hw, verdict, cohorts, monthly, rolled, reports>>

\* Any step fails: the pass ends there.  A failed rollup is logged, and then
\* nothing is pruned.
StepFails ==
  /\ pass.pc # "idle"
  /\ pass' = NoPass
  /\ UNCHANGED <<today, version, tables, ghosts>>

-----------------------------------------------------------------------------
(* The world. *)

\* A pass is shorter than a day, and rollups do not fail for longer than
\* they reach back.
NextDay ==
  /\ today < MaxDay
  /\ today < rolled + MaxOutage
  /\ pass.pc # "idle" => pass.day = today
  /\ today' = today + 1
  /\ UNCHANGED <<version, tables, pass, ghosts>>

\* sizingd is restarted, perhaps upgraded, in the middle of anything.
Restart ==
  /\ pass' = NoPass
  /\ version' \in {version, version + 1} \cap Version
  /\ UNCHANGED <<today, tables, ghosts>>

Pass ==
  \/ BeginPass
  \/ Rescore
  \/ Judge
  \/ PublishCohorts
  \/ DeleteStaleCohorts
  \/ RollupMonth
  \/ PruneDaily
  \/ StepFails

Next ==
  \/ \E n \in Node, d \in Day, c \in Content : Report(n, d, c)
  \/ Pass
  \/ NextDay
  \/ Restart

Spec == Init /\ [][Next]_vars

-----------------------------------------------------------------------------
(* Properties. *)

\* Types: what is stored is scored from 0 to 100 or not at all, by no later
\* definition than the binary's, and a pruned day does not come back.
TypeOK ==
  /\ today \in Day
  /\ version \in Version
  /\ Stored \subseteq NodeDay
  /\ \A x \in Stored : daily[x] \in Row /\ daily[x].version <= version
  /\ \A n \in Node : hw[n].known => hw[n].changedAt <= today
  /\ verdict \in [Node -> Verdicts]
  /\ cohorts \subseteq CohortKey
  /\ \A n \in Node, m \in Months : monthly[n][m] \in Nat
  /\ pass.day <= today
  /\ lost \cap Stored = {}

\* A day that was pruned is still counted in its month, with all the days
\* that month ever had: the order of rollup and prune, and the reach of the
\* rollup against reports and failures that come late.
MonthlyHistoryKept ==
  \A x \in lost :
    monthly[x[1]][Month(x[2])]
      = Cardinality({y \in Stored \cup lost : y[1] = x[1] /\ Month(y[2]) = Month(x[2])})

\* Once a pass has swept them, each baseline that is served rests on nodes of
\* MinDistinctSystems clusters and on MinNodes nodes that have days in its
\* window and, as this pass read them, ran the family (alone, for a solo
\* baseline): one that an earlier pass published, or that a failed pass left
\* half swept, does not outlive the nodes it was computed from.
CohortsHaveEvidence ==
  pass.pc \in {"rollup", "prune"} =>
    \A k \in cohorts :
      LET behind == {n \in pass.counted :
            /\ Window(n) # {}
            /\ k[2] \in pass.families[n]
            /\ k[1] = "family_solo" => pass.families[n] \ Platform = {k[2]}}
      IN /\ Cardinality({SystemOf[n] : n \in behind}) >= MinDistinctSystems
         /\ Cardinality(behind) >= MinNodes

\* A pass judges by a score of another definition only where RecomputeBatch
\* node-days that are no older have the current one, whatever was reported, restated or
\* upgraded since: a change of PressureVersion reaches the newest days first.
NewestScoredFirst ==
  pass.pc = "judge" =>
    \A x \in Stale :
      Cardinality({y \in Stored \ Stale : y[2] >= x[2]}) >= RecomputeBatch

\* What Runner.Run says of its order, step 1 before step 4: no pass judges by
\* scores of two definitions.  It is so when the window fits a batch, and not
\* when it is larger.
WindowOfOneDefinition ==
  pass.pc = "judge" =>
    \A x \in Stored : InWindow(x) => daily[x].version = version
=============================================================================
