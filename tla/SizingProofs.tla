---------------------------- MODULE SizingProofs ----------------------------
(***************************************************************************)
(* Proofs about Sizing for any fleet, window, retention and reach of the   *)
(* rollup that the assumptions allow: what a pass judges by, what the      *)
(* published baselines rest on, that pruning never costs the monthly       *)
(* history a day, and what the score of a day and the verdict of a window  *)
(* are worth whatever was measured.                                        *)
(***************************************************************************)
EXTENDS Sizing, Extremes

-----------------------------------------------------------------------------
(* Shapes and times. *)

Shaped ==
  /\ pass = [pc |-> pass.pc, day |-> pass.day, batch |-> pass.batch, late |-> pass.late,
             counted |-> pass.counted, families |-> pass.families,
             published |-> pass.published, month |-> pass.month]
  /\ pass.pc \in {"idle", "rescore", "judge", "publish", "expire", "rollup", "prune"}

Rows ==
  /\ Stored \subseteq NodeDay
  /\ \A x \in Stored : daily[x] = [content |-> daily[x].content,
       pressure |-> daily[x].pressure, version |-> daily[x].version]

\* Where the days that are stored, that a pass looks at and that were pruned
\* stand to today.
Times ==
  /\ today \in Day
  /\ rolled \in Nat /\ rolled <= today /\ today <= rolled + MaxOutage
  /\ \A x \in Stored : x[2] < today
  /\ lost \subseteq NodeDay
  /\ \A x \in lost : x[2] < rolled - Retention
  /\ pass.pc # "idle" =>
       pass.day \in Day /\ rolled <= pass.day /\ pass.day <= today /\ today <= pass.day + 1
  /\ pass.pc = "prune" => rolled = pass.day

Base == Shaped /\ Rows /\ Times

LEMMA BaseInit == Init => Base
<1> SUFFICES ASSUME Init PROVE Base
  OBVIOUS
<1>1. Stored = {}
  BY DEF Init, Stored
<1> QED
  BY <1>1, BoundsAssumption DEF Init, Base, Shaped, Rows, Times, NoPass, Day

\* What a report changes of the pass and of what is stored.
LEMMA ReportEffect ==
  ASSUME Base, NEW n \in Node, NEW d \in Day, NEW c \in Content, Report(n, d, c)
  PROVE  /\ Stored' = Stored \cup {<<n, d>>}
         /\ daily'[<<n, d>>].version = version
         /\ \A x \in Stored \ {<<n, d>>} : daily'[x] = daily[x]
         /\ pass'.pc = pass.pc /\ pass'.day = pass.day /\ pass'.batch = pass.batch
         /\ pass'.counted = pass.counted /\ pass'.families = pass.families
         /\ pass'.published = pass.published /\ pass'.month = pass.month
         /\ Shaped' /\ Rows'
<1>1. /\ Stored' = Stored \cup {<<n, d>>}
      /\ daily'[<<n, d>>] = [content |-> c, pressure |-> Evaluate(c), version |-> version]
      /\ \A x \in Stored \ {<<n, d>>} : daily'[x] = daily[x]
  BY DEF Report, StoreDay, Stored
<1>2. \/ pass' = pass
      \/ pass' = [pass EXCEPT !.late = @ \cup {n}]
  BY DEF Report, UpsertNode
<1>3. /\ pass'.pc = pass.pc /\ pass'.day = pass.day /\ pass'.batch = pass.batch
      /\ pass'.counted = pass.counted /\ pass'.families = pass.families
      /\ pass'.published = pass.published /\ pass'.month = pass.month
      /\ Shaped'
  BY <1>2 DEF Base, Shaped
<1>4. Rows'
  BY <1>1 DEF Base, Rows, NodeDay
<1> QED
  BY <1>1, <1>3, <1>4

\* What each step of a pass makes of it.
LEMMA PassEffect ==
  ASSUME Base
  PROVE  /\ BeginPass => /\ pass'.pc = IF StaleBatch = {} THEN "judge" ELSE "rescore"
                         /\ pass'.day = today /\ DOMAIN pass'.batch = StaleBatch
                         /\ pass'.counted = {} /\ Shaped'
         /\ Rescore => /\ pass'.pc = "judge" /\ pass'.day = pass.day
                       /\ pass'.batch = << >> /\ pass'.counted = pass.counted /\ Shaped'
         /\ Judge => /\ pass'.pc = "publish" /\ pass'.day = pass.day
                     /\ pass'.counted = Countable /\ Shaped'
         /\ PublishCohorts => /\ pass'.pc = "expire" /\ pass'.day = pass.day
                              /\ pass'.counted = pass.counted
                              /\ pass'.families = [n \in pass.counted |-> Workloads(n)]
                              /\ pass'.published = Publishable /\ Shaped'
         /\ DeleteStaleCohorts => /\ pass'.pc = "rollup" /\ pass'.day = pass.day
                                  /\ pass'.counted = pass.counted
                                  /\ pass'.families = pass.families
                                  /\ pass'.month = Min(Touched) /\ Shaped'
         /\ RollupMonth =>
              LET rest == {o \in Touched : o > pass.month}
              IN /\ pass'.pc = IF rest = {} THEN "prune" ELSE "rollup"
                 /\ pass'.day = pass.day
                 /\ pass'.counted = pass.counted /\ pass'.families = pass.families
                 /\ rest # {} => pass'.month = Min(rest)
                 /\ rolled' = IF rest = {} THEN pass.day ELSE rolled
                 /\ Shaped'
         /\ pass' = NoPass => pass'.pc = "idle" /\ pass'.counted = {} /\ Shaped'
<1>1. ASSUME BeginPass
      PROVE  /\ pass'.pc = IF StaleBatch = {} THEN "judge" ELSE "rescore"
             /\ pass'.day = today /\ DOMAIN pass'.batch = StaleBatch
             /\ pass'.counted = {} /\ Shaped'
  <2> DEFINE first == IF StaleBatch = {} THEN "judge" ELSE "rescore"
             scores == [x \in StaleBatch |-> Evaluate(daily[x].content)]
  <2>1. pass' = [NoPass EXCEPT !.pc = first, !.day = today, !.batch = scores]
    BY <1>1 DEF BeginPass
  <2>2. first \in {"judge", "rescore"} /\ DOMAIN scores = StaleBatch
    OBVIOUS
  <2>3. /\ pass'.pc = first /\ pass'.day = today /\ pass'.batch = scores
        /\ pass'.counted = {} /\ Shaped'
    <3> HIDE DEF first, scores
    <3> QED
      BY <2>1, <2>2 DEF NoPass, Shaped
  <2> QED
    BY <2>2, <2>3
<1>2. ASSUME Rescore
      PROVE  /\ pass'.pc = "judge" /\ pass'.day = pass.day
             /\ pass'.batch = << >> /\ pass'.counted = pass.counted /\ Shaped'
  <2>1. pass' = [pass EXCEPT !.pc = "judge", !.batch = << >>]
    BY <1>2 DEF Rescore
  <2> QED
    BY <2>1 DEF Base, Shaped
<1>3. ASSUME Judge
      PROVE  /\ pass'.pc = "publish" /\ pass'.day = pass.day
             /\ pass'.counted = Countable /\ Shaped'
  <2> DEFINE members == Countable
  <2>1. pass' = [pass EXCEPT !.pc = "publish", !.late = {}, !.counted = members]
    BY <1>3 DEF Judge
  <2>2. /\ pass'.pc = "publish" /\ pass'.day = pass.day
        /\ pass'.counted = members /\ Shaped'
    <3> HIDE DEF members
    <3> QED
      BY <2>1 DEF Base, Shaped
  <2> QED
    BY <2>2
<1>4. ASSUME PublishCohorts
      PROVE  /\ pass'.pc = "expire" /\ pass'.day = pass.day
             /\ pass'.counted = pass.counted
             /\ pass'.families = [n \in pass.counted |-> Workloads(n)]
             /\ pass'.published = Publishable /\ Shaped'
  <2> DEFINE keys == Publishable
             read == [n \in pass.counted |-> Workloads(n)]
  <2>1. pass' = [pass EXCEPT !.pc = "expire", !.published = keys, !.families = read]
    BY <1>4 DEF PublishCohorts
  <2>2. /\ pass'.pc = "expire" /\ pass'.day = pass.day
        /\ pass'.counted = pass.counted /\ pass'.families = read
        /\ pass'.published = keys /\ Shaped'
    <3> HIDE DEF keys, read
    <3> QED
      BY <2>1 DEF Base, Shaped
  <2> QED
    BY <2>2
<1>5. ASSUME DeleteStaleCohorts
      PROVE  /\ pass'.pc = "rollup" /\ pass'.day = pass.day
             /\ pass'.counted = pass.counted /\ pass'.families = pass.families
             /\ pass'.month = Min(Touched) /\ Shaped'
  <2> DEFINE first == Min(Touched)
  <2>1. pass' = [pass EXCEPT !.pc = "rollup", !.published = {}, !.month = first]
    BY <1>5 DEF DeleteStaleCohorts
  <2>2. /\ pass'.pc = "rollup" /\ pass'.day = pass.day
        /\ pass'.counted = pass.counted /\ pass'.families = pass.families
        /\ pass'.month = first /\ Shaped'
    <3> HIDE DEF first
    <3> QED
      BY <2>1 DEF Base, Shaped
  <2> QED
    BY <2>2
<1>6. ASSUME RollupMonth
      PROVE  LET rest == {o \in Touched : o > pass.month}
             IN /\ pass'.pc = IF rest = {} THEN "prune" ELSE "rollup"
                /\ pass'.day = pass.day
                /\ pass'.counted = pass.counted /\ pass'.families = pass.families
                /\ rest # {} => pass'.month = Min(rest)
                /\ rolled' = IF rest = {} THEN pass.day ELSE rolled
                /\ Shaped'
  <2> DEFINE rest == {o \in Touched : o > pass.month}
             next == Min(rest)
  <2>1. /\ pass.pc = "rollup"
        /\ IF rest = {}
           THEN pass' = [pass EXCEPT !.pc = "prune", !.month = -1] /\ rolled' = pass.day
           ELSE pass' = [pass EXCEPT !.month = next] /\ rolled' = rolled
    BY <1>6 DEF RollupMonth
  <2>2. /\ pass'.pc = IF rest = {} THEN "prune" ELSE "rollup"
        /\ pass'.day = pass.day
        /\ pass'.counted = pass.counted /\ pass'.families = pass.families
        /\ rest # {} => pass'.month = next
        /\ rolled' = IF rest = {} THEN pass.day ELSE rolled
        /\ Shaped'
    <3> HIDE DEF next, rest
    <3> QED
      BY <2>1 DEF Base, Shaped
  <2> QED
    BY <2>2
<1>7. ASSUME pass' = NoPass PROVE pass'.pc = "idle" /\ pass'.counted = {} /\ Shaped'
  BY <1>7 DEF NoPass, Shaped
<1> QED
  BY <1>1, <1>2, <1>3, <1>4, <1>5, <1>6, <1>7

\* The steps that leave the stored days alone.
LEMMA RescoreEffect ==
  ASSUME Base, Rescore
  PROVE  /\ Stored' = Stored /\ Rows'
         /\ \A x \in Stored : daily'[x].version =
              IF x \in DOMAIN pass.batch THEN version ELSE daily[x].version
<1>1. daily' = [x \in Stored |->
        IF x \in DOMAIN pass.batch
        THEN [daily[x] EXCEPT !.pressure = pass.batch[x], !.version = version]
        ELSE daily[x]]
  BY DEF Rescore
<1>2. Stored' = Stored
  BY <1>1 DEF Stored
<1>3. ASSUME NEW x \in Stored
      PROVE  /\ daily'[x] = [content |-> daily'[x].content,
                  pressure |-> daily'[x].pressure, version |-> daily'[x].version]
             /\ daily'[x].version =
                  IF x \in DOMAIN pass.batch THEN version ELSE daily[x].version
  <2>1. daily[x] = [content |-> daily[x].content,
                    pressure |-> daily[x].pressure, version |-> daily[x].version]
    BY DEF Base, Rows
  <2>2. CASE x \in DOMAIN pass.batch
    <3> DEFINE score == pass.batch[x]
               old == daily[x]
    <3>1. daily'[x] = [old EXCEPT !.pressure = score, !.version = version]
      BY <1>1, <2>2
    <3>2. old = [content |-> old.content, pressure |-> old.pressure, version |-> old.version]
      BY <2>1
    <3>3. daily'[x] = [content |-> old.content, pressure |-> score, version |-> version]
      <4> HIDE DEF score, old
      <4> QED
        BY <3>1, <3>2
    <3> QED
      BY <2>2, <3>3
  <2>3. CASE x \notin DOMAIN pass.batch
    BY <1>1, <2>1, <2>3
  <2> QED
    BY <2>2, <2>3
<1> QED
  BY <1>2, <1>3 DEF Base, Rows

\* What is pruned moves from the rows to the days lost.
LEMMA PruneEffect ==
  ASSUME Base, PruneDaily
  PROVE  /\ Stored' = {x \in Stored : x[2] >= rolled - Retention}
         /\ lost' = lost \cup {x \in Stored : x[2] < rolled - Retention}
         /\ Rows'
<1>1. rolled = pass.day /\ rolled - Retention \in Int
  BY LimitsAssumption DEF Base, Times, PruneDaily
<1>2. \A x \in Stored : x[2] \in Int
  BY DEF Base, Rows, NodeDay, Day
<1>3. /\ Stored' = Stored \ {x \in Stored : x[2] < rolled - Retention}
      /\ \A x \in Stored' : daily'[x] = daily[x]
      /\ lost' = lost \cup {x \in Stored : x[2] < rolled - Retention}
  BY <1>1 DEF PruneDaily, Stored
<1> QED
  BY <1>1, <1>2, <1>3 DEF Base, Rows

LEMMA BaseStep == Base /\ [Next]_vars => Base'
<1> SUFFICES ASSUME Base, [Next]_vars PROVE Base'
  OBVIOUS
<1>0. /\ MaxOutage \in Nat /\ Retention \in Nat /\ MinDayAge \in Nat \ {0}
      /\ \A x \in Stored : x[2] \in Int
      /\ \A x \in lost : x[2] \in Int
  BY LimitsAssumption, BoundsAssumption DEF Base, Rows, Times, NodeDay, Day
<1>1. CASE \E n \in Node, d \in Day, c \in Content : Report(n, d, c)
  <2> PICK n \in Node, d \in Day, c \in Content : Report(n, d, c)
    BY <1>1
  <2>1. /\ Stored' = Stored \cup {<<n, d>>}
        /\ pass'.pc = pass.pc /\ pass'.day = pass.day
        /\ Shaped' /\ Rows'
    BY ReportEffect
  <2>2. today' = today /\ rolled' = rolled /\ lost' = lost /\ d < today
    BY <1>0 DEF Report, Reportable, Base, Times, Day
  <2>3. Times'
    BY <2>1, <2>2 DEF Base, Times
  <2> QED
    BY <2>1, <2>3 DEF Base
<1>2. CASE BeginPass
  <2>1. /\ pass'.pc \in {"judge", "rescore"} /\ pass'.day = today /\ Shaped'
        /\ today' = today /\ daily' = daily /\ rolled' = rolled /\ lost' = lost
    BY <1>2, PassEffect DEF BeginPass, tables, ghosts
  <2> QED
    BY <2>1 DEF Base, Rows, Times, Stored, Day
<1>3. CASE Rescore
  <2>1. /\ pass'.pc = "judge" /\ pass'.day = pass.day /\ Shaped' /\ pass.pc # "idle"
        /\ today' = today /\ rolled' = rolled /\ lost' = lost
    BY <1>3, PassEffect DEF Rescore, ghosts
  <2> QED
    BY <1>3, <2>1, RescoreEffect DEF Base, Times
<1>4. CASE Judge
  <2>1. /\ pass'.pc = "publish" /\ pass'.day = pass.day /\ Shaped' /\ pass.pc # "idle"
        /\ today' = today /\ daily' = daily /\ rolled' = rolled /\ lost' = lost
    BY <1>4, PassEffect DEF Judge, ghosts
  <2> QED
    BY <2>1 DEF Base, Rows, Times, Stored
<1>5. CASE PublishCohorts
  <2>1. /\ pass'.pc = "expire" /\ pass'.day = pass.day /\ Shaped' /\ pass.pc # "idle"
        /\ today' = today /\ daily' = daily /\ rolled' = rolled /\ lost' = lost
    BY <1>5, PassEffect DEF PublishCohorts, ghosts
  <2> QED
    BY <2>1 DEF Base, Rows, Times, Stored
<1>6. CASE DeleteStaleCohorts
  <2>1. /\ pass'.pc = "rollup" /\ pass'.day = pass.day /\ Shaped' /\ pass.pc # "idle"
        /\ today' = today /\ daily' = daily /\ rolled' = rolled /\ lost' = lost
    BY <1>6, PassEffect DEF DeleteStaleCohorts, ghosts
  <2> QED
    BY <2>1 DEF Base, Rows, Times, Stored
<1>7. CASE RollupMonth
  <2>1. /\ pass.pc = "rollup" /\ pass'.day = pass.day /\ Shaped'
        /\ \/ pass'.pc = "rollup" /\ rolled' = rolled
           \/ pass'.pc = "prune" /\ rolled' = pass.day
        /\ today' = today /\ daily' = daily /\ lost' = lost
    BY <1>7, PassEffect DEF RollupMonth
  <2>2. /\ today' \in Day /\ rolled' \in Nat /\ rolled' <= today'
        /\ today' <= rolled' + MaxOutage /\ rolled' <= pass'.day /\ rolled' >= rolled
    BY <1>0, <2>1, BoundsAssumption DEF Base, Times, Day
  <2>3. \A x \in lost' : x[2] < rolled' - Retention
    BY <1>0, <2>1, <2>2 DEF Base, Times, Day
  <2>4. /\ \A x \in Stored' : x[2] < today'
        /\ lost' \subseteq NodeDay /\ Rows'
    BY <2>1 DEF Base, Rows, Times, Stored
  <2>5. Times'
    BY <2>1, <2>2, <2>3, <2>4 DEF Base, Times
  <2> QED
    BY <2>1, <2>4, <2>5 DEF Base
<1>8. CASE PruneDaily
  <2>1. /\ pass'.pc = "idle" /\ Shaped' /\ today' = today /\ rolled' = rolled
    BY <1>8, PassEffect DEF PruneDaily
  <2>2. /\ Stored' \subseteq Stored /\ Rows'
        /\ lost' \subseteq lost \cup Stored
        /\ \A x \in lost' : x[2] < rolled - Retention
    BY <1>8, PruneEffect DEF Base, Times
  <2>3. Times'
    BY <2>1, <2>2 DEF Base, Rows, Times
  <2> QED
    BY <2>1, <2>2, <2>3 DEF Base
<1>9. CASE StepFails \/ Restart
  <2>1. /\ pass'.pc = "idle" /\ Shaped' /\ today' = today /\ daily' = daily
        /\ rolled' = rolled /\ lost' = lost
    BY <1>9, PassEffect DEF StepFails, Restart, tables, ghosts
  <2> QED
    BY <2>1 DEF Base, Rows, Times, Stored
<1>10. CASE NextDay
  <2>1. /\ today' = today + 1 /\ today < MaxDay /\ today < rolled + MaxOutage
        /\ pass.pc # "idle" => pass.day = today
        /\ pass' = pass /\ daily' = daily /\ rolled' = rolled /\ lost' = lost
    BY <1>10 DEF NextDay, tables, ghosts
  <2>2. Shaped' /\ Rows'
    BY <2>1 DEF Base, Shaped, Rows, Stored
  <2>3. /\ today' \in Day /\ rolled' <= today' /\ today' <= rolled' + MaxOutage
        /\ \A x \in Stored' : x[2] < today'
    BY <1>0, <2>1, BoundsAssumption DEF Base, Times, Day, Stored
  <2>4. pass'.pc # "idle" =>
          /\ pass'.day \in Day /\ rolled' <= pass'.day
          /\ pass'.day <= today' /\ today' <= pass'.day + 1
    BY <2>1 DEF Base, Times, Day
  <2>5. Times'
    BY <2>1, <2>3, <2>4 DEF Base, Times
  <2> QED
    BY <2>2, <2>5 DEF Base
<1>11. CASE UNCHANGED vars
  BY <1>11 DEF vars, tables, ghosts, Base, Shaped, Rows, Times, Stored
<1> QED
  BY <1>1, <1>2, <1>3, <1>4, <1>5, <1>6, <1>7, <1>8, <1>9, <1>10, <1>11 DEF Next, Pass

LEMMA BaseHolds == Spec => []Base
<1> QED
  BY BaseInit, BaseStep, PTL DEF Spec

-----------------------------------------------------------------------------
(* What a pass judges by. *)

LEMMA NodeDaysFinite == IsFiniteSet(NodeDay)
<1>1. IsFiniteSet(Node) /\ IsFiniteSet(Day)
  BY NodesAssumption, BoundsAssumption, FS_Interval DEF Day
<1> QED
  BY <1>1, FS_Product DEF NodeDay

\* A nonempty set of naturals has a least element, and Min finds it.
LEMMA MinOfNaturals ==
  ASSUME NEW times \in SUBSET Nat, times # {}
  PROVE  Min(times) \in times /\ \A u \in times : Min(times) <= u
<1>1. PICK s \in times : TRUE
  OBVIOUS
<1> DEFINE gaps == {s - u : u \in {v \in times : v <= s}}
<1>2. gaps \in SUBSET (0..s) /\ gaps # {}
  <2>1. s \in Nat /\ s \in {v \in times : v <= s}
    BY <1>1
  <2>2. s - s \in gaps
    BY <2>1
  <2>3. ASSUME NEW u \in times, u <= s PROVE s - u \in 0..s
    <3>1. u \in Nat
      OBVIOUS
    <3> QED
      BY <2>1, <2>3, <3>1
  <2> QED
    BY <2>2, <2>3
<1>3. PICK g \in gaps : \A h \in gaps : h <= g
  <2> HIDE DEF gaps
  <2> QED
    BY <1>1, <1>2, LargestExists
<1>4. PICK t \in times : t <= s /\ g = s - t
  BY <1>3
<1>5. \A u \in times : t <= u
  <2> SUFFICES ASSUME NEW u \in times, u < t PROVE FALSE
    BY <1>1, <1>4
  <2>1. s - u \in gaps /\ s - u > g
    BY <1>1, <1>4
  <2> QED
    BY <1>1, <1>3, <1>4, <2>1
<1> QED
  BY <1>4, <1>5 DEF Min

\* The stale scores that come before one.
Preceding(x) == {y \in Stale : Before(y, x)}

LEMMA StaleDays ==
  ASSUME Base
  PROVE  /\ Stale \subseteq NodeDay /\ IsFiniteSet(Stored)
         /\ \A x \in Stored : x[1] \in Int /\ x[2] \in Int
<1>1. Stale \subseteq Stored /\ Stored \subseteq NodeDay
  BY DEF Stale, Base, Rows
<1>2. \A d \in Day : d \in Int
  BY BoundsAssumption DEF Day
<1>3. \A n \in Node : n \in Int
  BY NodesAssumption
<1>4. \A x \in NodeDay : x[1] \in Int /\ x[2] \in Int
  BY <1>2, <1>3 DEF NodeDay
<1> QED
  BY <1>1, <1>4, NodeDaysFinite, FS_Subset

\* What precedes a stale score has fewer before it.
LEMMA FewerPrecede ==
  ASSUME Base, NEW x \in Stale, NEW y \in Preceding(x)
  PROVE  /\ Cardinality(Preceding(y)) \in Nat /\ Cardinality(Preceding(x)) \in Nat
         /\ Cardinality(Preceding(y)) < Cardinality(Preceding(x))
<1>1. Preceding(x) \subseteq Stored /\ y \in Stored /\ x \in Stored
  BY DEF Preceding, Stale
<1>2. IsFiniteSet(Preceding(x))
  BY <1>1, StaleDays, FS_Subset
<1>3. Preceding(y) \subseteq Preceding(x) \ {y}
  <2> SUFFICES ASSUME NEW z \in Stale, Before(z, y) PROVE Before(z, x) /\ z # y
    BY DEF Preceding
  <2>1. z \in Stored /\ Before(y, x)
    BY DEF Stale, Preceding
  <2>2. /\ x[1] \in Int /\ x[2] \in Int /\ y[1] \in Int /\ y[2] \in Int
        /\ z[1] \in Int /\ z[2] \in Int
    BY <1>1, <2>1, StaleDays
  <2> QED
    BY <2>1, <2>2 DEF Before
<1>4. /\ IsFiniteSet(Preceding(x) \ {y})
      /\ Cardinality(Preceding(x) \ {y}) = Cardinality(Preceding(x)) - 1
  BY <1>2, FS_RemoveElement
<1>5. Preceding(y) \in SUBSET (Preceding(x) \ {y})
  BY <1>3
<1>6. IsFiniteSet(Preceding(y)) /\ Cardinality(Preceding(y)) <= Cardinality(Preceding(x) \ {y})
  BY <1>4, <1>5, FS_Subset
<1>7. Cardinality(Preceding(y)) \in Nat /\ Cardinality(Preceding(x)) \in Nat
  BY <1>2, <1>6, FS_CardinalityType
<1> QED
  BY <1>4, <1>6, <1>7

\* A stale score that does not fit the batch leaves RecomputeBatch in it that
\* are no older: those before the first that does not fit.
LEMMA BatchIsNewest ==
  ASSUME Base, NEW x \in Stale \ StaleBatch
  PROVE  Cardinality({y \in StaleBatch : y[2] >= x[2]}) >= RecomputeBatch
<1> DEFINE newest == {y \in StaleBatch : y[2] >= x[2]}
           outside == {y \in Stale \ StaleBatch : y[2] >= x[2]}
           ranks == {Cardinality(Preceding(y)) : y \in outside}
<1>1. /\ Stale \subseteq Stored /\ StaleBatch \subseteq Stale
      /\ \A y \in Stale : y[1] \in Int /\ y[2] \in Int
  BY StaleDays DEF Stale, StaleBatch
<1>2. \A y \in Stale : Cardinality(Preceding(y)) \in Nat
  <2> SUFFICES ASSUME NEW y \in Stale PROVE Cardinality(Preceding(y)) \in Nat
    OBVIOUS
  <2>1. Preceding(y) \in SUBSET Stored
    BY DEF Preceding, Stale
  <2> QED
    BY <2>1, StaleDays, FS_Subset, FS_CardinalityType
<1>3. ranks \in SUBSET Nat /\ ranks # {}
  <2>1. x \in outside
    BY <1>1
  <2>2. Cardinality(Preceding(x)) \in ranks
    BY <2>1
  <2> QED
    BY <1>2, <2>2
<1>4. PICK z \in outside : \A y \in outside : Cardinality(Preceding(z)) <= Cardinality(Preceding(y))
  <2>1. Min(ranks) \in ranks /\ \A u \in ranks : Min(ranks) <= u
    <3> HIDE DEF ranks
    <3> QED
      BY <1>3, MinOfNaturals
  <2> QED
    BY <2>1
<1>5. Preceding(z) \subseteq newest
  <2> SUFFICES ASSUME NEW y \in Preceding(z) PROVE y \in StaleBatch /\ y[2] >= x[2]
    OBVIOUS
  <2>1. y \in Stale /\ Before(y, z) /\ z \in Stale /\ z[2] >= x[2]
    BY DEF Preceding
  <2>2. y[2] >= x[2]
    BY <1>1, <2>1 DEF Before
  <2>3. Cardinality(Preceding(y)) < Cardinality(Preceding(z))
    BY <2>1, FewerPrecede
  <2>4. y \notin outside
    <3>1. Cardinality(Preceding(y)) \in Nat /\ Cardinality(Preceding(z)) \in Nat
      BY <1>2, <2>1
    <3> QED
      BY <1>4, <2>3, <3>1
  <2> QED
    BY <2>1, <2>2, <2>4
<1>6. IsFiniteSet(newest)
  <2>1. newest \in SUBSET Stored
    BY <1>1
  <2> QED
    BY <2>1, StaleDays, FS_Subset
<1>7. /\ Cardinality(Preceding(z)) <= Cardinality(newest)
      /\ Cardinality(Preceding(z)) \in Nat /\ Cardinality(newest) \in Nat
  <2>1. Preceding(z) \in SUBSET newest
    BY <1>5
  <2> HIDE DEF newest
  <2> QED
    BY <1>6, <2>1, FS_Subset, FS_CardinalityType
<1>8. ~(Cardinality(Preceding(z)) < RecomputeBatch)
  BY DEF StaleBatch, Preceding
<1> QED
  BY <1>7, <1>8, LimitsAssumption

\* What is no older than x and has the current definition, or is about to.
Ahead(x) ==
  {y \in Stored : y[2] >= x[2] /\ (y \notin Stale \/ y \in DOMAIN pass.batch)}

\* The inductive form of NewestScoredFirst: until it is written, the batch
\* counts as scored.
NewestFirst ==
  /\ pass.pc \in {"rescore", "judge"} =>
       \A x \in Stale \ DOMAIN pass.batch : Cardinality(Ahead(x)) >= RecomputeBatch
  /\ pass.pc = "judge" => DOMAIN pass.batch = {}

LEMMA NewestFirstInit == Init => NewestFirst
BY DEF Init, NewestFirst, NoPass

LEMMA MoreAhead ==
  ASSUME Base, Base', NEW x, Cardinality(Ahead(x)) >= RecomputeBatch,
         Ahead(x) \subseteq Ahead(x)'
  PROVE  Cardinality(Ahead(x)') >= RecomputeBatch
<1>1. Ahead(x)' \subseteq NodeDay
  BY DEF Ahead, Base, Rows
<1>2. IsFiniteSet(Ahead(x)')
  BY <1>1, NodeDaysFinite, FS_Subset
<1>3. Ahead(x) \in SUBSET (Ahead(x)')
  OBVIOUS
<1>4. /\ Cardinality(Ahead(x)) \in Nat /\ Cardinality(Ahead(x)') \in Nat
      /\ Cardinality(Ahead(x)) <= Cardinality(Ahead(x)')
  BY <1>2, <1>3, FS_Subset, FS_CardinalityType
<1> QED
  BY <1>4, LimitsAssumption

LEMMA NewestFirstStep == Base /\ NewestFirst /\ [Next]_vars => NewestFirst'
<1> SUFFICES ASSUME Base, NewestFirst, [Next]_vars PROVE NewestFirst'
  OBVIOUS
<1>0. Base'
  BY BaseStep
<1>1. ASSUME NEW n \in Node, NEW d \in Day, NEW c \in Content, Report(n, d, c)
      PROVE  NewestFirst'
  <2>1. /\ Stored' = Stored \cup {<<n, d>>} /\ version' = version
        /\ daily'[<<n, d>>].version = version
        /\ \A x \in Stored \ {<<n, d>>} : daily'[x] = daily[x]
        /\ pass'.pc = pass.pc /\ pass'.batch = pass.batch
    BY <1>1, ReportEffect DEF Report
  <2>2. Stale' = Stale \ {<<n, d>>}
    BY <2>1 DEF Stale
  <2>3. \A x : Ahead(x) \subseteq Ahead(x)'
    BY <2>1, <2>2 DEF Ahead
  <2> QED
    BY <1>0, <2>1, <2>2, <2>3, MoreAhead DEF NewestFirst
<1>2. CASE BeginPass
  <2>1. /\ pass'.pc = IF StaleBatch = {} THEN "judge" ELSE "rescore"
        /\ DOMAIN pass'.batch = StaleBatch /\ Stored' = Stored /\ Stale' = Stale
    BY <1>2, PassEffect DEF BeginPass, tables, Stored, Stale
  <2>2. ASSUME NEW x \in Stale \ StaleBatch
        PROVE  Cardinality(Ahead(x)') >= RecomputeBatch
    <3> DEFINE newest == {y \in StaleBatch : y[2] >= x[2]}
    <3>1. newest \subseteq Ahead(x)'
      BY <2>1 DEF Ahead, StaleBatch, Stale
    <3>2. Ahead(x)' \subseteq NodeDay
      BY <1>0 DEF Ahead, Base, Rows
    <3>3. IsFiniteSet(Ahead(x)') /\ newest \in SUBSET (Ahead(x)')
      BY <3>1, <3>2, NodeDaysFinite, FS_Subset
    <3>4. Cardinality(newest) >= RecomputeBatch
      BY <2>2, BatchIsNewest
    <3> HIDE DEF newest
    <3>5. /\ Cardinality(newest) \in Nat /\ Cardinality(Ahead(x)') \in Nat
          /\ Cardinality(newest) <= Cardinality(Ahead(x)')
      BY <3>3, FS_Subset, FS_CardinalityType
    <3> QED
      BY <3>4, <3>5, LimitsAssumption
  <2> QED
    BY <2>1, <2>2 DEF NewestFirst
<1>3. CASE Rescore
  <2>1. /\ pass'.pc = "judge" /\ pass'.batch = << >> /\ version' = version
        /\ pass.pc = "rescore" /\ Stored' = Stored
        /\ \A x \in Stored : daily'[x].version =
             IF x \in DOMAIN pass.batch THEN version ELSE daily[x].version
    BY <1>3, PassEffect, RescoreEffect DEF Rescore
  <2>2. Stale' = Stale \ DOMAIN pass.batch
    BY <2>1 DEF Stale
  <2>3. \A x : Ahead(x) \subseteq Ahead(x)'
    BY <2>1, <2>2 DEF Ahead
  <2>4. DOMAIN pass'.batch = {}
    BY <2>1
  <2> QED
    BY <1>0, <2>1, <2>2, <2>3, <2>4, MoreAhead DEF NewestFirst
<1>4. CASE pass'.pc \notin {"rescore", "judge"}
  BY <1>4 DEF NewestFirst
<1>5. CASE pass' = pass /\ daily' = daily /\ version' = version
  <2>1. Stored' = Stored /\ Stale' = Stale /\ \A x : Ahead(x)' = Ahead(x)
    BY <1>5 DEF Stored, Stale, Ahead
  <2> QED
    BY <1>5, <2>1 DEF NewestFirst
<1>6. ASSUME \/ Judge \/ PublishCohorts \/ DeleteStaleCohorts \/ RollupMonth
             \/ PruneDaily \/ StepFails \/ Restart
      PROVE  pass'.pc \notin {"rescore", "judge"}
  BY <1>6, PassEffect DEF PruneDaily, StepFails, Restart
<1>7. ASSUME NextDay \/ UNCHANGED vars
      PROVE  pass' = pass /\ daily' = daily /\ version' = version
  BY <1>7 DEF NextDay, vars, tables
<1> QED
  BY <1>1, <1>2, <1>3, <1>4, <1>5, <1>6, <1>7 DEF Next, Pass

LEMMA NewestFirstImplies == Base /\ NewestFirst => NewestScoredFirst
<1> SUFFICES ASSUME Base, NewestFirst, pass.pc = "judge", NEW x \in Stale
             PROVE  Cardinality({y \in Stored \ Stale : y[2] >= x[2]}) >= RecomputeBatch
  BY DEF NewestScoredFirst
<1>1. DOMAIN pass.batch = {} /\ Cardinality(Ahead(x)) >= RecomputeBatch
  BY DEF NewestFirst
<1>2. Ahead(x) = {y \in Stored \ Stale : y[2] >= x[2]}
  BY <1>1 DEF Ahead
<1> QED
  BY <1>1, <1>2

\* Whatever backlog a change of PressureVersion leaves, and whatever is
\* reported while a batch of it is computed anew, a pass judges by an old score
\* only behind RecomputeBatch node-days of the new definition
\* (StaleSizingScores, Runner.Run).
THEOREM NewestScoredFirstHolds == Spec => []NewestScoredFirst
  BY BaseHolds, NewestFirstInit, NewestFirstStep, NewestFirstImplies, PTL DEF Spec

\* Hence what Runner.Run says of its order holds of a window that fits a batch:
\* the backlog that breaks it has more node-days in the window than the batch.
THEOREM OneDefinitionIfWindowFits ==
  Spec => [](Cardinality({x \in Stored : InWindow(x)}) <= RecomputeBatch
               => WindowOfOneDefinition)
<1> DEFINE window == {x \in Stored : InWindow(x)}
<1>1. ASSUME Base, NewestScoredFirst, Cardinality(window) <= RecomputeBatch
      PROVE  WindowOfOneDefinition
  <2> SUFFICES ASSUME pass.pc = "judge", NEW x \in Stored, InWindow(x), x \in Stale
               PROVE  FALSE
    BY DEF WindowOfOneDefinition, Stale
  <2> DEFINE ahead == {y \in Stored \ Stale : y[2] >= x[2]}
  <2>1. Cardinality(ahead) >= RecomputeBatch
    BY <1>1 DEF NewestScoredFirst
  <2>2. /\ IsFiniteSet(Stored) /\ \A y \in Stored : y[2] \in Int
        /\ pass.day \in Int /\ today \in Int /\ WindowDays \in Int
    BY <1>1, StaleDays, LimitsAssumption DEF Base, Times, Day
  <2>3. ahead \in SUBSET (window \ {x})
    <3> SUFFICES ASSUME NEW y \in Stored \ Stale, y[2] >= x[2]
                 PROVE  InWindow(y) /\ y # x
      OBVIOUS
    <3>1. y[2] < today /\ today <= pass.day + 1
      BY <1>1 DEF Base, Times
    <3> QED
      BY <2>2, <3>1 DEF InWindow
  <2>4. window \in SUBSET Stored /\ x \in window
    OBVIOUS
  <2> HIDE DEF window, ahead
  <2>5. IsFiniteSet(window) /\ Cardinality(window) \in Nat
    BY <2>2, <2>4, FS_Subset, FS_CardinalityType
  <2>6. /\ IsFiniteSet(window \ {x})
        /\ Cardinality(window \ {x}) = Cardinality(window) - 1
    BY <2>4, <2>5, FS_RemoveElement
  <2>7. Cardinality(ahead) <= Cardinality(window \ {x}) /\ Cardinality(ahead) \in Nat
    BY <2>3, <2>6, FS_Subset, FS_CardinalityType
  <2> QED
    BY <1>1, <2>1, <2>5, <2>6, <2>7, LimitsAssumption
<1>2. Base /\ NewestScoredFirst =>
        (Cardinality({x \in Stored : InWindow(x)}) <= RecomputeBatch => WindowOfOneDefinition)
  BY <1>1
<1> QED
  BY <1>2, BaseHolds, NewestScoredFirstHolds, PTL

-----------------------------------------------------------------------------
(* What the baselines rest on. *)

\* The nodes that a baseline rests on, as the pass read them.
Behind(k) ==
  {n \in pass.counted :
     /\ Window(n) # {}
     /\ k[2] \in pass.families[n]
     /\ k[1] = "family_solo" => pass.families[n] \ Platform = {k[2]}}

Evidence(k) ==
  /\ Cardinality({SystemOf[n] : n \in Behind(k)}) >= MinDistinctSystems
  /\ Cardinality(Behind(k)) >= MinNodes

LEMMA SystemsFinite == IsFiniteSet({SystemOf[n] : n \in Node})
<1> DEFINE systems == {SystemOf[n] : n \in Node}
           of == [n \in Node |-> SystemOf[n]]
<1>1. of \in Surjection(Node, systems)
  BY DEF Surjection
<1> HIDE DEF of, systems
<1>2. IsFiniteSet(systems)
  BY <1>1, NodesAssumption, FS_Surjection
<1> QED
  BY <1>2 DEF systems

\* More nodes are of no fewer systems.
LEMMA MoreEvidence ==
  ASSUME NEW few, NEW many, few \subseteq many, many \subseteq Node
  PROVE  /\ Cardinality({SystemOf[n] : n \in few}) >= MinDistinctSystems
              => Cardinality({SystemOf[n] : n \in many}) >= MinDistinctSystems
         /\ Cardinality(few) >= MinNodes => Cardinality(many) >= MinNodes
<1> DEFINE fewer == {SystemOf[n] : n \in few}
           more == {SystemOf[n] : n \in many}
           all == {SystemOf[n] : n \in Node}
<1>1. fewer \in SUBSET more /\ more \in SUBSET all /\ IsFiniteSet(all)
  BY SystemsFinite
<1> HIDE DEF fewer, more, all
<1>2. IsFiniteSet(more) /\ IsFiniteSet(many)
  BY <1>1, NodesAssumption, FS_Subset
<1>3. /\ Cardinality(fewer) <= Cardinality(more) /\ Cardinality(fewer) \in Nat
      /\ Cardinality(more) \in Nat
  BY <1>1, <1>2, FS_Subset, FS_CardinalityType
<1>4. /\ Cardinality(few) <= Cardinality(many) /\ Cardinality(few) \in Nat
      /\ Cardinality(many) \in Nat
  BY <1>2, FS_Subset, FS_CardinalityType
<1> QED
  BY <1>3, <1>4, LimitsAssumption DEF fewer, more

\* The inductive form of CohortsHaveEvidence: the sweep leaves no more than
\* what this pass published.
Founded ==
  /\ pass.counted \subseteq Node
  /\ pass.pc = "expire" => \A k \in pass.published : Evidence(k)
  /\ pass.pc \in {"rollup", "prune"} => \A k \in cohorts : Evidence(k)

LEMMA FoundedInit == Init => Founded
BY DEF Init, Founded, NoPass

\* What is published has cleared the floor with the nodes behind it.
LEMMA PublishedHasEvidence ==
  ASSUME Base, PublishCohorts, NEW k \in Publishable
  PROVE  Evidence(k)'
<1>1. /\ pass'.counted = pass.counted /\ pass'.day = pass.day /\ daily' = daily
      /\ pass'.families = [n \in pass.counted |-> Workloads(n)]
  BY PassEffect DEF PublishCohorts
<1>2. \A n : Window(n)' = Window(n)
  BY <1>1 DEF Window, InWindow, Stored
<1>3. Behind(k)' = Members(k)
  <2>1. \A n : k[2] \in Workloads(n) => Window(n) # {}
    BY DEF Workloads
  <2>2. \A n \in pass.counted : pass'.families[n] = Workloads(n)
    BY <1>1
  <2>3. Behind(k)' = {n \in pass.counted :
                        /\ Window(n) # {}
                        /\ k[2] \in Workloads(n)
                        /\ k[1] = "family_solo" => Workloads(n) \ Platform = {k[2]}}
    BY <1>1, <1>2, <2>2 DEF Behind
  <2> QED
    BY <2>1, <2>3 DEF Members, IsSolo, BusinessFamilies
<1>4. ClearsFloor(Members(k))
  BY DEF Publishable
<1> QED
  BY <1>3, <1>4 DEF Evidence, ClearsFloor

\* The evidence of a pass stays what it was through its own steps.
LEMMA SameEvidence ==
  ASSUME pass'.day = pass.day, pass'.counted = pass.counted,
         pass'.families = pass.families, daily' = daily, NEW k, Evidence(k)
  PROVE  Evidence(k)'
<1>1. Behind(k)' = Behind(k)
  BY DEF Behind, Window, InWindow, Stored
<1> QED
  BY <1>1 DEF Evidence

LEMMA FoundedStep == Base /\ Founded /\ [Next]_vars => Founded'
<1> SUFFICES ASSUME Base, Founded, [Next]_vars PROVE Founded'
  OBVIOUS
<1>1. ASSUME NEW n \in Node, NEW d \in Day, NEW c \in Content, Report(n, d, c)
      PROVE  Founded'
  <2>1. /\ Stored' = Stored \cup {<<n, d>>} /\ cohorts' = cohorts
        /\ pass'.pc = pass.pc /\ pass'.day = pass.day /\ pass'.counted = pass.counted
        /\ pass'.families = pass.families /\ pass'.published = pass.published
    BY <1>1, ReportEffect DEF Report
  <2>2. \A m : Window(m) \subseteq Window(m)'
    BY <2>1 DEF Window, InWindow
  <2>3. ASSUME NEW k, Evidence(k) PROVE Evidence(k)'
    <3>1. Behind(k) \subseteq Behind(k)' /\ Behind(k)' \subseteq Node
      BY <2>1, <2>2 DEF Behind, Founded
    <3> QED
      BY <2>3, <3>1, MoreEvidence DEF Evidence
  <2> QED
    BY <2>1, <2>3 DEF Founded
<1>2. CASE PublishCohorts
  <2>1. /\ pass'.pc = "expire" /\ pass'.published = Publishable
        /\ pass'.counted = pass.counted
    BY <1>2, PassEffect
  <2>2. \A k \in Publishable : Evidence(k)'
    BY <1>2, PublishedHasEvidence
  <2> QED
    BY <2>1, <2>2 DEF Founded
<1>3. CASE DeleteStaleCohorts
  <2>1. /\ pass'.pc = "rollup" /\ pass'.day = pass.day /\ daily' = daily
        /\ pass'.counted = pass.counted /\ pass'.families = pass.families
        /\ pass.pc = "expire" /\ cohorts' \subseteq pass.published
    BY <1>3, PassEffect DEF DeleteStaleCohorts
  <2>2. \A k \in cohorts' : Evidence(k)'
    BY <2>1, SameEvidence DEF Founded
  <2> QED
    BY <2>1, <2>2 DEF Founded
<1>4. CASE RollupMonth
  <2>1. /\ pass'.pc \in {"rollup", "prune"} /\ pass'.day = pass.day /\ daily' = daily
        /\ pass'.counted = pass.counted /\ pass'.families = pass.families
        /\ pass.pc = "rollup" /\ cohorts' = cohorts
    BY <1>4, PassEffect DEF RollupMonth
  <2>2. \A k \in cohorts' : Evidence(k)'
    BY <2>1, SameEvidence DEF Founded
  <2> QED
    BY <2>1, <2>2 DEF Founded
<1>5. CASE /\ pass'.pc \notin {"expire", "rollup", "prune"}
           /\ pass'.counted \subseteq Node
  BY <1>5 DEF Founded
<1>6. ASSUME BeginPass \/ Rescore \/ Judge \/ PruneDaily \/ StepFails \/ Restart
      PROVE  /\ pass'.pc \notin {"expire", "rollup", "prune"}
             /\ pass'.counted \subseteq Node
  BY <1>6, PassEffect DEF PruneDaily, StepFails, Restart, Countable, Founded
<1>7. CASE NextDay \/ UNCHANGED vars
  <2>1. pass' = pass /\ daily' = daily /\ cohorts' = cohorts
    BY <1>7 DEF NextDay, vars, tables
  <2>2. \A k : Evidence(k) => Evidence(k)'
    BY <2>1, SameEvidence
  <2> QED
    BY <2>1, <2>2 DEF Founded
<1> QED
  BY <1>1, <1>2, <1>3, <1>4, <1>5, <1>6, <1>7 DEF Next, Pass

\* Each baseline that is served once a pass has swept them rests, in its window
\* and as this pass read it, on nodes of MinDistinctSystems clusters and on
\* MinNodes nodes: a baseline of an earlier pass, or of one that failed before
\* its sweep, does not outlive the nodes it was computed from
\* (publishCohorts, DeleteStaleSizingCohorts).
THEOREM CohortsHaveEvidenceHolds == Spec => []CohortsHaveEvidence
<1>1. Founded => CohortsHaveEvidence
  BY DEF Founded, CohortsHaveEvidence, Evidence, Behind
<1> QED
  BY <1>1, BaseHolds, FoundedInit, FoundedStep, PTL DEF Spec

-----------------------------------------------------------------------------
(* The monthly history. *)

\* All the days a node ever had in a month.
AllDays(n, m) == {x \in Stored \cup lost : x[1] = n /\ Month(x[2]) = m}

\* The month counts them all.
Settled(n, m) == monthly[n][m] = Cardinality(AllDays(n, m))

\* A day of the month may have been reported since d.
Dirty(n, m, d) ==
  \E x \in Stored : x[1] = n /\ Month(x[2]) = m /\ x[2] >= d - MaxDayAge

Tabled == monthly = [n \in Node |-> [m \in Months |-> monthly[n][m]]]

\* A month that does not count all its days has one that was late for the last
\* rollup; the months that this rollup has passed were counted since it began.
History ==
  /\ Tabled
  /\ \A n \in Node, m \in Months : Settled(n, m) \/ Dirty(n, m, rolled)
  /\ pass.pc = "rollup" =>
       /\ pass.month \in Touched
       /\ \A n \in Node : \A m \in Touched :
            m < pass.month => Settled(n, m) \/ Dirty(n, m, pass.day)

LEMMA TimesAreIntegers ==
  ASSUME Base
  PROVE  /\ today \in Int /\ rolled \in Int
         /\ pass.pc # "idle" => pass.day \in Int
         /\ \A x \in Stored \cup lost : x[1] \in Node /\ x[2] \in Day /\ x[2] \in Int
         /\ \A d \in Day : d \in Int /\ Month(d) \in Nat /\ Month(d) \in Months
         /\ MaxDayAge \in Nat /\ MaxOutage \in Nat /\ Retention \in Nat
         /\ MonthlyRollupDays \in Nat
         /\ MonthlyRollupDays <= Retention /\ MaxDayAge + MaxOutage <= MonthlyRollupDays
<1>1. \A d \in Day : d \in Int
  BY BoundsAssumption DEF Day
<1>2. \A d \in Day : Month(d) \in Nat /\ Month(d) \in Months
  BY MonthAssumption DEF Months
<1>3. MaxDayAge \in Nat /\ MaxOutage \in Nat /\ Retention \in Nat /\ MonthlyRollupDays \in Nat
  BY LimitsAssumption, BoundsAssumption
<1>4. today - today <= Retention - MonthlyRollupDays /\ today \in Day
  BY HistoryAssumption DEF Base, Times
<1> QED
  BY <1>1, <1>2, <1>3, <1>4, HistoryAssumption DEF Base, Rows, Times, NodeDay

\* The months a rollup touches still have all their rows,
LEMMA TouchedIsWhole ==
  ASSUME Base, pass.pc = "rollup", NEW x \in lost
  PROVE  Month(x[2]) \notin Touched
<1> SUFFICES ASSUME NEW e \in Day, e >= pass.day - MonthlyRollupDays, Month(x[2]) = Month(e)
             PROVE FALSE
  BY DEF Touched
<1>1. e - x[2] <= Retention - MonthlyRollupDays
  BY TimesAreIntegers, HistoryAssumption
<1> QED
  BY <1>1, TimesAreIntegers DEF Base, Times

\* and are all those that may have changed since the last.
LEMMA LateIsTouched ==
  ASSUME Base, pass.pc = "rollup", NEW x \in Stored, x[2] >= rolled - MaxDayAge
  PROVE  Month(x[2]) \in Touched
<1>1. /\ x[2] \in Day /\ x[2] \in Int /\ pass.day \in Int /\ today \in Int /\ rolled \in Int
      /\ MaxDayAge \in Nat /\ MaxOutage \in Nat /\ MonthlyRollupDays \in Nat
      /\ MaxDayAge + MaxOutage <= MonthlyRollupDays
  BY TimesAreIntegers
<1>2. x[2] < today /\ today <= pass.day + 1 /\ pass.day <= today /\ today <= rolled + MaxOutage
  BY DEF Base, Times
<1>3. x[2] >= pass.day - MonthlyRollupDays /\ x[2] <= pass.day
  BY <1>1, <1>2
<1> QED
  BY <1>1, <1>3 DEF Touched

LEMMA TouchedMonths ==
  ASSUME Base, pass.pc # "idle"
  PROVE  Touched \subseteq Months /\ Touched \in SUBSET Nat /\ Touched # {}
<1>1. pass.day \in Day
  BY DEF Base, Times
<1>2. pass.day \in pass.day - MonthlyRollupDays .. pass.day
  BY <1>1, TimesAreIntegers
<1>3. Month(pass.day) \in Touched
  BY <1>1, <1>2 DEF Touched
<1> QED
  BY <1>3, MonthAssumption DEF Touched, Months

LEMMA HistoryInit == Init => History
<1> SUFFICES ASSUME Init PROVE History
  OBVIOUS
<1>1. ASSUME NEW n \in Node, NEW m \in Months PROVE Settled(n, m)
  <2>1. AllDays(n, m) = {} /\ monthly[n][m] = 0
    BY DEF Init, AllDays, Stored
  <2> QED
    BY <2>1, FS_EmptySet DEF Settled
<1>2. Tabled /\ pass.pc = "idle"
  BY DEF Init, Tabled, NoPass
<1> QED
  BY <1>1, <1>2 DEF History

\* A report makes its month dirty, for the last rollup and for the one under way.
LEMMA ReportKeepsHistory ==
  ASSUME Base, History, NEW n \in Node, NEW d \in Day, NEW c \in Content, Report(n, d, c)
  PROVE  History'
<1>1. /\ Stored' = Stored \cup {<<n, d>>}
      /\ pass'.pc = pass.pc /\ pass'.day = pass.day /\ pass'.month = pass.month
      /\ monthly' = monthly /\ rolled' = rolled /\ lost' = lost
      /\ d >= today - MaxDayAge
  BY ReportEffect DEF Report, Reportable
<1>2. ASSUME NEW o \in Node, NEW m \in Months, NEW since \in Int, since <= today,
             Settled(o, m) \/ Dirty(o, m, since)
      PROVE  Settled(o, m)' \/ Dirty(o, m, since)'
  <2>1. CASE Dirty(o, m, since)
    BY <1>1, <2>1 DEF Dirty
  <2>2. CASE o = n /\ m = Month(d)
    <3>1. d >= since - MaxDayAge
      BY <1>1, <1>2, TimesAreIntegers
    <3>2. <<n, d>> \in Stored' /\ <<n, d>>[1] = o /\ Month(<<n, d>>[2]) = m
      BY <1>1, <2>2
    <3>3. \E x \in Stored' : x[1] = o /\ Month(x[2]) = m /\ x[2] >= since - MaxDayAge
      BY <3>1, <3>2
    <3> QED
      BY <3>3 DEF Dirty
  <2>3. CASE Settled(o, m) /\ ~(o = n /\ m = Month(d))
    <3>1. AllDays(o, m)' = AllDays(o, m)
      BY <1>1, <2>3 DEF AllDays
    <3> QED
      BY <1>1, <2>3, <3>1 DEF Settled
  <2> QED
    BY <1>2, <2>1, <2>2, <2>3
<1>3. Tabled'
  BY <1>1 DEF History, Tabled
<1>4. \A o \in Node, m \in Months : Settled(o, m)' \/ Dirty(o, m, rolled)'
  <2>1. rolled \in Int /\ rolled <= today
    BY TimesAreIntegers DEF Base, Times
  <2>2. ASSUME NEW o \in Node, NEW m \in Months PROVE Settled(o, m)' \/ Dirty(o, m, rolled)'
    <3>1. Settled(o, m) \/ Dirty(o, m, rolled)
      BY DEF History
    <3>2. Dirty(o, m, rolled)' <=> \E x \in Stored' :
            x[1] = o /\ Month(x[2]) = m /\ x[2] >= rolled - MaxDayAge
      BY <1>1 DEF Dirty
    <3> QED
      BY <1>2, <2>1, <3>1, <3>2 DEF Dirty
  <2> QED
    BY <2>2
<1>5. ASSUME pass'.pc = "rollup"
      PROVE  /\ pass'.month \in Touched'
             /\ \A o \in Node : \A m \in Touched' :
                  m < pass'.month => Settled(o, m)' \/ Dirty(o, m, pass.day)'
  <2>1. Touched' = Touched /\ pass.pc = "rollup"
    BY <1>1, <1>5 DEF Touched
  <2>2. pass.day \in Int /\ pass.day <= today /\ Touched \subseteq Months
    BY <2>1, TimesAreIntegers, TouchedMonths DEF Base, Times
  <2>3. ASSUME NEW o \in Node, NEW m \in Touched, m < pass.month
        PROVE  Settled(o, m)' \/ Dirty(o, m, pass.day)'
    <3>1. Settled(o, m) \/ Dirty(o, m, pass.day)
      BY <2>1, <2>3 DEF History
    <3>2. Dirty(o, m, pass.day)' <=> \E x \in Stored' :
            x[1] = o /\ Month(x[2]) = m /\ x[2] >= pass.day - MaxDayAge
      BY <1>1 DEF Dirty
    <3> QED
      BY <1>2, <2>2, <3>1, <3>2 DEF Dirty
  <2> QED
    BY <1>1, <2>1, <2>3 DEF History
<1> QED
  BY <1>1, <1>3, <1>4, <1>5 DEF History

\* A rolled up month counts all its days: none of them was pruned.
LEMMA RollupSettles ==
  ASSUME Base, History, RollupMonth, NEW n \in Node, NEW month, month = pass.month
  PROVE  /\ Settled(n, month)'
         /\ \A m \in Months \ {month} : Settled(n, m) => Settled(n, m)'
         /\ Tabled'
<1>1. /\ monthly' = [o \in Node |-> [monthly[o] EXCEPT ![month] =
           IF DaysOf(o, month) = {} THEN @ ELSE Cardinality(DaysOf(o, month))]]
      /\ daily' = daily /\ lost' = lost /\ pass.pc = "rollup"
  BY DEF RollupMonth
<1>2. month \in Touched /\ month \in Months
  BY <1>1, TouchedMonths DEF History
<1>3. \A o \in Node, m \in Months : AllDays(o, m)' = AllDays(o, m)
  BY <1>1 DEF AllDays, Stored
<1>4. ASSUME NEW o \in Node
      PROVE  /\ monthly'[o] = [m \in Months |-> monthly'[o][m]]
             /\ \A m \in Months \ {month} : monthly'[o][m] = monthly[o][m]
             /\ monthly'[o][month] = IF DaysOf(o, month) = {} THEN monthly[o][month]
                                          ELSE Cardinality(DaysOf(o, month))
  <2> DEFINE count == IF DaysOf(o, month) = {} THEN monthly[o][month]
                      ELSE Cardinality(DaysOf(o, month))
  <2>1. monthly'[o] = [monthly[o] EXCEPT ![month] = count]
    BY <1>1
  <2>2. monthly[o] = [m \in Months |-> monthly[o][m]]
    BY DEF History, Tabled
  <2> HIDE DEF count
  <2>3. /\ monthly'[o] = [m \in Months |-> monthly'[o][m]]
        /\ \A m \in Months \ {month} : monthly'[o][m] = monthly[o][m]
        /\ monthly'[o][month] = count
    BY <1>2, <2>1, <2>2
  <2> QED
    BY <2>3 DEF count
<1>5. AllDays(n, month) = DaysOf(n, month)
  BY <1>1, <1>2, TouchedIsWhole DEF AllDays, DaysOf
<1>6. Settled(n, month)'
  <2>1. CASE DaysOf(n, month) = {}
    <3>1. ~Dirty(n, month, rolled)
      BY <2>1 DEF Dirty, DaysOf
    <3>2. Settled(n, month)
      BY <1>2, <3>1 DEF History
    <3>3. AllDays(n, month)' = AllDays(n, month)
      BY <1>2, <1>3
    <3> QED
      BY <1>1, <1>2, <1>4, <2>1, <3>2 DEF Settled, AllDays, Stored
  <2>2. CASE DaysOf(n, month) # {}
    BY <1>1, <1>4, <1>5, <2>2 DEF Settled, AllDays, Stored
  <2> QED
    BY <2>1, <2>2
<1>7. \A m \in Months \ {month} : Settled(n, m) => Settled(n, m)'
  BY <1>3, <1>4 DEF Settled
<1>8. Tabled'
  BY <1>1, <1>4 DEF Tabled
<1> QED
  BY <1>6, <1>7, <1>8

\* The month rolled up counts all its days, and so does every month that an
\* earlier rollup or an earlier step of this one left settled.
LEMMA RollupKeepsHistory ==
  ASSUME Base, History, RollupMonth
  PROVE  History'
<1> SUFFICES ASSUME NEW month, month = pass.month PROVE History'
  OBVIOUS
<1> DEFINE rest == {o \in Touched : o > month}
<1>1. /\ pass.pc = "rollup" /\ daily' = daily /\ lost' = lost
      /\ pass'.pc = IF rest = {} THEN "prune" ELSE "rollup"
      /\ pass'.day = pass.day
      /\ rest # {} => pass'.month = Min(rest)
      /\ rolled' = IF rest = {} THEN pass.day ELSE rolled
  BY PassEffect DEF RollupMonth
<1>2. /\ month \in Touched /\ Touched \subseteq Months /\ Touched \in SUBSET Nat
      /\ Stored' = Stored /\ Touched' = Touched
  BY <1>1, TouchedMonths DEF History, Stored, Touched
<1>3. ASSUME NEW n \in Node
      PROVE  /\ Settled(n, month)'
             /\ \A m \in Months \ {month} : Settled(n, m) => Settled(n, m)'
  BY <1>2, RollupSettles
<1>4. ASSUME NEW n \in Node, NEW m \in Months, NEW since, Settled(n, m) \/ Dirty(n, m, since)
      PROVE  Settled(n, m)' \/ Dirty(n, m, since)'
  <2>1. Dirty(n, m, since) => Dirty(n, m, since)'
    BY <1>2 DEF Dirty
  <2> QED
    BY <1>3, <1>4, <2>1
<1>5. Tabled'
  <2>1. CASE Node = {}
    BY <2>1 DEF RollupMonth, Tabled
  <2>2. CASE Node # {}
    BY <1>2, <2>2, RollupSettles
  <2> QED
    BY <2>1, <2>2
<1>6. ASSUME NEW n \in Node, NEW m \in Touched, m <= month
      PROVE  Settled(n, m)' \/ Dirty(n, m, pass.day)'
  <2>1. CASE m = month
    BY <1>3, <2>1
  <2>2. CASE m # month
    <3>1. m < month /\ m \in Months
      BY <1>2, <1>6, <2>2
    <3>2. Settled(n, m) \/ Dirty(n, m, pass.day)
      BY <1>1, <3>1 DEF History
    <3>3. Dirty(n, m, pass.day)' <=> Dirty(n, m, pass.day)
      BY <1>1, <1>2 DEF Dirty
    <3> QED
      BY <1>3, <2>2, <3>1, <3>2, <3>3
  <2> QED
    BY <2>1, <2>2
<1>7. CASE rest = {}
  <2>1. pass'.pc = "prune" /\ rolled' = pass.day
    BY <1>1, <1>7
  <2>2. ASSUME NEW n \in Node, NEW m \in Months
        PROVE  Settled(n, m)' \/ Dirty(n, m, rolled)'
    <3>1. CASE m \in Touched
      <4>1. m <= month
        BY <1>2, <1>7, <3>1
      <4>2. Settled(n, m)' \/ Dirty(n, m, pass.day)'
        BY <1>6, <3>1, <4>1
      <4>3. Dirty(n, m, rolled)' <=> Dirty(n, m, pass.day)'
        BY <1>1, <2>1 DEF Dirty
      <4> QED
        BY <4>2, <4>3
    <3>2. CASE m \notin Touched
      <4>1. ~Dirty(n, m, rolled)
        BY <1>1, <3>2, LateIsTouched DEF Dirty
      <4>2. Settled(n, m)
        BY <4>1 DEF History
      <4> QED
        BY <1>2, <1>3, <3>2, <4>2
    <3> QED
      BY <3>1, <3>2
  <2> QED
    BY <1>5, <2>1, <2>2 DEF History
<1>8. CASE rest # {}
  <2>1. /\ pass'.pc = "rollup" /\ rolled' = rolled /\ pass'.month = Min(rest)
        /\ Min(rest) \in rest /\ \A o \in rest : Min(rest) <= o
    BY <1>1, <1>2, <1>8, MinOfNaturals
  <2>2. ASSUME NEW n \in Node, NEW m \in Months
        PROVE  Settled(n, m)' \/ Dirty(n, m, rolled)'
    <3>1. Settled(n, m) \/ Dirty(n, m, rolled)
      BY DEF History
    <3>2. Dirty(n, m, rolled)' <=> Dirty(n, m, rolled)
      BY <1>2, <2>1 DEF Dirty
    <3>3. Settled(n, m) => Settled(n, m)'
      BY <1>3
    <3> QED
      BY <3>1, <3>2, <3>3
  <2>3. pass'.month \in Touched'
    BY <1>2, <2>1
  <2>4. ASSUME NEW n \in Node, NEW m \in Touched', m < pass'.month
        PROVE  Settled(n, m)' \/ Dirty(n, m, pass.day)'
    <3>1. m \in Touched /\ m \notin rest /\ m \in Nat /\ month \in Nat
      <4>1. m \in Touched /\ m \in Nat /\ month \in Nat
        BY <1>2, <2>4
      <4>2. ASSUME m \in rest PROVE FALSE
        <5>1. Min(rest) <= m /\ Min(rest) \in Nat /\ m < Min(rest)
          BY <1>2, <2>1, <2>4, <4>2
        <5> HIDE DEF rest
        <5> QED
          BY <4>1, <5>1
      <4> QED
        BY <4>1, <4>2
    <3>2. m <= month
      BY <3>1
    <3> QED
      BY <1>6, <3>1, <3>2
  <2> QED
    BY <1>5, <2>1, <2>2, <2>3, <2>4 DEF History
<1> QED
  BY <1>7, <1>8

\* A pruned day is still one its month had, and too old to have been late.
LEMMA PruneKeepsHistory ==
  ASSUME Base, History, PruneDaily
  PROVE  History'
<1>1. /\ Stored' = {x \in Stored : x[2] >= rolled - Retention}
      /\ lost' = lost \cup {x \in Stored : x[2] < rolled - Retention}
      /\ pass'.pc = "idle" /\ monthly' = monthly /\ rolled' = rolled
  BY PruneEffect, PassEffect DEF PruneDaily
<1>2. /\ rolled \in Int /\ Retention \in Nat /\ MaxDayAge \in Nat
      /\ MaxDayAge <= Retention /\ \A x \in Stored : x[2] \in Int
  <2>1. /\ Retention \in Nat /\ MaxDayAge \in Nat /\ MaxOutage \in Nat
        /\ MonthlyRollupDays \in Nat
        /\ MonthlyRollupDays <= Retention /\ MaxDayAge + MaxOutage <= MonthlyRollupDays
    BY TimesAreIntegers
  <2>2. MaxDayAge <= Retention
    BY <2>1
  <2> QED
    BY <2>1, <2>2, TimesAreIntegers
<1>3. Stored' \cup lost' = Stored \cup lost
  BY <1>1, <1>2
<1>4. ASSUME NEW n \in Node, NEW m \in Months
      PROVE  Settled(n, m)' \/ Dirty(n, m, rolled)'
  <2>1. CASE Settled(n, m)
    <3>1. AllDays(n, m)' = AllDays(n, m)
      BY <1>3 DEF AllDays
    <3> QED
      BY <1>1, <2>1, <3>1 DEF Settled
  <2>2. CASE Dirty(n, m, rolled)
    <3>1. PICK x \in Stored : x[1] = n /\ Month(x[2]) = m /\ x[2] >= rolled - MaxDayAge
      BY <2>2 DEF Dirty
    <3>2. x \in Stored'
      BY <1>1, <1>2, <3>1
    <3> QED
      BY <1>1, <3>1, <3>2 DEF Dirty
  <2> QED
    BY <2>1, <2>2 DEF History
<1>5. Tabled'
  BY <1>1 DEF History, Tabled
<1> QED
  BY <1>1, <1>4, <1>5 DEF History

LEMMA HistoryStep == Base /\ History /\ [Next]_vars => History'
<1> SUFFICES ASSUME Base, History, [Next]_vars PROVE History'
  OBVIOUS
<1>1. ASSUME daily' = daily, lost' = lost, rolled' = rolled, monthly' = monthly,
             pass'.pc # "rollup"
      PROVE  History'
  <2>1. \A n \in Node, m \in Months :
          /\ Settled(n, m)' <=> Settled(n, m)
          /\ Dirty(n, m, rolled)' <=> Dirty(n, m, rolled)
    BY <1>1 DEF Settled, AllDays, Dirty, Stored
  <2>2. Tabled'
    BY <1>1 DEF History, Tabled
  <2> QED
    BY <1>1, <2>1, <2>2 DEF History
<1>2. CASE \E n \in Node, d \in Day, c \in Content : Report(n, d, c)
  BY <1>2, ReportKeepsHistory
<1>3. CASE Rescore
  <2>1. /\ Stored' = Stored /\ lost' = lost /\ rolled' = rolled /\ monthly' = monthly
        /\ pass'.pc = "judge"
    BY <1>3, RescoreEffect, PassEffect DEF Rescore, ghosts
  <2>2. \A n \in Node, m \in Months :
          /\ Settled(n, m)' <=> Settled(n, m)
          /\ Dirty(n, m, rolled)' <=> Dirty(n, m, rolled)
    BY <2>1 DEF Settled, AllDays, Dirty
  <2>3. Tabled'
    BY <2>1 DEF History, Tabled
  <2> QED
    BY <2>1, <2>2, <2>3 DEF History
<1>4. CASE DeleteStaleCohorts
  <2>1. /\ daily' = daily /\ lost' = lost /\ rolled' = rolled /\ monthly' = monthly
        /\ pass'.pc = "rollup" /\ pass'.day = pass.day /\ pass.pc # "idle"
        /\ pass'.month = Min(Touched)
    BY <1>4, PassEffect DEF DeleteStaleCohorts, ghosts
  <2>2. \A n \in Node, m \in Months :
          /\ Settled(n, m)' <=> Settled(n, m)
          /\ Dirty(n, m, rolled)' <=> Dirty(n, m, rolled)
    BY <2>1 DEF Settled, AllDays, Dirty, Stored
  <2>3. Tabled' /\ Touched' = Touched
    BY <2>1 DEF History, Tabled, Touched
  <2>4. Min(Touched) \in Touched /\ \A m \in Touched : Min(Touched) <= m /\ m \in Nat
    BY <2>1, TouchedMonths, MinOfNaturals
  <2>5. \A m \in Touched' : ~(m < pass'.month)
    <3> DEFINE first == Min(Touched)
    <3>1. first \in Nat /\ \A m \in Touched : first <= m /\ m \in Nat
      BY <2>4
    <3> HIDE DEF first
    <3>2. \A m \in Touched : ~(m < first)
      BY <3>1
    <3> QED
      BY <2>1, <2>3, <3>2 DEF first
  <2> QED
    BY <2>1, <2>2, <2>3, <2>4, <2>5 DEF History
<1>5. CASE RollupMonth
  BY <1>5, RollupKeepsHistory
<1>6. CASE PruneDaily
  BY <1>6, PruneKeepsHistory
<1>7. CASE BeginPass \/ Judge \/ PublishCohorts \/ StepFails \/ Restart
  <2>1. /\ daily' = daily /\ lost' = lost /\ rolled' = rolled /\ monthly' = monthly
        /\ pass'.pc # "rollup"
    BY <1>7, PassEffect DEF BeginPass, Judge, PublishCohorts, StepFails, Restart, tables, ghosts
  <2> QED
    BY <1>1, <2>1
<1>8. CASE NextDay \/ UNCHANGED vars
  <2>1. /\ daily' = daily /\ lost' = lost /\ rolled' = rolled /\ monthly' = monthly
        /\ pass' = pass
    BY <1>8 DEF NextDay, vars, tables, ghosts
  <2>2. \A n \in Node, m \in Months :
          /\ Settled(n, m)' <=> Settled(n, m)
          /\ Dirty(n, m, rolled)' <=> Dirty(n, m, rolled)
    BY <2>1 DEF Settled, AllDays, Dirty, Stored
  <2>3. Tabled' /\ Touched' = Touched
    BY <2>1 DEF History, Tabled, Touched
  <2>4. pass.pc = "rollup" => \A n \in Node : \A m \in Touched :
          /\ m \in Months
          /\ Dirty(n, m, pass.day)' <=> Dirty(n, m, pass.day)
    BY <2>1, TouchedMonths DEF Dirty, Stored
  <2> QED
    BY <2>1, <2>2, <2>3, <2>4 DEF History
<1> QED
  BY <1>2, <1>3, <1>4, <1>5, <1>6, <1>7, <1>8 DEF Next, Pass

\* A pruned day's month is too old for a late report, and so counts them all.
LEMMA HistoryImplies == Base /\ History => MonthlyHistoryKept
<1> SUFFICES ASSUME Base, History, NEW x \in lost PROVE Settled(x[1], Month(x[2]))
  BY DEF MonthlyHistoryKept, Settled, AllDays
<1>1. x[1] \in Node /\ x[2] \in Day /\ x[2] \in Int /\ Month(x[2]) \in Months
  BY TimesAreIntegers
<1>2. ASSUME Dirty(x[1], Month(x[2]), rolled)
      PROVE  FALSE
  <2>1. PICK y \in Stored : Month(y[2]) = Month(x[2]) /\ y[2] >= rolled - MaxDayAge
    BY <1>2 DEF Dirty
  <2>2. y[2] - x[2] <= Retention - MonthlyRollupDays
    BY <1>1, <2>1, TimesAreIntegers, HistoryAssumption
  <2>3. x[2] < rolled - Retention
    BY DEF Base, Times
  <2>4. /\ y[2] \in Int /\ rolled \in Int /\ MaxDayAge \in Nat /\ MaxOutage \in Nat
        /\ Retention \in Nat /\ MonthlyRollupDays \in Nat
        /\ MaxDayAge + MaxOutage <= MonthlyRollupDays
    BY TimesAreIntegers
  <2> QED
    BY <1>1, <2>1, <2>2, <2>3, <2>4
<1> QED
  BY <1>1, <1>2 DEF History

\* The monthly history counts every day that was ever stored and pruned: the
\* rollup comes before the prune and reaches every month that a late report or
\* a failed rollup may have left behind (RollupSizingMonthly, PruneSizingDaily).
THEOREM MonthlyHistoryKeptHolds == Spec => []MonthlyHistoryKept
<1> QED
  BY BaseHolds, HistoryInit, HistoryStep, HistoryImplies, PTL DEF Spec

-----------------------------------------------------------------------------
(* The score of a day. *)

\* The sum of the axes is a fold, a recursive function over the sets of axes.
\* That it exists and what it is worth is shown on a least counterexample.

\* What the fold takes first from a set.
First(s) == CHOOSE x \in s : TRUE

\* g sums the values of f over every subset of S.
SumsOver(f, g, S) ==
  g = [s \in SUBSET S |-> IF s = {} THEN 0 ELSE f[First(s)] + g[s \ {First(s)}]]

\* Sets of finite subsets of S have minimal elements.
LEMMA MinimalSubset ==
  ASSUME NEW S, IsFiniteSet(S), NEW bad \in SUBSET SUBSET S, bad # {}
  PROVE  \E T \in bad : \A U \in SUBSET T : U # T => U \notin bad
<1>1. bad \subseteq FiniteSubsetsOf(S)
  BY FS_Subset DEF FiniteSubsetsOf
<1>2. PICK T \in bad : \A U \in bad : ~(<<U, T>> \in StrictSubsetOrdering(S))
  BY <1>1, FS_StrictSubsetOrderingWellFounded, WFMin
<1>3. ASSUME NEW U \in SUBSET T, U # T, U \in bad PROVE FALSE
  <2>1. <<U, T>> \in StrictSubsetOrdering(S)
    BY <1>3 DEF StrictSubsetOrdering
  <2> QED
    BY <1>2, <1>3, <2>1
<1> QED
  BY <1>2, <1>3

LEMMA SumsAgree ==
  ASSUME NEW f, NEW g, NEW h, NEW S, NEW T, IsFiniteSet(S), T \subseteq S,
         SumsOver(f, g, S), SumsOver(f, h, T)
  PROVE  g[T] = h[T]
<1> DEFINE bad == {s \in SUBSET T : g[s] # h[s]}
<1> SUFFICES ASSUME bad # {} PROVE FALSE
  OBVIOUS
<1>0. IsFiniteSet(T)
  BY FS_Subset
<1>1. PICK s \in bad : \A r \in SUBSET s : r # s => r \notin bad
  <2> bad \in SUBSET SUBSET T
    OBVIOUS
  <2> HIDE DEF bad
  <2> QED
    BY <1>0, MinimalSubset
<1>2. s \in SUBSET S /\ s \in SUBSET T /\ g[s] # h[s]
  OBVIOUS
<1>3. s # {}
  BY <1>2 DEF SumsOver
<1>4. First(s) \in s
  BY <1>3 DEF First
<1>5. g[s \ {First(s)}] = h[s \ {First(s)}]
  BY <1>1, <1>4
<1>6. g[s] = f[First(s)] + g[s \ {First(s)}]
  BY <1>2, <1>3 DEF SumsOver
<1>7. h[s] = f[First(s)] + h[s \ {First(s)}]
  BY <1>2, <1>3 DEF SumsOver
<1> QED
  BY <1>2, <1>5, <1>6, <1>7

LEMMA SumExists ==
  ASSUME NEW f, NEW S, IsFiniteSet(S)
  PROVE  \E g : SumsOver(f, g, S)
<1> DEFINE bad == {T \in SUBSET S : ~ \E g : SumsOver(f, g, T)}
<1> SUFFICES ASSUME bad # {} PROVE FALSE
  OBVIOUS
<1>1. PICK T \in bad : \A U \in SUBSET T : U # T => U \notin bad
  <2> bad \in SUBSET SUBSET S
    OBVIOUS
  <2> HIDE DEF bad
  <2> QED
    BY MinimalSubset
<1>2. T \in SUBSET S /\ IsFiniteSet(T) /\ ~ \E g : SumsOver(f, g, T)
  BY FS_Subset
<1> DEFINE sum(U) == CHOOSE g : SumsOver(f, g, U)
           rest(s) == s \ {First(s)}
           total == [s \in SUBSET T |-> IF s = {} THEN 0 ELSE f[First(s)] + sum(rest(s))[rest(s)]]
<1>3. \A U \in SUBSET T : U # T => SumsOver(f, sum(U), U)
  BY <1>1
<1>4. ASSUME NEW s \in SUBSET T, s # {}
      PROVE  rest(s) \in SUBSET T /\ rest(s) # T
  BY <1>4 DEF First
<1>5. ASSUME NEW q \in SUBSET T, q # T
      PROVE  total[q] = sum(q)[q]
  <2>1. SumsOver(f, sum(q), q)
    BY <1>3, <1>5
  <2>2. CASE q = {}
    <3>1. sum(q)[q] = 0
      <4> DEFINE g == sum(q)
      <4> SumsOver(f, g, q)
        BY <2>1
      <4> HIDE DEF g
      <4>1. g[q] = 0
        BY <2>2 DEF SumsOver
      <4> QED
        BY <4>1 DEF g
    <3> QED
      BY <2>2, <3>1
  <2>3. CASE q # {}
    <3>1. rest(q) \in SUBSET q /\ rest(q) \in SUBSET T /\ rest(q) # T
      BY <1>4, <2>3
    <3>2. SumsOver(f, sum(rest(q)), rest(q))
      BY <1>3, <3>1
    <3>3. IsFiniteSet(q)
      BY <1>2, FS_Subset
    <3>4. sum(q)[rest(q)] = sum(rest(q))[rest(q)]
      <4> DEFINE g == sum(q)
                 r == rest(q)
                 h == sum(r)
      <4>1. SumsOver(f, g, q) /\ SumsOver(f, h, r) /\ r \subseteq q
        BY <2>1, <3>1, <3>2
      <4>2. g[r] = h[r]
        <5> HIDE DEF g, h, r
        <5> QED
          BY <3>3, <4>1, SumsAgree
      <4> QED
        BY <4>2
    <3>5. sum(q)[q] = f[First(q)] + sum(q)[rest(q)]
      <4> DEFINE g == sum(q)
      <4> SumsOver(f, g, q)
        BY <2>1
      <4> HIDE DEF g
      <4>1. g[q] = f[First(q)] + g[rest(q)]
        BY <2>3 DEF SumsOver
      <4> QED
        BY <4>1 DEF g
    <3> QED
      BY <2>3, <3>4, <3>5
  <2> QED
    BY <2>2, <2>3
<1>6. total = [s \in SUBSET T |-> IF s = {} THEN 0 ELSE f[First(s)] + total[rest(s)]]
  <2>1. \A s \in SUBSET T : s # {} => total[rest(s)] = sum(rest(s))[rest(s)]
    BY <1>4, <1>5
  <2> HIDE DEF sum
  <2> QED
    BY <2>1
<1>7. SumsOver(f, total, T)
  <2> HIDE DEF total
  <2> QED
    BY <1>6 DEF SumsOver
<1> QED
  BY <1>2, <1>7

\* The fold of + over a function of naturals is a natural that none exceeds.
LEMMA FoldIsSum ==
  ASSUME NEW f, IsFiniteSet(DOMAIN f), \A x \in DOMAIN f : f[x] \in Nat
  PROVE  /\ FoldFunction(+, 0, f) \in Nat
         /\ \A x \in DOMAIN f : f[x] <= FoldFunction(+, 0, f)
<1> DEFINE S == DOMAIN f
           g == CHOOSE g : g = [s \in SUBSET S |->
                  IF s = {} THEN 0 ELSE f[First(s)] + g[s \ {First(s)}]]
<1>1. FoldFunction(+, 0, f) = g[S]
  BY DEF FoldFunction, FoldFunctionOnSet, MapThenFoldSet, First
<1>2. \A s \in SUBSET S : g[s] = IF s = {} THEN 0 ELSE f[First(s)] + g[s \ {First(s)}]
  <2>1. \E h : SumsOver(f, h, S)
    BY SumExists
  <2>2. g = [s \in SUBSET S |-> IF s = {} THEN 0 ELSE f[First(s)] + g[s \ {First(s)}]]
    BY <2>1 DEF SumsOver
  <2> HIDE DEF g
  <2> QED
    BY <2>2
<1> DEFINE bad == {s \in SUBSET S : ~(g[s] \in Nat /\ \A x \in s : f[x] <= g[s])}
<1>3. ASSUME bad # {} PROVE FALSE
  <2>1. PICK s \in bad : \A r \in SUBSET s : r # s => r \notin bad
    <3> bad \in SUBSET SUBSET S
      OBVIOUS
    <3> HIDE DEF bad
    <3> QED
      BY <1>3, MinimalSubset
  <2> DEFINE x == First(s)
             r == s \ {x}
  <2>2. s \in SUBSET S /\ s # {}
    <3>1. s \in SUBSET S /\ ~(g[s] \in Nat /\ \A y \in s : f[y] <= g[s])
      BY <2>1
    <3>2. g[{}] = 0
      BY <1>2
    <3> HIDE DEF g
    <3> QED
      BY <3>1, <3>2
  <2>3. x \in s /\ f[x] \in Nat /\ r \in SUBSET s /\ r # s
    BY <2>2 DEF First
  <2>4. g[s] = f[x] + g[r]
    BY <1>2, <2>2
  <2>5. g[r] \in Nat /\ \A y \in r : f[y] <= g[r]
    BY <2>1, <2>2, <2>3
  <2>6. g[s] \in Nat /\ f[x] <= g[s] /\ g[r] <= g[s]
    <3> HIDE DEF g, x, r
    <3> QED
      BY <2>3, <2>4, <2>5
  <2>7. ASSUME NEW y \in s PROVE f[y] <= g[s]
    <3>1. y = x \/ y \in r
      OBVIOUS
    <3>2. f[y] \in Nat
      BY <2>2
    <3> HIDE DEF g, x, r
    <3> QED
      BY <2>5, <2>6, <3>1, <3>2
  <2> QED
    BY <2>1, <2>6, <2>7
<1>4. g[S] \in Nat /\ \A x \in S : f[x] <= g[S]
  BY <1>3
<1> QED
  BY <1>1, <1>4

\* An axis weighs no more than the maximum.
LEMMA PenaltyRange ==
  ASSUME NEW c, Measured(c)
  PROVE  \A axis \in DOMAIN c.terms : Penalty(c)[axis] \in 0 .. MaxPressure
<1> SUFFICES ASSUME NEW axis \in DOMAIN c.terms PROVE Penalty(c)[axis] \in 0 .. MaxPressure
  OBVIOUS
<1> DEFINE S == c.terms[axis]
<1>1. S \in SUBSET (0 .. MaxPressure) /\ S # {} /\ MaxPressure \in Nat
  BY DEF Measured, MaxPressure
<1>2. \E t \in S : \A u \in S : u <= t
  <2> HIDE DEF S
  <2> QED
    BY <1>1, LargestExists
<1>3. Max(S) \in S
  <2> HIDE DEF S
  <2>1. \E t \in S : \A u \in S : t >= u
    BY <1>1, <1>2
  <2> QED
    BY <2>1 DEF Max
<1>4. Penalty(c)[axis] = Max(S)
  BY DEF Penalty
<1> QED
  BY <1>1, <1>3, <1>4

\* The worst axis is one of them.
LEMMA WorstAxis ==
  ASSUME NEW p, DOMAIN p # {}, \A axis \in DOMAIN p : p[axis] \in 0 .. MaxPressure
  PROVE  /\ \E axis \in DOMAIN p : Max(Range(p)) = p[axis]
         /\ \A axis \in DOMAIN p : p[axis] <= Max(Range(p))
<1> DEFINE S == Range(p)
<1>1. S \in SUBSET (0 .. MaxPressure) /\ S # {} /\ MaxPressure \in Nat
  BY DEF Range, MaxPressure
<1>2. \E t \in S : \A u \in S : u <= t
  <2> HIDE DEF S
  <2> QED
    BY <1>1, LargestExists
<1>3. Max(S) \in S /\ \A u \in S : u <= Max(S)
  <2> HIDE DEF S
  <2>1. \E t \in S : \A u \in S : t >= u
    BY <1>1, <1>2
  <2>2. Max(S) \in S /\ \A u \in S : Max(S) >= u
    BY <2>1 DEF Max
  <2> QED
    BY <1>1, <2>2
<1> QED
  BY <1>3 DEF Range

\* The compounded score of a day of which an axis was measured.
LEMMA CompoundScore ==
  ASSUME NEW c, Measured(c), c.covered, DOMAIN c.terms # {}
  PROVE  /\ Evaluate(c) \in 0 .. MaxPressure
         /\ \A axis \in DOMAIN c.terms : Penalty(c)[axis] <= Evaluate(c)
<1> DEFINE p == Penalty(c)
           worst == Max(Range(p))
           sum == FoldFunction(+, 0, p)
           total == worst + (sum - worst) \div 2
<1>0. DOMAIN p = DOMAIN c.terms
  BY DEF Penalty
<1>1. \A axis \in DOMAIN p : p[axis] \in 0 .. MaxPressure
  BY <1>0, PenaltyRange
<1>2. IsFiniteSet(DOMAIN p) /\ \A axis \in DOMAIN p : p[axis] \in Nat
  <2>1. IsFiniteSet(DOMAIN c.terms) /\ \A n \in 0 .. MaxPressure : n \in Nat
    BY DEF Measured, MaxPressure
  <2> HIDE DEF p
  <2> QED
    BY <1>0, <1>1, <2>1
<1>3. /\ \E axis \in DOMAIN p : worst = p[axis]
      /\ \A axis \in DOMAIN p : p[axis] <= worst
  <2> HIDE DEF p
  <2> QED
    BY <1>0, <1>1, WorstAxis
<1>4. ASSUME NEW axis \in DOMAIN p
      PROVE  sum \in Nat /\ p[axis] <= sum
  <2> HIDE DEF p
  <2> QED
    BY <1>2, FoldIsSum
<1>5. worst \in 0 .. MaxPressure /\ worst <= sum /\ sum \in Nat
  <2> HIDE DEF p, sum, worst
  <2> QED
    BY <1>1, <1>3, <1>4
<1>6. total \in Nat /\ worst <= total
  <2> HIDE DEF sum, worst
  <2>1. sum - worst \in Nat /\ worst \in Nat
    BY <1>5 DEF MaxPressure
  <2>2. (sum - worst) \div 2 \in Nat
    BY <2>1
  <2> QED
    BY <2>1, <2>2
<1>7. Evaluate(c) = SmallerOf(MaxPressure, total)
  <2>1. ~(~c.covered \/ DOMAIN c.terms = {})
    OBVIOUS
  <2> QED
    BY <2>1 DEF Evaluate
<1>8. Evaluate(c) \in 0 .. MaxPressure /\ worst <= Evaluate(c)
  <2> DEFINE score == SmallerOf(MaxPressure, total)
  <2>1. score \in 0 .. MaxPressure /\ worst <= score
    <3>1. worst \in 0 .. MaxPressure /\ total \in Nat /\ worst <= total
      BY <1>5, <1>6
    <3> HIDE DEF total, worst
    <3>2. SmallerOf(MaxPressure, total) \in 0 .. MaxPressure
      BY <3>1 DEF SmallerOf, MaxPressure
    <3>3. worst <= SmallerOf(MaxPressure, total)
      BY <3>1 DEF SmallerOf, MaxPressure
    <3> QED
      BY <3>2, <3>3
  <2> QED
    BY <1>7, <2>1
<1>9. ASSUME NEW axis \in DOMAIN p PROVE p[axis] <= Evaluate(c)
  <2> DEFINE q == p[axis]
             score == Evaluate(c)
  <2>1. q \in Nat /\ worst \in Nat /\ score \in Nat /\ q <= worst /\ worst <= score
    <3>1. \A n \in 0 .. MaxPressure : n \in Nat
      BY DEF MaxPressure
    <3> HIDE DEF worst, p, score
    <3> QED
      BY <1>1, <1>3, <1>5, <1>8, <1>9, <3>1 DEF q, score
  <2> HIDE DEF q, score, worst
  <2>2. q <= score
    BY <2>1
  <2> QED
    BY <2>2 DEF q, score
<1> QED
  BY <1>0, <1>8, <1>9

\* A node-day is scored from 0 to MaxPressure or not at all, and never below
\* its worst axis: neither the half weight of the other axes nor the clamp
\* hides a saturation (Evaluate in score.go).
THEOREM ScoreCoversWorstAxis ==
  ASSUME NEW c, Measured(c)
  PROVE  /\ Evaluate(c) \in {Unscored} \cup 0 .. MaxPressure
         /\ c.covered => \A axis \in DOMAIN c.terms : Penalty(c)[axis] <= Evaluate(c)
<1>1. CASE c.covered /\ DOMAIN c.terms # {}
  <2> HIDE DEF Evaluate
  <2> QED
    BY <1>1, CompoundScore
<1>2. CASE ~(c.covered /\ DOMAIN c.terms # {})
  <2>1. ~c.covered \/ DOMAIN c.terms = {}
    BY <1>2
  <2>2. Evaluate(c) = Unscored
    BY <2>1 DEF Evaluate
  <2> QED
    BY <2>1, <2>2
<1> QED
  BY <1>1, <1>2

-----------------------------------------------------------------------------
(* The verdict of a window. *)

\* The days of a window that score at least p.
AtLeast(pressure, p) == {d \in DOMAIN pressure : pressure[d] >= p}

LEMMA WorseDays ==
  ASSUME NEW before, NEW after, DOMAIN before = DOMAIN after, IsFiniteSet(DOMAIN after),
         \A d \in DOMAIN after :
           /\ before[d] \in Int /\ after[d] \in Int
           /\ before[d] <= after[d],
         NEW p \in Int
  PROVE  /\ Cardinality(AtLeast(before, p)) \in Nat
         /\ Cardinality(AtLeast(after, p)) \in Nat
         /\ Cardinality(AtLeast(before, p)) <= Cardinality(AtLeast(after, p))
<1>1. AtLeast(before, p) \subseteq AtLeast(after, p)
  BY DEF AtLeast
<1>2. AtLeast(after, p) \subseteq DOMAIN after
  BY DEF AtLeast
<1>3. IsFiniteSet(AtLeast(after, p)) /\ IsFiniteSet(AtLeast(before, p))
  BY <1>1, <1>2, FS_Subset
<1> QED
  BY <1>1, <1>3, FS_Subset, FS_CardinalityType

\* The order in which a verdict's cases are tried.
LEMMA VerdictCases ==
  ASSUME NEW pressure, NEW previous,
         NEW present, present = Cardinality(AtLeast(pressure, 0)),
         NEW bad, bad = Cardinality(AtLeast(pressure, UndersizedPressure)),
         NEW risky, risky = Cardinality(AtLeast(pressure, AtRiskPressure))
  PROVE  EvaluateVerdict(pressure, previous) =
           IF present < MinDaysPresent THEN "insufficient_data"
           ELSE IF \/ bad >= UndersizedDays
                   \/ previous = "undersized" /\ bad > HysteresisBadDays THEN "undersized"
           ELSE IF risky >= AtRiskDays THEN "at_risk"
           ELSE "ok"
<1> QED
  BY DEF EvaluateVerdict, AtLeast

\* Days that get worse never relax a verdict, whatever it was before: the
\* hysteresis and the two thresholds cannot make a worse window look better
\* (EvaluateVerdict in score.go).
THEOREM WorseDaysNeverRelaxVerdict ==
  ASSUME NEW before, NEW after, NEW previous,
         DOMAIN before = DOMAIN after, IsFiniteSet(DOMAIN after),
         \A d \in DOMAIN after :
           /\ before[d] \in {Unscored} \cup 0 .. MaxPressure
           /\ after[d] \in {Unscored} \cup 0 .. MaxPressure
           /\ before[d] <= after[d]
           /\ before[d] = Unscored <=> after[d] = Unscored
  PROVE  LET was == EvaluateVerdict(before, previous)
             is == EvaluateVerdict(after, previous)
         IN /\ was = "insufficient_data" <=> is = "insufficient_data"
            /\ was = "undersized" => is = "undersized"
            /\ was = "at_risk" => is \in {"at_risk", "undersized"}
<1> DEFINE count(f, p) == Cardinality(AtLeast(f, p))
<1>1. \A d \in DOMAIN after :
        /\ before[d] \in Int /\ after[d] \in Int /\ before[d] <= after[d]
        /\ before[d] >= 0 <=> after[d] >= 0
  BY DEF Unscored, MaxPressure
<1>2. \A p \in Int : /\ count(before, p) \in Nat /\ count(after, p) \in Nat
                     /\ count(before, p) <= count(after, p)
  BY <1>1, WorseDays
<1>3. AtLeast(before, 0) = AtLeast(after, 0)
  BY <1>1 DEF AtLeast
<1> DEFINE present == count(after, 0)
           bad == count(before, UndersizedPressure)
           worse == count(after, UndersizedPressure)
           risky == count(before, AtRiskPressure)
           riskier == count(after, AtRiskPressure)
<1>4. /\ bad \in Nat /\ worse \in Nat /\ bad <= worse
      /\ risky \in Nat /\ riskier \in Nat /\ risky <= riskier
  BY <1>2 DEF UndersizedPressure, AtRiskPressure
<1>5. EvaluateVerdict(before, previous) =
        IF present < MinDaysPresent THEN "insufficient_data"
        ELSE IF \/ bad >= UndersizedDays
                \/ previous = "undersized" /\ bad > HysteresisBadDays THEN "undersized"
        ELSE IF risky >= AtRiskDays THEN "at_risk"
        ELSE "ok"
  BY <1>3, VerdictCases
<1>6. EvaluateVerdict(after, previous) =
        IF present < MinDaysPresent THEN "insufficient_data"
        ELSE IF \/ worse >= UndersizedDays
                \/ previous = "undersized" /\ worse > HysteresisBadDays THEN "undersized"
        ELSE IF riskier >= AtRiskDays THEN "at_risk"
        ELSE "ok"
  BY VerdictCases
<1>7. /\ bad >= UndersizedDays => worse >= UndersizedDays
      /\ bad > HysteresisBadDays => worse > HysteresisBadDays
      /\ risky >= AtRiskDays => riskier >= AtRiskDays
  <2> HIDE DEF bad, worse, risky, riskier
  <2> QED
    BY <1>4, VerdictAssumption
<1> HIDE DEF present, bad, worse, risky, riskier
<1> QED
  BY <1>5, <1>6, <1>7

-----------------------------------------------------------------------------
(* Types. *)

Score == {Unscored} \cup 0 .. MaxPressure

\* Rows and batches are scored by the formula; no score is of a later
\* definition than the binary's.
Scored ==
  /\ version \in Version
  /\ \A x \in Stored :
       /\ daily[x].content \in Content
       /\ daily[x].pressure \in Score
       /\ daily[x].version \in Version /\ daily[x].version <= version
  /\ \A x \in DOMAIN pass.batch : pass.batch[x] \in Score

\* The tables of the nodes and of the cohorts, and what a pass remembers.
Kept ==
  /\ hw = [n \in Node |-> hw[n]]
  /\ \A n \in Node : hw[n].changedAt \in Int /\ hw[n].changedAt <= today
  /\ verdict \in [Node -> Verdicts]
  /\ cohorts \subseteq CohortKey
  /\ \A n \in Node, m \in Months : monthly[n][m] \in Nat
  /\ pass.day \in Int /\ pass.day <= today
  /\ lost \cap Stored = {}

LEMMA ContentScores == \A c \in Content : Evaluate(c) \in Score
<1> QED
  BY ContentAssumption, ScoreCoversWorstAxis DEF Score

\* Only the beginning of a pass computes scores to be written.
LEMMA PassKeepsBatch ==
  ASSUME Base, Judge \/ PublishCohorts \/ DeleteStaleCohorts \/ RollupMonth \/ StepFails
  PROVE  pass'.batch = pass.batch \/ pass'.batch = << >>
<1>1. CASE Judge
  <2> DEFINE members == Countable
  <2>1. pass' = [pass EXCEPT !.pc = "publish", !.late = {}, !.counted = members]
    BY <1>1 DEF Judge
  <2> HIDE DEF members
  <2> QED
    BY <2>1 DEF Base, Shaped
<1>2. CASE PublishCohorts
  <2> DEFINE keys == Publishable
             read == [n \in pass.counted |-> Workloads(n)]
  <2>1. pass' = [pass EXCEPT !.pc = "expire", !.published = keys, !.families = read]
    BY <1>2 DEF PublishCohorts
  <2> HIDE DEF keys, read
  <2> QED
    BY <2>1 DEF Base, Shaped
<1>3. CASE DeleteStaleCohorts
  <2> DEFINE first == Min(Touched)
  <2>1. pass' = [pass EXCEPT !.pc = "rollup", !.published = {}, !.month = first]
    BY <1>3 DEF DeleteStaleCohorts
  <2> HIDE DEF first
  <2> QED
    BY <2>1 DEF Base, Shaped
<1>4. CASE RollupMonth
  <2> DEFINE next == Min({o \in Touched : o > pass.month})
  <2>1. \/ pass' = [pass EXCEPT !.pc = "prune", !.month = -1]
        \/ pass' = [pass EXCEPT !.month = next]
    BY <1>4 DEF RollupMonth
  <2> HIDE DEF next
  <2> QED
    BY <2>1 DEF Base, Shaped
<1>5. CASE StepFails
  BY <1>5 DEF StepFails, NoPass
<1> QED
  BY <1>1, <1>2, <1>3, <1>4, <1>5

LEMMA ScoredStep == Base /\ Scored /\ [Next]_vars => Scored'
<1> SUFFICES ASSUME Base, Scored, [Next]_vars PROVE Scored'
  OBVIOUS
<1>1. ASSUME NEW n \in Node, NEW d \in Day, NEW c \in Content, Report(n, d, c)
      PROVE  Scored'
  <2>1. /\ Stored' = Stored \cup {<<n, d>>}
        /\ \A x \in Stored \ {<<n, d>>} : daily'[x] = daily[x]
        /\ pass'.batch = pass.batch /\ version' = version
    BY <1>1, ReportEffect DEF Report
  <2>2. daily'[<<n, d>>] = [content |-> c, pressure |-> Evaluate(c), version |-> version]
    BY <1>1 DEF Report, StoreDay
  <2>3. /\ daily'[<<n, d>>].content \in Content
        /\ daily'[<<n, d>>].pressure \in Score
        /\ daily'[<<n, d>>].version = version
    BY <2>2, ContentScores
  <2>4. version <= version
    BY BoundsAssumption DEF Scored, Version
  <2> QED
    BY <2>1, <2>3, <2>4 DEF Scored
<1>2. CASE BeginPass
  <2>1. daily' = daily /\ version' = version /\ Stored' = Stored
    BY <1>2 DEF BeginPass, tables, Stored
  <2> DEFINE first == IF StaleBatch = {} THEN "judge" ELSE "rescore"
             scores == [x \in StaleBatch |-> Evaluate(daily[x].content)]
  <2>2. pass' = [NoPass EXCEPT !.pc = first, !.day = today, !.batch = scores]
    BY <1>2 DEF BeginPass
  <2>3. pass'.batch = scores
    <3> HIDE DEF first, scores
    <3> QED
      BY <2>2 DEF NoPass
  <2>4. \A x \in DOMAIN scores : scores[x] \in Score
    BY ContentScores DEF Scored, StaleBatch, Stale
  <2> HIDE DEF scores
  <2> QED
    BY <2>1, <2>3, <2>4 DEF Scored
<1>3. CASE Rescore
  <2>1. /\ Stored' = Stored /\ version' = version /\ pass'.batch = << >>
        /\ daily' = [x \in Stored |->
             IF x \in DOMAIN pass.batch
             THEN [daily[x] EXCEPT !.pressure = pass.batch[x], !.version = version]
             ELSE daily[x]]
    BY <1>3, RescoreEffect DEF Rescore, Base, Shaped
  <2>2. ASSUME NEW x \in Stored
        PROVE  /\ daily'[x].content \in Content
               /\ daily'[x].pressure \in Score
               /\ daily'[x].version \in Version /\ daily'[x].version <= version
    <3>1. CASE x \in DOMAIN pass.batch
      <4> DEFINE score == pass.batch[x]
                 old == daily[x]
      <4>1. daily'[x] = [old EXCEPT !.pressure = score, !.version = version]
        BY <2>1, <3>1
      <4>2. old = [content |-> old.content, pressure |-> old.pressure, version |-> old.version]
        BY DEF Base, Rows
      <4>3. score \in Score /\ old.content \in Content /\ version \in Version
        BY <3>1 DEF Scored
      <4>4. version <= version
        BY BoundsAssumption DEF Scored, Version
      <4> HIDE DEF score, old
      <4> QED
        BY <4>1, <4>2, <4>3, <4>4
    <3>2. CASE x \notin DOMAIN pass.batch
      BY <2>1, <3>2 DEF Scored
    <3> QED
      BY <3>1, <3>2
  <2>3. Stored' = Stored /\ version' = version /\ pass'.batch = << >>
    BY <2>1
  <2> QED
    BY <2>2, <2>3 DEF Scored
<1>4. CASE PruneDaily
  <2>1. /\ Stored' \subseteq Stored /\ \A x \in Stored' : daily'[x] = daily[x]
        /\ version' = version /\ pass' = NoPass
    BY <1>4 DEF PruneDaily, Stored
  <2>2. pass'.batch = << >>
    BY <2>1 DEF NoPass
  <2> QED
    BY <2>1, <2>2 DEF Scored
<1>5. CASE Restart
  <2>1. /\ daily' = daily /\ Stored' = Stored /\ pass' = NoPass
        /\ version' \in Version /\ version' \in {version, version + 1}
    BY <1>5 DEF Restart, tables, Stored
  <2>2. version \in Int /\ \A v \in Version : v \in Int
    BY BoundsAssumption DEF Scored, Version
  <2>3. \A v \in Version : v <= version => v <= version'
    BY <2>1, <2>2
  <2>4. pass'.batch = << >>
    BY <2>1 DEF NoPass
  <2>5. \A x \in Stored' :
          /\ daily'[x].content \in Content
          /\ daily'[x].pressure \in Score
          /\ daily'[x].version \in Version /\ daily'[x].version <= version'
    BY <2>1, <2>3 DEF Scored
  <2>6. \A x \in DOMAIN pass'.batch : pass'.batch[x] \in Score
    BY <2>4
  <2>7. version' \in Version
    BY <2>1
  <2> QED
    BY <2>5, <2>6, <2>7 DEF Scored
<1>6. CASE Judge \/ PublishCohorts \/ DeleteStaleCohorts \/ RollupMonth \/ StepFails
  <2>1. daily' = daily /\ Stored' = Stored /\ version' = version
    BY <1>6 DEF Judge, PublishCohorts, DeleteStaleCohorts, RollupMonth, StepFails, tables, Stored
  <2>2. pass'.batch = pass.batch \/ pass'.batch = << >>
    BY <1>6, PassKeepsBatch
  <2> QED
    BY <2>1, <2>2 DEF Scored
<1>7. CASE NextDay \/ UNCHANGED vars
  BY <1>7 DEF NextDay, vars, tables, ghosts, Scored, Stored
<1> QED
  BY <1>1, <1>2, <1>3, <1>4, <1>5, <1>6, <1>7 DEF Next, Pass

\* What a report makes of the node's hardware.
LEMMA ReportKeepsHardware ==
  ASSUME Base, Kept, NEW n \in Node, NEW d \in Day, NEW c \in Content, Report(n, d, c)
  PROVE  /\ hw' = [o \in Node |-> hw'[o]]
         /\ \A o \in Node : hw'[o].changedAt \in Int /\ hw'[o].changedAt <= today
<1> DEFINE at == IF hw[n].known /\ hw[n].hardware # c.hardware /\ c.hardware # NoHardware
                 THEN today ELSE hw[n].changedAt
           row == [hardware |-> c.hardware, known |-> TRUE, changedAt |-> at]
<1>1. hw' = [hw EXCEPT ![n] = row]
  BY DEF Report, UpsertNode
<1>2. at \in Int /\ at <= today
  BY TimesAreIntegers DEF Kept
<1>3. row.changedAt = at
  OBVIOUS
<1> HIDE DEF row, at
<1> QED
  BY <1>1, <1>2, <1>3 DEF Kept

LEMMA RollupCounts ==
  ASSUME Base, History, Kept, RollupMonth, NEW n \in Node, NEW m \in Months
  PROVE  monthly'[n][m] \in Nat
<1> DEFINE month == pass.month
           count == IF DaysOf(n, month) = {} THEN monthly[n][month]
                    ELSE Cardinality(DaysOf(n, month))
<1>1. month \in Months /\ monthly[n] = [o \in Months |-> monthly[n][o]]
  BY TouchedMonths DEF RollupMonth, History, Tabled
<1>2. Cardinality(DaysOf(n, month)) \in Nat
  <2>1. DaysOf(n, month) \subseteq NodeDay
    BY DEF DaysOf, Base, Rows
  <2> QED
    BY <2>1, NodeDaysFinite, FS_Subset, FS_CardinalityType
<1>3. count \in Nat /\ monthly[n][m] \in Nat
  BY <1>1, <1>2 DEF Kept
<1>4. monthly'[n] = [monthly[n] EXCEPT ![month] = count]
  BY DEF RollupMonth
<1> HIDE DEF count, month
<1>5. monthly'[n][m] = IF m = month THEN count ELSE monthly[n][m]
  BY <1>1, <1>4
<1> QED
  BY <1>3, <1>5

LEMMA KeptStep == Base /\ History /\ Kept /\ [Next]_vars => Kept'
<1> SUFFICES ASSUME Base, History, Kept, [Next]_vars PROVE Kept'
  OBVIOUS
<1>0. today \in Int /\ rolled \in Int /\ today <= today
  BY TimesAreIntegers
<1>1. ASSUME NEW n \in Node, NEW d \in Day, NEW c \in Content, Report(n, d, c)
      PROVE  Kept'
  <2>1. /\ Stored' = Stored \cup {<<n, d>>} /\ pass'.day = pass.day
        /\ today' = today /\ lost' = lost /\ verdict' = verdict /\ cohorts' = cohorts
        /\ monthly' = monthly
    BY <1>1, ReportEffect DEF Report
  <2>2. <<n, d>> \notin lost
    <3>1. d >= today - MaxDayAge /\ rolled <= today
      BY <1>1 DEF Report, Reportable, Base, Times
    <3>2. \A x \in lost : x[2] < rolled - Retention /\ x[2] \in Int
      BY TimesAreIntegers DEF Base, Times
    <3>3. MaxDayAge \in Nat /\ Retention \in Nat /\ MaxDayAge <= Retention /\ d \in Int
      <4>1. /\ MaxDayAge \in Nat /\ MaxOutage \in Nat /\ Retention \in Nat
            /\ MonthlyRollupDays \in Nat /\ d \in Int
            /\ MonthlyRollupDays <= Retention /\ MaxDayAge + MaxOutage <= MonthlyRollupDays
        BY TimesAreIntegers
      <4> QED
        BY <4>1
    <3>4. ~(d < rolled - Retention)
      BY <1>0, <3>1, <3>3
    <3> QED
      BY <3>2, <3>4
  <2>3. /\ hw' = [o \in Node |-> hw'[o]]
        /\ \A o \in Node : hw'[o].changedAt \in Int /\ hw'[o].changedAt <= today
    BY <1>1, ReportKeepsHardware
  <2> QED
    BY <2>1, <2>2, <2>3 DEF Kept
<1>2. CASE BeginPass
  <2>1. /\ pass'.day = today /\ today' = today /\ lost' = lost /\ verdict' = verdict
        /\ cohorts' = cohorts /\ monthly' = monthly /\ hw' = hw /\ Stored' = Stored
    BY <1>2, PassEffect DEF BeginPass, tables, ghosts, Stored
  <2> QED
    BY <1>0, <2>1 DEF Kept
<1>3. CASE Rescore
  <2>1. /\ pass'.day = pass.day /\ today' = today /\ lost' = lost /\ verdict' = verdict
        /\ cohorts' = cohorts /\ monthly' = monthly /\ hw' = hw /\ Stored' = Stored
    BY <1>3, PassEffect, RescoreEffect DEF Rescore, ghosts
  <2> QED
    BY <2>1 DEF Kept
<1>4. CASE Judge
  <2>1. /\ pass'.day = pass.day /\ today' = today /\ lost' = lost
        /\ cohorts' = cohorts /\ monthly' = monthly /\ hw' = hw /\ Stored' = Stored
    BY <1>4, PassEffect DEF Judge, ghosts, Stored
  <2>2. verdict' = [n \in Node |-> Judged(n)]
    BY <1>4 DEF Judge
  <2>3. \A n \in Node : Judged(n) \in Verdicts
    BY DEF Judged, EvaluateVerdict, Verdicts, Kept
  <2>4. verdict' \in [Node -> Verdicts]
    BY <2>2, <2>3
  <2> QED
    BY <2>1, <2>4 DEF Kept
<1>5. CASE PublishCohorts
  <2>1. /\ pass'.day = pass.day /\ today' = today /\ lost' = lost /\ verdict' = verdict
        /\ cohorts' = cohorts \cup Publishable
        /\ monthly' = monthly /\ hw' = hw /\ Stored' = Stored
    BY <1>5, PassEffect DEF PublishCohorts, ghosts, Stored
  <2>2. Publishable \subseteq CohortKey
    BY DEF Publishable
  <2> QED
    BY <2>1, <2>2 DEF Kept
<1>6. CASE DeleteStaleCohorts
  <2>1. /\ pass'.day = pass.day /\ today' = today /\ lost' = lost /\ verdict' = verdict
        /\ cohorts' \subseteq cohorts
        /\ monthly' = monthly /\ hw' = hw /\ Stored' = Stored
    BY <1>6, PassEffect DEF DeleteStaleCohorts, ghosts, Stored
  <2> QED
    BY <2>1 DEF Kept
<1>7. CASE RollupMonth
  <2>1. /\ pass'.day = pass.day /\ today' = today /\ lost' = lost /\ verdict' = verdict
        /\ cohorts' = cohorts /\ hw' = hw /\ Stored' = Stored
    BY <1>7, PassEffect DEF RollupMonth, Stored
  <2>2. ASSUME NEW n \in Node, NEW m \in Months PROVE monthly'[n][m] \in Nat
    BY <1>7, RollupCounts
  <2> QED
    BY <2>1, <2>2 DEF Kept
<1>8. CASE PruneDaily
  <2>1. /\ today' = today /\ verdict' = verdict /\ pass' = NoPass
        /\ cohorts' = cohorts /\ monthly' = monthly /\ hw' = hw
    BY <1>8 DEF PruneDaily
  <2>2. lost' \cap Stored' = {}
    <3>1. /\ Stored' = {x \in Stored : x[2] >= rolled - Retention}
          /\ lost' = lost \cup {x \in Stored : x[2] < rolled - Retention}
      BY <1>8, PruneEffect
    <3>2. rolled - Retention \in Int /\ \A x \in Stored : x[2] \in Int
      BY TimesAreIntegers
    <3>3. \A x \in Stored : ~(x[2] >= rolled - Retention /\ x[2] < rolled - Retention)
      BY <3>2
    <3> QED
      BY <3>1, <3>3 DEF Kept
  <2>3. -1 \in Int /\ -1 <= today
    BY DEF Base, Times, Day
  <2> QED
    BY <2>1, <2>2, <2>3 DEF Kept, NoPass
<1>9. CASE StepFails \/ Restart
  <2>1. /\ today' = today /\ verdict' = verdict /\ pass' = NoPass
        /\ cohorts' = cohorts /\ monthly' = monthly /\ hw' = hw
        /\ lost' = lost /\ Stored' = Stored
    BY <1>9 DEF StepFails, Restart, tables, ghosts, Stored
  <2>2. -1 \in Int /\ -1 <= today
    BY DEF Base, Times, Day
  <2> QED
    BY <2>1, <2>2 DEF Kept, NoPass
<1>10. CASE NextDay
  <2>1. /\ today' = today + 1 /\ verdict' = verdict /\ pass' = pass
        /\ cohorts' = cohorts /\ monthly' = monthly /\ hw' = hw
        /\ lost' = lost /\ Stored' = Stored
    BY <1>10 DEF NextDay, tables, ghosts, Stored
  <2>2. \A i \in Int : i <= today => i <= today'
    BY <1>0, <2>1
  <2> QED
    BY <2>1, <2>2 DEF Kept
<1>11. CASE UNCHANGED vars
  BY <1>11 DEF vars, tables, ghosts, Kept, Stored
<1> QED
  BY <1>1, <1>2, <1>3, <1>4, <1>5, <1>6, <1>7, <1>8, <1>9, <1>10, <1>11 DEF Next, Pass

LEMMA TypedInit == Init => Scored /\ Kept
<1> SUFFICES ASSUME Init PROVE Scored /\ Kept
  OBVIOUS
<1>1. Stored = {} /\ pass.batch = << >> /\ pass.day = -1 /\ today = 1 /\ version = 1
  BY DEF Init, Stored, NoPass
<1>2. 1 \in Version
  BY BoundsAssumption DEF Version
<1>3. Scored
  BY <1>1, <1>2 DEF Scored
<1>4. \A n \in Node : hw[n].changedAt = -1
  BY DEF Init, Unknown
<1>5. verdict \in [Node -> Verdicts]
  BY DEF Init, Verdicts
<1> QED
  BY <1>1, <1>3, <1>4, <1>5 DEF Init, Kept

LEMMA TypedImplies == Base /\ Scored /\ Kept => TypeOK
<1> SUFFICES ASSUME Base, Scored, Kept PROVE TypeOK
  OBVIOUS
<1>1. ASSUME NEW x \in Stored PROVE daily[x] \in Row /\ daily[x].version <= version
  <2>1. daily[x] = [content |-> daily[x].content, pressure |-> daily[x].pressure,
                    version |-> daily[x].version]
    BY DEF Base, Rows
  <2>2. /\ daily[x].content \in Content /\ daily[x].pressure \in Score
        /\ daily[x].version \in Version /\ daily[x].version <= version
    BY DEF Scored
  <2> QED
    BY <2>1, <2>2 DEF Row, Score
<1> QED
  BY <1>1 DEF Base, Rows, Times, Scored, Kept, TypeOK

\* What is stored is scored from 0 to MaxPressure or not at all and by no later
\* definition than the binary's, and a pruned day does not come back as a late
\* report (Evaluate, UpsertSizingDays, PruneSizingDaily).
THEOREM TypeCorrect == Spec => []TypeOK
<1> QED
  BY BaseHolds, BaseStep, HistoryInit, HistoryStep, TypedInit, ScoredStep, KeptStep,
     TypedImplies, PTL DEF Spec
=============================================================================
