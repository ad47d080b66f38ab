------------------------------ MODULE Analyzer ------------------------------
(***************************************************************************)
(* internal/analyzer with internal/budget and internal/store/logs: the     *)
(* handler a queue worker runs on a bundle (Process), as the sequence of   *)
(* store transactions, budget reads and the LLM call it is made of.        *)
(* Workers interleave between any two of them, and any of them may fail.   *)
(*                                                                         *)
(* What the queue guarantees is in Begin's guard: no two workers process   *)
(* the same window at once.                                                *)
(***************************************************************************)
EXTENDS LogStore, Sequences

CONSTANTS
  System, Window, Worker,
  SystemOf,       \* SystemOf[w]: the system that sent window w
  Start,          \* Start[w]: when the window opens; it lasts one tick
  Lines,          \* Lines[w]: the templates the window carries
  Family,         \* Family[t]: the module family of a template
  Rank,           \* Rank[t]: its place in model.LessTemplate order
  MaxConcurrency, \* LLM_MAX_CONCURRENCY
  SystemCap,      \* LLM_MAX_CALLS_PER_SYSTEM_PER_DAY, 0 when off
  SpendCap,       \* LLM_DAILY_SPEND_CAP_USD in paid answers, 0 when off
  StaleAfter,     \* STALE_AFTER, in ticks
  RunTimeout,     \* ANALYSIS_TIMEOUT, in ticks
  DayLength,      \* ticks in a UTC day
  MaxFindings,    \* bound: findings in one answer
  MaxClock,       \* bound: last tick
  MaxRuns,        \* bound: runs of Process on one system
  MaxFaults,      \* bound: store errors and process crashes
  NoWindow,       \* what a worker outside Process works on
  NoClass         \* no class chosen

(* The classes findings fall into: fingerprint.Class over the chosen line,   *)
(* the families of the cited lines and whether any is security-classified.   *)

ClassOf(t, cited) ==
  [primary |-> t,
   families |-> {Family[u] : u \in cited},
   security |-> cited \cap Security # {}]

ClassKey == UNION {{ClassOf(t, cited) : t \in cited} : cited \in SUBSET Template}

ASSUME WindowsAssumption ==
  /\ SystemOf \in [Window -> System]
  /\ Start \in [Window -> Nat]
  /\ Lines \in [Window -> SUBSET Template]
ASSUME WorkersAssumption == IsFiniteSet(Worker)
ASSUME TemplatesAssumption ==
  /\ Rank \in [Template -> Nat]
  /\ \A t, u \in Template : Rank[t] = Rank[u] => t = u
ASSUME LimitsAssumption ==
  /\ MaxConcurrency \in Nat \ {0}
  /\ SystemCap \in Nat
  /\ SpendCap \in Nat
  /\ DayLength \in Nat \ {0}
ASSUME TimeoutAssumption ==
  /\ StaleAfter \in Nat
  /\ RunTimeout \in Nat
  /\ 2 * RunTimeout <= StaleAfter
ASSUME NothingAssumption == NoWindow \notin Window /\ NoClass \notin ClassKey
ASSUME BoundsAssumption ==
  /\ MaxFindings \in Nat
  /\ MaxClock \in Nat
  /\ MaxRuns \in Nat
  /\ MaxFaults \in Nat

VARIABLES
  clock,        \* the current tick
  templates,    \* system_templates: templates[s][t] is t's last_seen for s
  analyses,     \* analyses: the ledger row of each window
  findings,     \* findings: findings[s][c], class c's finding on system s
  classes,      \* finding_classes: last_seen of each class, or Never
  slots,        \* Controller.sem: the call slots taken
  run,          \* run[k]: where worker k is in Process
  faults,       \* ghost: store errors and crashes so far (bounded)
  runs,         \* ghost: runs[s], how often Process began on s (bounded)
  vetted,       \* ghost: the <<s, t>> sent in a window that was analysed to
                \*        the end or suppressed by the budget
  heard,        \* ghost: heard[s][c], when the runs began that saw the finding
  overlapped    \* ghost: the systems that have had two runs at once

store == <<templates, analyses, findings, classes>>
ghosts == <<vetted, heard, overlapped>>
vars == <<clock, store, slots, run, faults, runs, ghosts>>

-----------------------------------------------------------------------------
\* chooseEvidenceKey: the first cited line that is already the primary of a
\* stored class, else the first cited line.
ChosenClass(cited, stored) ==
  LET joinable == {t \in cited : stored[ClassOf(t, cited)] # Never}
      pool == IF joinable = {} THEN cited ELSE joinable
  IN  ClassOf(CHOOSE t \in pool : \A u \in pool : Rank[t] <= Rank[u], cited)

\* What a parsed answer may cite: the resolved evidence is never empty.
Citation(w) == (SUBSET Lines[w]) \ {{}}

Answer(w) == UNION {[1..n -> Citation(w)] : n \in 0..MaxFindings}

-----------------------------------------------------------------------------
(* A worker's place in Process, named for the step it does next. *)

Step == {"idle", "refresh", "known", "cap", "spend", "open", "acquire",
         "llm", "attempt", "close", "choose", "upsert",
         "templates", "stale", "finalize"}

\* at, day and recAt: the now of Process, the dayStart of Check and the now of
\* record; todo: the citations of the answer not yet stored; class: the chosen
\* class of the first of them; outcome: what the run will write to the ledger.
NotRunning ==
  [pc |-> "idle", w |-> NoWindow, at |-> 0, day |-> 0, recAt |-> 0, novel |-> {},
   todo |-> <<>>, class |-> NoClass, outcome |-> "none"]

Active(k) == run[k].pc # "idle"
Owner(k) == SystemOf[run[k].w]
RunLines(k) == Lines[run[k].w]

\* The run's context has not passed its deadline.
Alive(k) == clock - run[k].at <= RunTimeout

At(k, pc) == run[k].pc = pc

DayOf(tick) == tick \div DayLength
DayStart == DayOf(clock) * DayLength

\* Mutation of SystemCallsSince: successes are counted, not attempts.
SystemSuccessesSince(s, since) ==
  Cardinality({w \in Window : /\ SystemOf[w] = s
                              /\ analyses[w].present
                              /\ analyses[w].created >= since
                              /\ analyses[w].cost > 0})

\* Budget: both limits are read off the ledger.
SystemCallsSince(s, since) ==
  Cardinality({w \in Window : /\ SystemOf[w] = s
                              /\ analyses[w].present
                              /\ analyses[w].created >= since
                              /\ analyses[w].called})

\* Mutation of DailySpend: what was created at midnight is left out.
DailySpendAfter(since) ==
  Cardinality({w \in Window : /\ analyses[w].present
                              /\ analyses[w].created > since
                              /\ analyses[w].cost > 0})

\* Every paid answer costs one unit.
DailySpend(since) ==
  Cardinality({w \in Window : /\ analyses[w].present
                              /\ analyses[w].created >= since
                              /\ analyses[w].cost > 0})

-----------------------------------------------------------------------------
Init ==
  /\ clock = 0
  /\ templates = [s \in System |-> [t \in Template |-> Never]]
  /\ analyses = [w \in Window |-> NoAnalysis]
  /\ findings = [s \in System |-> [c \in ClassKey |-> NoFinding]]
  /\ classes = [c \in ClassKey |-> Never]
  /\ slots = 0
  /\ run = [k \in Worker |-> NotRunning]
  /\ faults = 0
  /\ runs = [s \in System |-> 0]
  /\ vetted = {}
  /\ heard = [s \in System |-> [c \in ClassKey |-> {}]]
  /\ overlapped = {}

Goto(k, pc) == run' = [run EXCEPT ![k].pc = pc]

Return(k) == run' = [run EXCEPT ![k] = NotRunning]

-----------------------------------------------------------------------------
(* Process, step by step. *)

\* Step 1 on a window still claimable: the ledger row is created, or kept
\* with a new created_at.  On a completed one Process returns at once.
StartRun(k, w) ==
  /\ ~Active(k)
  /\ Claimable(analyses[w])
  /\ analyses' = [analyses EXCEPT ![w] = BeginAnalysis(@, clock)]
  /\ run' = [run EXCEPT ![k] =
               [NotRunning EXCEPT !.pc = "refresh", !.w = w, !.at = clock]]
  /\ runs' = [runs EXCEPT ![SystemOf[w]] = @ + 1]
  /\ overlapped' = IF \E l \in Worker : Active(l) /\ Owner(l) = SystemOf[w]
                   THEN overlapped \cup {SystemOf[w]} ELSE overlapped
  /\ UNCHANGED <<clock, templates, findings, classes, slots, faults, vetted, heard>>

\* What reaches Process: a window that has ended (handleBundles refuses the
\* others) and that no other worker holds (the queue's promise).
Begin(k, w) ==
  /\ Start[w] < clock
  /\ runs[SystemOf[w]] < MaxRuns
  /\ \A l \in Worker : run[l].w # w
  /\ StartRun(k, w)

\* Step 2: the system's findings are seen again through the window's lines.
\* (The systems and nodes rows written here are read by no step.)
Refresh(k) ==
  LET s == Owner(k)
      now == run[k].at
      Seen(c) == RefreshFinding(findings[s][c], RunLines(k), now)
      Hit(c) == findings[s][c].evidence \cap RunLines(k) # {}
  IN
  /\ At(k, "refresh") /\ Alive(k)
  /\ findings' = [findings EXCEPT ![s] = [c \in ClassKey |-> Seen(c)]]
  /\ classes' = [c \in ClassKey |->
                   IF Hit(c) /\ classes[c] # Never THEN Latest(classes[c], now)
                                                   ELSE classes[c]]
  /\ heard' = [heard EXCEPT ![s] =
                 [c \in ClassKey |-> IF Hit(c) THEN @[c] \cup {now} ELSE @[c]]]
  /\ Goto(k, "known")
  /\ UNCHANGED <<clock, templates, analyses, slots, faults, runs, vetted, overlapped>>

\* Step 3: prior state is read before any is written.  The gate's novelty is
\* a function of what is read here.
ReadKnown(k) ==
  /\ At(k, "known") /\ Alive(k)
  /\ run' = [run EXCEPT ![k].pc = "cap",
               ![k].novel = Novel(RunLines(k), templates[Owner(k)], Start[run[k].w])]
  /\ UNCHANGED <<clock, store, slots, faults, runs, ghosts>>

\* Step 4, first half: the system is at its cap; the window is recorded as
\* suppressed.
Suppress(k) ==
  /\ At(k, "cap") /\ Alive(k)
  /\ SystemCap > 0
  /\ SystemCallsSince(Owner(k), DayStart) >= SystemCap
  /\ run' = [run EXCEPT ![k].pc = "templates", ![k].outcome = "suppressed",
                        ![k].recAt = clock]
  /\ vetted' = vetted \cup {<<Owner(k), t>> : t \in RunLines(k)}
  /\ UNCHANGED <<clock, store, slots, faults, runs, heard, overlapped>>

UnderCap(k) ==
  /\ At(k, "cap") /\ Alive(k)
  /\ SystemCap > 0 => SystemCallsSince(Owner(k), DayStart) < SystemCap
  /\ run' = [run EXCEPT ![k].pc = "spend", ![k].day = DayStart]
  /\ UNCHANGED <<clock, store, slots, faults, runs, ghosts>>

\* Step 4, second half, and step 5: the spend cap narrows the gate, and the
\* gate votes.  Check took its dayStart before the first half.
SecurityOnly(k) == SpendCap > 0 /\ DailySpend(run[k].day) >= SpendCap

GateIn(k) ==
  /\ At(k, "spend") /\ Alive(k)
  /\ Call(run[k].novel, SecurityOnly(k))
  /\ Goto(k, "open")
  /\ UNCHANGED <<clock, store, slots, faults, runs, ghosts>>

\* Step 6: no call.
GateOut(k) ==
  /\ At(k, "spend") /\ Alive(k)
  /\ ~Call(run[k].novel, SecurityOnly(k))
  /\ run' = [run EXCEPT ![k].pc = "templates", ![k].outcome = "gated_out",
                        ![k].recAt = clock]
  /\ UNCHANGED <<clock, store, slots, faults, runs, ghosts>>

\* Step 7: the open findings are read for the prompt's ALREADY KNOWN list.
OpenFindings(k) ==
  /\ At(k, "open") /\ Alive(k)
  /\ Goto(k, "acquire")
  /\ UNCHANGED <<clock, store, slots, faults, runs, ghosts>>

\* Mutation of Acquire: no slot is waited for.
AcquireAtOnce(k) ==
  /\ At(k, "acquire") /\ Alive(k)
  /\ slots' = slots + 1
  /\ Goto(k, "llm")
  /\ UNCHANGED <<clock, store, faults, runs, ghosts>>

\* The call starts as soon as there is a slot.
Acquire(k) ==
  /\ At(k, "acquire") /\ Alive(k)
  /\ slots < MaxConcurrency
  /\ slots' = slots + 1
  /\ Goto(k, "llm")
  /\ UNCHANGED <<clock, store, faults, runs, ghosts>>

\* Mutation of EndCall: the slot is not released.
EndCallLeaks(k) ==
  /\ At(k, "llm")
  /\ UNCHANGED <<clock, store, slots, faults, runs, ghosts>>

\* The call ends, whichever way, and the slot is released at once.
EndCall(k) ==
  /\ At(k, "llm")
  /\ slots' = slots - 1
  /\ UNCHANGED <<clock, store, faults, runs, ghosts>>

\* The provider fails, times out, or the run's deadline cuts the call short.
CallFails(k) ==
  /\ EndCall(k)
  /\ Goto(k, "attempt")

\* The request itself is rejected (HTTPError.Permanent).
CallRejected(k) ==
  /\ Alive(k)
  /\ EndCall(k)
  /\ run' = [run EXCEPT ![k].pc = "close", ![k].outcome = "permanent"]

\* Step 8: an answer prompt.Parse refuses.
AnswerUnparsed(k) ==
  /\ Alive(k)
  /\ EndCall(k)
  /\ run' = [run EXCEPT ![k].pc = "close", ![k].outcome = "unparsed"]

\* Step 8: an answer with findings.
AnswerParsed(k) ==
  /\ Alive(k)
  /\ EndCall(k)
  /\ \E found \in Answer(run[k].w) :
       run' = [run EXCEPT ![k].pc = "choose", ![k].todo = found]

\* Mutation of RecordAttempt: the failed attempt records the templates too.
RecordAttemptAndTemplates(k) ==
  /\ At(k, "attempt") /\ Alive(k)
  /\ analyses' = [analyses EXCEPT ![run[k].w] = RecordAttemptError(@)]
  /\ templates' = [templates EXCEPT ![Owner(k)] =
                     [t \in Template |-> IF t \in RunLines(k)
                                         THEN Latest(@[t], Start[run[k].w])
                                         ELSE @[t]]]
  /\ Return(k)
  /\ UNCHANGED <<clock, findings, classes, slots, faults, runs, ghosts>>

\* A transient failure is recorded without completing the window.
RecordAttempt(k) ==
  /\ At(k, "attempt") /\ Alive(k)
  /\ analyses' = [analyses EXCEPT ![run[k].w] = RecordAttemptError(@)]
  /\ Return(k)
  /\ UNCHANGED <<clock, templates, findings, classes, slots, faults, runs, ghosts>>

\* A permanent failure closes the window: no template is recorded, no cost.
CloseWindow(k) ==
  /\ At(k, "close") /\ Alive(k)
  /\ analyses' = [analyses EXCEPT ![run[k].w] =
                    FinalizeAnalysis(@, run[k].outcome, TRUE, 0)]
  /\ Return(k)
  /\ UNCHANGED <<clock, templates, findings, classes, slots, faults, runs, ghosts>>

\* Step 9, per finding: the class is chosen from the classes stored now ...
ChooseEvidenceKey(k) ==
  /\ At(k, "choose") /\ Alive(k)
  /\ run[k].todo # <<>>
  /\ run' = [run EXCEPT ![k].pc = "upsert",
                        ![k].class = ChosenClass(Head(run[k].todo), classes)]
  /\ UNCHANGED <<clock, store, slots, faults, runs, ghosts>>

\* Mutation of Upsert: the loop does not advance.
UpsertAgain(k) ==
  LET s == Owner(k)
      c == run[k].class
      now == run[k].at
  IN
  /\ At(k, "upsert") /\ Alive(k)
  /\ findings' = [findings EXCEPT ![s][c] =
                    UpsertFinding(@, Head(run[k].todo), now)]
  /\ classes' = [classes EXCEPT ![c] = Latest(@, now)]
  /\ heard' = [heard EXCEPT ![s][c] = @ \cup {now}]
  /\ Goto(k, "choose")
  /\ UNCHANGED <<clock, templates, analyses, slots, faults, runs, vetted, overlapped>>

\* ... and the finding stored under it, with its class, in one transaction.
Upsert(k) ==
  LET s == Owner(k)
      c == run[k].class
      now == run[k].at
  IN
  /\ At(k, "upsert") /\ Alive(k)
  /\ findings' = [findings EXCEPT ![s][c] =
                    UpsertFinding(@, Head(run[k].todo), now)]
  /\ classes' = [classes EXCEPT ![c] = Latest(@, now)]
  /\ heard' = [heard EXCEPT ![s][c] = @ \cup {now}]
  /\ run' = [run EXCEPT ![k].pc = "choose", ![k].class = NoClass,
                        ![k].todo = Tail(@)]
  /\ UNCHANGED <<clock, templates, analyses, slots, faults, runs, vetted, overlapped>>

\* Step 10: every finding of the answer is stored; record begins.
FindingsStored(k) ==
  /\ At(k, "choose")
  /\ run[k].todo = <<>>
  /\ run' = [run EXCEPT ![k].pc = "templates", ![k].outcome = "analysed",
                        ![k].recAt = clock]
  /\ vetted' = vetted \cup {<<Owner(k), t>> : t \in RunLines(k)}
  /\ UNCHANGED <<clock, store, slots, faults, runs, heard, overlapped>>

-----------------------------------------------------------------------------
(* record: three transactions, in this order. *)

\* A line's last_seen is inside its window.
UpsertTemplates(k) ==
  LET s == Owner(k)
      start == Start[run[k].w]
  IN
  /\ At(k, "templates") /\ Alive(k)
  /\ templates' = [templates EXCEPT ![s] =
                     [t \in Template |-> IF t \in RunLines(k)
                                         THEN Latest(@[t], start) ELSE @[t]]]
  /\ Goto(k, "stale")
  /\ UNCHANGED <<clock, analyses, findings, classes, slots, faults, runs, ghosts>>

MarkStaleFindings(k) ==
  LET s == Owner(k)
      cutoff == run[k].recAt - StaleAfter
  IN
  /\ At(k, "stale") /\ Alive(k)
  /\ findings' = [findings EXCEPT ![s] =
                    [c \in ClassKey |-> MarkStale(@[c], cutoff)]]
  /\ Goto(k, "finalize")
  /\ UNCHANGED <<clock, templates, analyses, classes, slots, faults, runs, ghosts>>

Finalize(k) ==
  /\ At(k, "finalize") /\ Alive(k)
  /\ analyses' = [analyses EXCEPT ![run[k].w] =
                    FinalizeAnalysis(@, run[k].outcome,
                                     run[k].outcome = "analysed",
                                     IF run[k].outcome = "analysed" THEN 1 ELSE 0)]
  /\ Return(k)
  /\ UNCHANGED <<clock, templates, findings, classes, slots, faults, runs, ghosts>>

-----------------------------------------------------------------------------
(* What can go wrong, and time. *)

\* A store call, or the wait for a slot, fails because the run's deadline has
\* passed.  Process returns; nothing that was already written is undone.
Expire(k) ==
  /\ Active(k) /\ ~At(k, "llm")
  /\ ~Alive(k)
  /\ Return(k)
  /\ UNCHANGED <<clock, store, slots, faults, runs, ghosts>>

\* A store call fails on its own, BeginAnalysis of an idle worker included.
StoreFails(k) ==
  /\ run[k].pc \notin {"llm", "acquire"}
  /\ faults < MaxFaults
  /\ faults' = faults + 1
  /\ Return(k)
  /\ UNCHANGED <<clock, store, slots, runs, ghosts>>

\* The process dies and is started again: the store is all that is left.
Crash ==
  /\ faults < MaxFaults
  /\ faults' = faults + 1
  /\ run' = [k \in Worker |-> NotRunning]
  /\ slots' = 0
  /\ UNCHANGED <<clock, store, runs, ghosts>>

Tick ==
  /\ clock < MaxClock
  /\ clock' = clock + 1
  /\ UNCHANGED <<store, slots, run, faults, runs, ghosts>>

\* One more step of a run already begun.
Proceed(k) ==
  \/ Refresh(k)
  \/ ReadKnown(k)
  \/ Suppress(k)
  \/ UnderCap(k)
  \/ GateIn(k)
  \/ GateOut(k)
  \/ OpenFindings(k)
  \/ Acquire(k)
  \/ CallFails(k)
  \/ CallRejected(k)
  \/ AnswerUnparsed(k)
  \/ AnswerParsed(k)
  \/ RecordAttempt(k)
  \/ CloseWindow(k)
  \/ ChooseEvidenceKey(k)
  \/ Upsert(k)
  \/ FindingsStored(k)
  \/ UpsertTemplates(k)
  \/ MarkStaleFindings(k)
  \/ Finalize(k)
  \/ Expire(k)

Next ==
  \/ \E k \in Worker, w \in Window : Begin(k, w)
  \/ \E k \in Worker : Proceed(k)
  \/ \E k \in Worker : StoreFails(k)
  \/ Crash
  \/ Tick

Spec == Init /\ [][Next]_vars

\* Workers are goroutines that run when they can; the provider answers or its
\* timeout fires; slots go round.  Nothing makes a store error or a crash
\* happen.
Fairness == \A k \in Worker : WF_vars(Proceed(k))

FairSpec == Spec /\ Fairness

-----------------------------------------------------------------------------
(* Properties. *)

RunState ==
  [pc : Step, w : Window \cup {NoWindow}, at : Nat, day : Nat, recAt : Nat,
   novel : SUBSET Template, todo : Seq((SUBSET Template) \ {{}}),
   class : ClassKey \cup {NoClass}, outcome : Outcome]

TypeOK ==
  /\ clock \in 0..MaxClock
  /\ templates \in [System -> [Template -> Int]]
  /\ analyses \in [Window -> AnalysisRow]
  /\ findings \in [System -> [ClassKey -> FindingRow]]
  /\ classes \in [ClassKey -> Int]
  /\ slots \in 0..MaxConcurrency
  /\ run \in [Worker -> RunState]
  /\ \A k \in Worker : Active(k) <=> run[k].w # NoWindow
  /\ faults \in 0..MaxFaults
  /\ runs \in [System -> 0..MaxRuns]
  /\ vetted \subseteq System \X Template
  /\ heard \in [System -> [ClassKey -> SUBSET Nat]]
  /\ overlapped \subseteq System

\* A completed analysis is never touched again, by a resend of its window, a
\* retry still in flight or a late failure: the ledger bills a window once.
CompletedIsFinal ==
  [][\A w \in Window : analyses[w].completed => analyses'[w] = analyses[w]]_vars

\* A security line a system is known to have sent was in a window the model
\* analysed to the end, or in one the budget stopped: no failed call, retry,
\* crash or concurrent window makes it known unseen.  (record may run only
\* for a window gated out, suppressed or fully analysed.)
SecurityLinesVetted ==
  \A s \in System, t \in Security : templates[s][t] # Never => <<s, t>> \in vetted

\* When the prompt is rendered, every finding of the system with a line in the
\* window is open, so that it is listed to the model as already known and not
\* raised again: the refresh of this run survives every concurrent run's
\* MarkStale and Upsert.
KnownListComplete ==
  \A k \in Worker : At(k, "open") /\ Alive(k) =>
    \A c \in ClassKey :
      findings[Owner(k)][c].evidence \cap RunLines(k) # {}
        => findings[Owner(k)][c].status = "open"

\* A slot is taken exactly by each call in flight: none leaks on an error
\* path, so the pipeline cannot starve on MaxConcurrency.
SlotsMatchCalls ==
  /\ slots = Cardinality({k \in Worker : At(k, "llm")})
  /\ slots <= MaxConcurrency

\* Every run returns, even when it queues for a call slot.
RunReturns == \A k \in Worker : Active(k) ~> ~Active(k)

\* occurrence_count is the number of windows a finding was seen in, a retried
\* window counting again at most: it never exceeds the runs of Process.
WindowCountsOnce ==
  \A s \in System, c \in ClassKey : findings[s][c].count <= runs[s]

\* On a system whose runs have never overlapped, occurrence_count is exact,
\* whatever the other workers do: each run that sees a finding counts once, be
\* it by refresh, by one answer or by several, and no other run counts.  (Runs
\* that begin in the same tick are one: nothing tells them apart.)
CountIsExact ==
  \A s \in System \ overlapped, c \in ClassKey :
    findings[s][c].count = Cardinality(heard[s][c])

\* A stale finding's lines have been silent for STALE_AFTER; on a system whose
\* runs have overlapped, short of the run deadline at most, by which a late
\* answer can take last_seen back.
StaleMeansSilent ==
  \A s \in System, c \in ClassKey :
    findings[s][c].status = "stale" =>
      \A t \in heard[s][c] :
        t + StaleAfter < clock + (IF s \in overlapped THEN RunTimeout ELSE 0)

Racers == Cardinality(Worker) - 1

\* The windows of a day completed with an LLM call exceed the system's cap by
\* at most the workers that checked it at the same time.
CompletedCallsWithinCap ==
  SystemCap > 0 =>
    \A s \in System :
      Cardinality({w \in Window : /\ SystemOf[w] = s
                                  /\ analyses[w].completed
                                  /\ analyses[w].called
                                  /\ analyses[w].created >= DayStart})
        <= SystemCap + Racers

\* Once the day's recorded spend reaches the cap only security lines pay:
\* windows without one overshoot by at most the workers checking together.
SpendWithinCap ==
  SpendCap > 0 =>
    Cardinality({w \in Window : /\ Lines[w] \cap Security = {}
                                /\ analyses[w].cost > 0
                                /\ analyses[w].created >= DayStart})
      <= SpendCap + Racers
=============================================================================
