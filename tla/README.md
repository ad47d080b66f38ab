# Nethesis Insights in TLA+

A verification project for the Go services of this repository. TLC model-checks
small instances; TLAPS proves theorems for every value of the constants.

Run from this directory, for instance:

    tlc -workers 2 -config LogPipeline.cfg MCPipeline
    tlapm PipelineProofs.tla

The configurations and their modules are in section 3, the proof modules in
section 5.

## 1. The system

Four daemons, each with its own state:

| Part | State | Operations | What is hard |
|---|---|---|---|
| **insightsd** `internal/queue` | `inflight` set, channel, workers | Publish, range loop, release, Stop | claim and send are two steps; shutdown; crash |
| `internal/api/logs` | none | POST /bundles: window checks, Publish | 202 is a promise, the edge does not resend |
| `internal/analyzer` | rows of the logs store | Process, record | ~10 transactions, an LLM call in the middle, workers on the same system, retries |
| `internal/gate` | none (pure) | Evaluate | what counts as new; must never swallow a new security line |
| `internal/budget` | the call semaphore; caps read off the ledger | Check, Acquire | check-then-act over the ledger, day boundary |
| `internal/store/logs` | `analyses`, `findings`, `finding_classes`, `class_texts`, `class_groups`, `class_decisions`, `system_templates` | one transaction per method under one lock | late writes of slow runs |
| `internal/fingerprint`, `internal/prompt` | none | Class, EvidenceCandidates, Select, ResolveEvidence | identity chosen from what is stored |
| review (`classes.go`, `groups.go`, `ui/logs/review.go`) | decisions on classes and their trail | three forms, the group page | decisions posted from an old page |
| `internal/classgroup` | class groups, anchors | a pass every interval | races with prune, the analyzer, a model change |
| `internal/maint`, `prune.go` | deletes rows | prunes, in batches | the lock is released between batches |
| **authd** `internal/platform/auth` | two LRU tiers of verdicts | Validate | lookup, upstream call, store are not atomic; outage replay; eviction |
| **threatd** `internal/api/threat`, `ingestq` | channel; `threat_events` | handleEvents, Sanitize, insert | acknowledged before stored; clocks of the edge |
| `internal/blocklist` | `threat_blocklist`, snapshot | candidates, promote, expire, unlist, prune, list, generate | failure in the middle; allowlist read once |
| `internal/store/threat/allowlist.go` | exemptions, requests, reviews, audit | request, approve, reject, add, remove | decision and audit in one transaction |
| **sizingd** `internal/api/sizing`, `internal/sizing` | node days, hardware | sanitize, score, upsert | late and restated days |
| `internal/baseline`, `store/sizing` | verdicts, baselines, months | a pass | rollup before prune; stale scores and cohorts |
| UIs, httpx, metrics, env, sqlitex, llm | - | I/O | left out, but for the forms that write |

**insightsd.** A request goroutine checks a bundle and calls `Publish`; a worker
takes it and runs `Process` under `ANALYSIS_TIMEOUT`; all that `Process` knows is
in SQLite. On SIGTERM the HTTP servers are shut down (ten seconds), then `Stop`
closes the channel and waits for the workers. Beside that run the grouping and
maintenance passes and the operators' forms, all on the same store; they share
with the analyzer the findings, their classes and wordings.

**authd** answers every request for the others; **threatd** and **sizingd** have
one periodic pass each, concurrent with ingest and operators. A pass is a
sequence of store calls, each atomic under the store's lock.

## 2. Modules

| Module | Models | |
|---|---|---|
| `WindowLife` | what the queue promises about one window | abstract specification |
| `BundleQueue` | `internal/queue`, with the requests, the shutdown and the crash around it | implements `WindowLife` |
| `Gate`, `LogStore` | `internal/gate`; the statements the analyzer issues | pure operators |
| `Analyzer` | `Process`, `record`, `internal/budget`, class choice | one action per transaction, ledger read or call |
| `CallHistory` | `Analyzer` with a history of its LLM calls | for one question |
| `LogPipeline` | ingest, queue and analyzer composed | `BundleQueue` by INSTANCE; implements `Analyzer` |
| `Review` | classes, operators, grouping pass, maintenance pass | on the tables the analyzer writes |
| `LRU`, `ForwardAuth` | the two tiers of `cache.go`; `Validate` by concurrent requests | `LRU` by INSTANCE |
| `Allowlist`, `Consensus` | the allowlist's transactions; ingest, the pass and the feed | `Consensus` extends `Allowlist` |
| `SizingScore`, `Sizing` | scores and verdicts; reports and the cohort pass | `Sizing` extends `SizingScore` |
| `*Proofs`, `Extremes` | theorems | TLAPS |
| `MC*` | instances for TLC | |

**BundleQueue.** A bundle is its window (system, start), the unit of
idempotency. `Publish` is two steps because it unlocks between claiming and
sending: `PublishClaim` or `PublishDuplicate`, then `PublishSend`,
`PublishFull` or, on a channel already closed, `PublishPanic` (net/http
recovers the panic and the claim is left behind: ghost `orphaned`). A worker
is `Take`, `Release`, `Exit`. `Arrive` is the request that is still reading its
body, which is how a request outlives a shutdown. `assured` is a ghost: the
windows answered 202 as duplicates and not processed since.

**Analyzer.** `run[k]` is where worker k is in `Process`: `pc` names the next
step, in the order of the code's numbered comments. Each store method holds the
store's lock for its whole transaction, so each is one step; between two of
them any other worker may run, the store may fail (`StoreFails`), the deadline
may pass (`Expire`) or the process may die (`Crash`). The provider's four
outcomes are `CallFails`, `CallRejected`, `AnswerUnparsed`, `AnswerParsed`, the
last with any findings over the window's lines. `Check`'s two ledger reads are
two steps. `LogStore` holds what each statement does to a row, so that the
CASE expressions of the SQL can be read one by one. `vetted`, `heard`
(when the runs began that saw a finding), `overlapped` (the systems that have had
two runs at once), `runs` and `faults` are ghosts: no guard but the bounds reads
them.

**LogPipeline.** Joins `Post` (the window checks), `Queue!Publish...`,
`TakeFresh` / `TakeCompleted` / `TakeFails` (a worker's `Take` together with
what `BeginAnalysis` answers), the steps of `Analyzer` and `Release`. The
guard of `Analyzer!Begin` (window over, no other worker on it) is an
assumption of `Analyzer`; here it is a consequence (`AnalyzerSpec`).

**Review.** `classes`, `texts` and `groups` are tables: functions whose domain
is the rows there are, so that pruned and re-created rows differ from rows that
stayed. The analyzer appears as the transactions that touch them (`Upsert`,
`Refresh`, `MarkStale`), in any order and for any class. `page` is a group page
as it was rendered; `DecideGroup` posts it at any later time, also twice.
`DecideBulk` and `DecideClass` are the other two forms, the last with the whole
state of its dialog. `grouper` holds what the grouping pass read at its start
(model, batch, anchors); `EmbedClass` writes one class. `pruner` is where the
maintenance pass is; it deletes one row at a time, which is the finest
interleaving its batches allow. `of` in a group row is a ghost: the model that
really made the vector.

**ForwardAuth.** A request is `Hit`, or `Miss`, then `Judge` or `Unreachable`,
then `Store` or `Fallback`; others run in between, the validator changes its
mind (`ChangeMind`), authd restarts. A tier of `LRU` keeps each key's place in
the list, 1 the most recent, which is what `Evict` looks at. `held` is a ghost
that dates every verdict of the validator's, `last` the verdict stored last,
`others` the questions found valid since a question last was. A malformed header
or service name is answered before any state is read.

**Consensus.** `inFlight` is the channel and the workers' hands together, since
their order shows nowhere; `Insert` and `InsertFails` end a batch. The pass is
`Candidates`, `ReadAllowlist`, `Promote`, `Expire`, `Unlist`, `Prune`,
`Publish`; any of them may fail (`PassFails`, and `PruneFails`, which goes on),
and reports, operators, restarts and the clock come between. `blocklist` keeps
when an address was last seen, its expiry being that plus the TTL. `spared` is
a ghost: what has been exempt since before the pass began. `stored` remembers
events already pruned.

**Sizing.** A report stores a node's day and its hardware (`StoreDay`,
`UpsertNode`). The pass is `BeginPass` (a batch of stale scores is read),
`Rescore`, `Judge`, `PublishCohorts`, `DeleteStaleCohorts`, `RollupMonth` for
each month touched, `PruneDaily`; any step may fail, and the process may be
restarted as a later version, whose score definition (`PressureVersion`) makes
stored scores stale. `SizingScore` has the score of a day as its worst axis and half of
the others, the verdict over a window with its hysteresis, and which families
make a cohort.

### Abstractions

- A template is its canonical key; `Near` (similar.go's token comparison),
  `Family` and `Rank` (`LessTemplate` order) are constants.
- A window has the same lines each time it is sent, and its lines' `LastSeen`
  is its start; a tick is longer than a window, and timeouts are in ticks.
- A paid answer costs one unit. Severity, texts, tokens, nodes, `reopened_at`
  and the `systems` and `nodes` rows are left out: no step reads them.
- `prompt.Select` limits what may be cited to a subset of the window's lines;
  the model lets the answer cite any of them.
- `LLM_MAX_CONCURRENCY` is positive (0 switches the semaphore off).
- A handler panic of the queue is not modelled: nothing recovers it and it
  kills the process, which is `Crash`. One of `ingestq` is `InsertFails`.
- In `Analyzer` no maintenance runs: rows are kept. `Review` has the prunes.
- In `Review` the three wording fields are one, and its override stands for the
  other fields an operator decides too (security tag, severity, documentation
  link); decided visibilities are alike; which anchor a vector is nearest to is
  a free choice.
- The HMAC of a credential and a service is the pair itself.
- A report's scenario, the hits of an address and the reasons that are rendered
  in the feed are left out; every writer of an exemption leaves it without an
  expiry, so it lasts until it is removed.
- A measurement is, for each axis, the penalties of its terms; the ramps that
  produce them are real arithmetic and left out, as are percentiles.

## 3. Runs

| Run | Configuration, module | Instance | Asks |
|---|---|---|---|
| `queue` | `BundleQueue`, `BundleQueue` | 3 windows, 2 requests, 2 workers, buffer 1, 1 crash | type, one holder, claims held, drain, liveness, refinement of `WindowLife` |
| `queue_assured` | `BundleQueueAssured`, `BundleQueue` | 2 windows, 2 requests, 1 worker | *violated:* is a window answered "in flight" in flight? |
| `analysis` | `Analyzer`, `MCAnalyzer` | 3 windows of one system, 2 workers, 1 slot, 3 runs, 1 fault, 5 ticks, silence and near-known rules on | security lines vetted, slots, ledger rows final, known list, counts, staleness, all under overlapping runs |
| `recount` | `AnalyzerRecount`, `MCAnalyzer` | 2 windows, 2 workers, 1 fault | *violated:* does a window count once when runs overlap? |
| `budget` | `AnalyzerBudget`, `MCBudget` | 2 systems, 4 windows, 2 workers, caps of 1, 2 days | recorded calls and spend against the caps |
| `retry_loop` | `AnalyzerRetryLoop`, `MCHistory` | 1 window, 1 worker, cap 2, 4 runs | *violated:* calls made against the cap |
| `pipeline` | `LogPipeline`, `MCPipeline` | 2 windows, 2 requests, 2 workers, buffer 1, 2 arrivals, 1 fault, 3 ticks | one run per window, every run returns, nothing left at exit, accepted work reaches the ledger, refinement of `Analyzer` |
| `auth` | `ForwardAuth`, `MCForwardAuth` | 2 requests, 3 questions (one an entitlement), tiers of 2 and 1, TTLs 2 and 1, timeout 1, 2 ticks, 1 change of mind, 1 restart | what is told, for how long, what is evicted |
| `consensus` | `Consensus`, `MCConsensus` | 2 systems, 2 addresses, 2 nested CIDRs, 3 ticks, 3 reports or decisions | what is published, exemptions, refreshes, the audit trail |
| `review` | `Review`, `MCReview` | 1 system, 2 classes, 2 wordings, batch 1, 2 models, 1 tick, 2 records | decisions, groups, wordings and prunes |
| `sizing` | `Sizing`, `MCSizing` | 3 nodes of 2 clusters, days 0 to 4, months of 2 days, 3 reports, batch 2, 2 versions | history, baselines, what a batch of stale scores reaches |
| `sizing_backlog` | `SizingBacklog`, `MCSizing` | the same | *violated:* is a window judged by scores of one definition? |

**The logs pipeline.** Three windows and a buffer of one give the queue a full
buffer, a window claimed and refused, and a resend at each stage; more of
either repeats them. Two workers are the least that interleave, and `analysis`
has them on one system: one run's refresh, mark and upsert come between another's
refresh and its prompt. Two of its windows carry the security line, so each run
reads the templates and findings the other writes; the third carries the plain
line, whose findings are then left to age. Five ticks with STALE_AFTER 2 are a
finding seen, gone stale and seen again. Three runs are one retry and two
windows, or three windows, so runs overlap and follow each other; with one line
to a window there is one class to choose, and the choice among several is left to
`recount` and to the proofs. In `budget` a day is two ticks, so both sides of
midnight occur. The composition of `pipeline` multiplies the queue's states by the
analyzer's: two arrivals are a window and its resend or two windows, and two
runs in the analyzer at once.
Workers are symmetric in `budget`, workers and the two windows with the same
line in `analysis`; no liveness is checked there.

- `OneHolder`, `ClaimsAreHeld`, `OneRunPerWindow`: a resend never starts a
  second analysis, and no claim is leaked outside a shutdown.
- `DrainedBeforeExit`, `StopTerminates`, `NothingLeftAtExit`,
  `AcceptedIsProcessed`, `AcceptedReachesLedger`: what was acknowledged is
  processed before the process exits, unless it dies or the store fails.
- `SecurityLinesVetted`: the invariant behind `record`'s comment. It allows
  exactly one exception, the budget's suppression, which records the lines of
  a window nobody analysed (docs/architecture.md:1908 accepts this).
- `CompletedIsFinal`: no late step touches a completed row.
- `KnownListComplete`: the prompt's list of known findings is complete, whatever a
  concurrent run stores or marks stale.
- `CountIsExact`: `occurrence_count` is the number of runs that saw the finding,
  by their begin times, on a system whose runs never overlapped; `recount`
  (`WindowCountsOnce`) shows what overlapping runs do to it.
- `StaleMeansSilent`: a stale finding has been silent for STALE_AFTER, less at
  most a run's deadline where runs have overlapped.
- `CompletedCallsWithinCap`, `SpendWithinCap`: `Check` and the call are not
  atomic, so the bound is the cap plus the other workers, which race.

**auth.** Two requests are a slow answer and the one that overtakes it. Tiers
of two and one are full with three questions, so each can evict. Two ticks
against lifetimes of two and one pass both expiries.
`RepliesAreVerdicts`: no entitlement is answered from another service's entry
and an outage never becomes a rejection. `CachedVerdictsRecent`: however late an
answer is stored, a fresh one was true less than its lifetime and one timeout
ago. `LastVerdictFound`: a credential is never in both tiers, where the positive
one would answer. `AllowedOutlastFlood`: wrong credentials never evict a system
that is allowed.

**consensus.** Two systems with an agreement of two show every disagreement
there can be of counting sightings for systems; the code's floor is three
(`MinSystemsFloor`), and the theorems hold for any. One batch in flight is
queued, inserted, lost; with a window of one and three ticks it can be late and
age out. The nested CIDRs let an exemption cover one address or both, and a feed
of one entry makes the cap bite. `AgreedByDistinctSystems`: a published address
was seen in one window by enough systems, less than a TTL ago.
`ExemptHeldBack`: an exemption older than a pass is honoured by it, even for an
address already listed that is no candidate any more. `RefreshNeverShortens`: no
late report or moved window shortens a listing. `AuditExplains`: the trail alone
determines the exemptions and reviews.

**review.** Two classes are a class and its anchor; a batch of one makes two
passes of them, between which the sidecar may change models. A clock of one with
no retention makes every stale finding prunable in the next tick, and two
records are a decision and one that follows it. `DecisionsKept`: a decided class
is there and is what its trail says, whatever is pruned. `GroupDecidesUndecided`:
a group form never overrules. `FindingsReviewable`: no retained finding lacks
its class. `GroupsOfOneModel`: vectors of two models are never compared.
`WordingStable`: a class's wording is the first, until an operator changes it.
RunTimeout is 0 here: a run writes with the clock's `now`. The writes of a late
run, dated when it began, are in the model and in the theorems, which hold for
every RunTimeout.

**sizing.** Two nodes of one cluster and one of another tell nodes from
clusters in the floor; months of two days and a rollup that reaches two days
back make a month whose first day is out of reach, which is where a partial
recomputation would lose history. `MonthlyHistoryKept`: a pruned day is still
counted. `CohortsHaveEvidence`: after the sweep each baseline that is
served rests on enough nodes, of enough clusters, with days in the window and the
workloads this pass read, whatever an earlier pass left behind.
`NewestScoredFirst`: the pass judges by an out-of-date score only behind a whole
batch of up-to-date ones that are no older. A batch of two is less than what
three reports can make stale in one window, so the backlog that does not fit
occurs; `sizing_backlog` is its consequence (section 4). One assumption is the
instance's, not the code's: `HistoryAssumption` with `NextDay` (rollups do not
fail for longer than `MaxOutage` days, and `SIZING_RETENTION` keeps whole months
within the rollup's reach; the defaults satisfy it and nothing validates it).
`MonthlyHistoryKept` needs it.

**Liveness.** `FairSpec` of BundleQueue assumes that a worker that can take,
release or leave does so, that a request holding a claim finishes Publish
(which never blocks), and that main goes on to `Stop`. `FairSpec` of Analyzer
assumes weak fairness of each worker's next step: goroutines are scheduled,
the provider answers or the client's timeout fires, and the deadline of the run
ends the wait for a slot. Clients, clocks, crashes and store errors are not
fair. `ForwardAuth`, `Consensus`, `Review` and `Sizing` state safety only and
assume no fairness: their passes may be cut short by failures for ever, and no
document promises when one succeeds. Deadlock checking is off: a shut-down
process and a used-up bound stop.

**Bounds.** MaxCrashes, MaxFaults, MaxRuns (runs of Process per system),
MaxArrivals, MaxClock, MaxFindings (findings in one answer), MaxChanges,
MaxRestarts, MaxCalls, MaxModel, MaxRecords, MaxDay, MaxReports, MaxVersion,
MaxOutage. MaxRuns counts retries, so each instance has at least one retried
window. Only guards of clients, faults and the clock read them.

## 4. Where the code and its documentation disagree

- **A 202 that nobody stands behind** (`queue_assured`, queue.go:90). A resend
  that meets a claim is answered 202 because "the analysis it is asking for is
  already happening". The claimer may still find the buffer full, give the
  claim back and be answered 503. If the two are answered in that order the
  edge holds an acknowledgement for a window nobody has. (The architecture,
  341-343, says a duplicate in flight is answered 503, which the code does not
  do either.)
- **A window counted twice** (`recount`, store.go:569). `UpsertFinding` sets
  `last_seen` to its run's `now` unconditionally, so a run that began earlier
  moves it back, and the newer run's next write counts its window again.
  `RefreshFindings` guards against this; `UpsertFinding` does not.
- **The cap counts windows, not calls** (`retry_loop`, store.go:454). The
  ledger has one row per window, so a window retried in a loop, the one case
  the documentation says the cap is for, counts once.
- **Two score definitions in one window** (`sizing_backlog`,
  store/sizing/store.go:792). pass.go:108-109 and docs/architecture.md:842-843
  put step 1 before step 4, "or a `pressure_version` bump publishes a baseline
  mixing two score definitions". Step 1 rescores at most `RecomputeBatch` (5000)
  node-days; when the window has more, the same pass goes on to verdicts and
  baselines with the rest as they were. The comment on the batch says that later
  passes catch up, not that the results in between are mixed. A trailing window
  of 28 days with more than 5000 node-days is a fleet of some 180 nodes.

Three more of the same family, seen while modelling and not given a run: a
call cut off by a crash or by the run's deadline leaves `llm_called` 0
(RecordAttemptError runs on the expired context); an answer the parser refuses
is paid for and recorded with cost 0 (analyzer.go:405-428), against
budget.go:28-31; and a failed attempt's `llm_called` is reset when its retry is
gated out or suppressed, since FinalizeAnalysis overwrites it.

## 5. Proofs

All theorems hold for any sets and limits that satisfy the modules' named
ASSUMEs; these say that limits are naturals (positive where the code requires
it), that workers, addresses, classes and the like are finitely many, and that
`NoWindow`, `NoEntry` and the like stand apart from real values. None of the
safety invariants is inductive as it stands; what makes each so is below.

| Module | Theorems |
|---|---|
| `BundleQueueProofs` | `TypeCorrect`, `OneHolderAlways`, `ClaimsAreHeldAlways`, `DrainedBeforeExitAlways`, `ImplementsWindowLife` |
| `AnalyzerProofs` | `TypeCorrect`, `SlotsMatch`, `CompletedFinal`, `SecurityVetted`, `CallCapHolds`, `SpendCapHolds`, `KnownListIsComplete`, `CountedOncePerRun`, `StaleIsSilent` |
| `PipelineProofs` | `PipelineImplementsAnalyzer`, `OneRunPerWindowAlways`, `NothingLeftAtExitAlways`, `PipelineSecurityVetted`, `PipelineBudgetAndPrompt`, `PipelineCountsAndAges` |
| `ForwardAuthProofs` | `AuthTypeCorrect`, `RepliesAreAlwaysVerdicts`, `CachedVerdictsAlwaysRecent`, `LastVerdictAlwaysFound`, `AllowedAlwaysOutlastFlood` |
| `ConsensusProofs` | `ConsensusTypeCorrect`, `AuditAlwaysExplains`, `PublishedAgreedByDistinctSystems`, `ExemptAlwaysHeldBack`, `RefreshesNeverShorten` |
| `ReviewProofs` | `ReviewTypeCorrect`, `DecisionsAlwaysKept`, `GroupAlwaysDecidesUndecided`, `FindingsAlwaysReviewable`, `GroupsAlwaysOfOneModel`, `WordingsAlwaysStable` |
| `SizingProofs` | `TypeCorrect`, `ScoreCoversWorstAxis`, `WorseDaysNeverRelaxVerdict`, `MonthlyHistoryKeptHolds`, `CohortsHaveEvidenceHolds`, `NewestScoredFirstHolds`, `OneDefinitionIfWindowFits` |

**BundleQueue.** That a claim keeps other requests out is `ClaimsAreHeld`, and
that a claim has one holder is `OneHolder`. `Ownership` is their conjunction, in
the form the steps use; one lemma per action, and `OwnershipStep` puts them
together. The refinement (`LifeStep`) uses it to show that each action moves
one window one stage and leaves every other window's alone.

**Analyzer.** *Types and slots:* `Inv` adds to TypeOK that a worker about to
store a finding still has a citation and has chosen a class; `Moves` is the
order of a run's steps, on which the other arguments rest. *Final rows:*
`HeldOpen`, a window is in one worker's hands (the queue's promise, in the guard
of `Begin`) and its row is not completed while it is. *Security lines:*
`LinesVetted`, until the gate votes, a security line of the window is novel or
already vetted; when record begins every one is vetted, because a window with a
new one is never gated out, even by the spend cap.

**Budget** (in `AnalyzerProofs`). The caps are read off the ledger long before the call is written
there, so the ledger's count alone bounds nothing. The invariant bounds instead
the windows of today that are in the ledger *or* in the hands of a run that has
passed the check (`CallBilled`, `SpendBilled`). `BilledAtCheck` shows that this
set grows only at the check itself, where fewer than the cap are in the ledger
and the rest are in some worker's hands, hence the cap plus `Racers`. `Ledger`
is what it rests on; midnight only shrinks the set (`DayStartGrows`), and the
spend of the run's day, which may be yesterday's, is at least today's.

**Findings** (in `AnalyzerProofs`). With several workers on a system, a run that
began earlier may store a finding later and take its `last_seen` back
(UpsertFinding), so the proofs split in two. *For any workers:* `FindingsPast`,
nothing is dated ahead of the clock, a stale finding was last seen before
STALE_AFTER, and `last_seen` goes back by less than a run's deadline, since a run
past it writes nothing; hence the margin of `StaleMeansSilent`. `Reopened`, from
its refresh to its prompt a run has every finding of its lines open and seen no
more than a deadline before it began; no concurrent record can mark such a finding
stale, which is where `TimeoutAssumption` is needed: twice ANALYSIS_TIMEOUT is at
most STALE_AFTER (5 minutes and 24 hours by default; the code does not compare
them). Hence `KnownListIsComplete`. *On a system whose runs have not overlapped*,
with any number of workers, on whatever else they are: `InStep`, one run at most
is on it and its findings were last seen when that run began or earlier;
`LastIsHeard`, `last_seen` is when a run last heard the finding; and the count is
the number of times it was heard (`CountedAsHeard`, `SeenOnce`), hence
`CountedOncePerRun` and the exact half of `StaleIsSilent`. That runs have not
overlapped is a matter of each behaviour and each system, not an assumption: the
code does not keep them apart (QUEUE_WORKERS is 2 by default and the queue keeps
windows apart, not systems), and `recount` shows what then happens to the count.

**Pipeline.** The queue's theorems are taken over by INSTANCE
(`QueueStep`: every step is one of the queue's or leaves it alone), and
`PipelineInv` ties the two halves: an active worker works on the window it
holds (`Joined`), what the queue carries has ended (`Ended`), and runs, busy
requests and the buffer are within the arrivals (`Budgeted`). With it
`Analyzer!Begin`'s guard is provable, so the composition implements Analyzer and
every theorem about Analyzer, those of the budget and of the findings included,
holds of it.

**ForwardAuth.** `AuthInv`: the tiers are lists without gaps (`Tiers`), each
verdict in a tier or on its way was held when it was given (`Requests`,
`Entries`), a key is in the tier of its last verdict only. For the flood, `Room`:
the keys ahead of an allowed one in the positive tier are among those found
valid since it was, so its place is at most one more than their number.

**Consensus.** `Known`: whoever is listed, or about to be, was agreed about by
events that were once stored, and the sighting that dates a listing is still
stored or older than any window to come, so that a refresh cannot find an
earlier one. `Sparing`: what is exempt since before the pass is covered by its
read, and after `Unlist` not listed. `Dated`: nothing is dated ahead of the clock
or of the pass that wrote it. `Explains` is the audit invariant, which
is inductive. That latest sightings and last records exist rests on
`Extremes!LargestExists`.

**Review.** `Worded`: a class that exists has a wording, since its wording is
pruned only after it. `AllRecorded`: state is what the trail's last records
say, and a group's record is the first on visibility; pruning asks for an empty
trail. `ModelRecorded`: the model of a row is the one that made its vector,
since an answer of another ends the pass.

**Sizing.** `Base` places the days that are stored, looked at and pruned in
time: a pass is at most a day old, a pruned day is older than `Retention`.
*Score definitions:* `NewestFirst`, what precedes a stale score in the order of the
batch is no older than it (`BatchIsNewest`), so what a full batch leaves out has
RecomputeBatch node-days of the current definition before it, those of the batch
counting as scored until they are written; reports and restatements only add to
them. That a window which fits a batch is of one definition is a corollary.
*Baselines:* `Founded`, from publication to sweep and on, every baseline has the
nodes and clusters behind it that cleared the floor (`PublishedHasEvidence`);
reports only add days, and the sweep leaves what this pass published.
*History:* a month counts all the days it ever had (`Settled`) or one of them may have been reported since the
last rollup (`Dirty`). A dirty month is one the next rollup touches
(`LateIsTouched`), and the months it touches still have all their rows
(`TouchedIsWhole`); these two are where `HistoryAssumption` is needed, which
relates the three settings MaxDayAge, MonthlyRollupDays and Retention to the
longest outage. The code does not check that relation; its defaults satisfy it
for outages of up to a month.

*Types:* `Scored` and `Kept`. A pruned day does not come back since it
was older than `Retention`, and a report reaches back no more than MaxDayAge
days, which `HistoryAssumption` puts within it. That a score is from 0 to 100 rests on
`ScoreCoversWorstAxis`, which holds of any measured axes: their sum is a fold,
so it is first shown that the recursive function the fold stands for exists
(`SumExists`) and that no term exceeds its value (`FoldIsSum`), each on a least
counterexample (`MinimalSubset`). `ContentAssumption`, the penalties of a term are
from 0 to 100 and a measured axis has one, is what the ramps and caps of
score.go give. *Verdicts:* `WorseDays` compares the days at or above a threshold
in two windows, and the order of the cases (`VerdictCases`) does the rest; the
theorem needs that both windows have the same scored days, as a day that ceases
to be scored may well turn `undersized` into `insufficient_data`.

Only model-checked: liveness, with fairness and ENABLED, which is beyond the
prover (`AcceptedIsProcessed`, `StopTerminates`, `RunReturns`,
`AcceptedReachesLedger`). Every invariant and every safety property of a step
that a passing run checks is also a theorem. The converse does not hold: the two
theorems about scores and verdicts are stated in the proof module only, and
`OneDefinitionIfWindowFits` is the positive side of a run that is violated.

## 6. Not modelled

- *Consensus:* the daily ingest counters, scenarios, hits and reasons, ETags,
  `first_listed_at`, the feed's `capped` flag, a configuration changed across a
  restart (a shorter TTL or a larger agreement re-judges old listings).
- *Review:* the four single-field setters, which nothing in production calls;
  suggestions, statistics and audit pages; classes older than `class_texts`;
  the pruning of templates, nodes and analyses by age.
- *Sizing:* `RecordSizingIngest`, percentiles and censoring, the top axis,
  `sizing_cluster_daily` and cluster placement, the second role of samba, the
  penalty ramps.
- *Auth:* the parsing of headers, the pepper, the wording of redirects.
- *Logs ingest:* body limits, schema and exclusions, the JSON read endpoints;
  `fingerprint.Normalize`; rendering and parsing in `prompt`.
- *Plumbing:* HTTP, metrics, environment, SQLite: I/O around the state.

Some hazards have no property. Those at store.go:399 and analyzer.go:405 are the
last two of section 4. A lost update at baseline/pass.go:218 (a day
restated while stale scores are recomputed gets a score of its former inputs),
a degraded report that overwrites the hardware (store/sizing/store.go:672), a
rejected batch that keeps later classes from being grouped
(classgroup/pass.go:93), a class re-created with its former seed (prune.go:187)
and two classes for one condition (analyzer.go:475) are in the models as
behaviours; no document says what should happen, so no property is stated.
Two smaller observations: a verdict's hysteresis is lost through a window with
insufficient data, and a monthly row keeps the score definition it was rolled up
with.

## 7. Plan

1. How many passes after an upgrade until no window mixes definitions.
2. The ingest counters of threatd and sizingd, and cluster placement.
3. Liveness of the passes under a bound on failures.
