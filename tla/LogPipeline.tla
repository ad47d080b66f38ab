----------------------------- MODULE LogPipeline -----------------------------
(***************************************************************************)
(* cmd/insightsd's logs pipeline: internal/api/logs feeds internal/queue,  *)
(* whose workers run analyzer.Process.  The two components share nothing   *)
(* but the bundle a worker takes and the process they die with.            *)
(***************************************************************************)
EXTENDS Analyzer

CONSTANTS
  Request,      \* request goroutines
  QueueSize,    \* QUEUE_SIZE
  MaxAge,       \* maxWindowAge of handleBundles, in ticks
  MaxArrivals   \* bound: bundles that arrive

\* queue.New makes room for one bundle and Start launches one worker at least;
\* no arrival is kept from running by the bound on runs.
ASSUME PipelineAssumption ==
  /\ QueueSize \in Nat \ {0} /\ Worker # {} /\ IsFiniteSet(Request)
  /\ MaxAge \in Nat /\ MaxArrivals \in Nat /\ MaxArrivals <= MaxRuns

VARIABLES
  inflight, ch, closed, serving, reading, sending, work, live, orphaned,
  assured, crashes,     \* of BundleQueue
  arrivals              \* ghost: bundles that have arrived (bounded)

Queue == INSTANCE BundleQueue WITH MaxCrashes <- MaxFaults

qvars == <<inflight, ch, closed, serving, reading, sending, work, live,
           orphaned, assured, crashes>>

pvars == <<vars, qvars, arrivals>>

PInit ==
  /\ Init
  /\ Queue!Init
  /\ arrivals = 0

\* The queue moves alone, or the analysis does.
QueueOnly == UNCHANGED <<vars, arrivals>>
AnalysisOnly == UNCHANGED <<qvars, arrivals>>

\* Mutation of Post: a window that has not ended yet is accepted.
PostEarly(r, w) ==
  /\ Start[w] >= clock - MaxAge
  /\ arrivals < MaxArrivals
  /\ arrivals' = arrivals + 1
  /\ Queue!Arrive(r, w)
  /\ UNCHANGED vars

\* handleBundles: a window that has not ended, or started too long ago, is
\* refused with 400.
Post(r, w) ==
  /\ Start[w] < clock
  /\ Start[w] >= clock - MaxAge
  /\ arrivals < MaxArrivals
  /\ arrivals' = arrivals + 1
  /\ Queue!Arrive(r, w)
  /\ UNCHANGED vars

Publish(r) ==
  /\ \/ Queue!PublishDuplicate(r)
     \/ Queue!PublishClaim(r)
     \/ Queue!PublishRest(r)
  /\ QueueOnly

\* A worker receives a bundle and its handler claims the window in the
\* ledger.
TakeFresh(k) ==
  /\ Queue!Take(k)
  /\ StartRun(k, Head(ch))
  /\ UNCHANGED arrivals

\* Mutation of TakeCompleted: any window is taken for a duplicate.
TakeDuplicate(k) ==
  /\ Queue!Take(k)
  /\ QueueOnly

\* The window is already completed: the handler returns at once.
TakeCompleted(k) ==
  /\ Queue!Take(k)
  /\ ~Claimable(analyses[Head(ch)])
  /\ QueueOnly

\* BeginAnalysis fails.
TakeFails(k) ==
  /\ Queue!Take(k)
  /\ StoreFails(k)
  /\ UNCHANGED arrivals

\* Mutation of Release: the claim is dropped while the handler still runs.
ReleaseEarly(k) == Queue!Release(k) /\ QueueOnly

\* The deferred release runs when the handler has returned.
Release(k) ==
  /\ ~Active(k)
  /\ Queue!Release(k)
  /\ QueueOnly

Drain ==
  /\ \/ \E k \in Worker : Queue!Exit(k)
     \/ Queue!Shutdown
     \/ Queue!Stop
  /\ QueueOnly

Analyse(k) == Proceed(k) /\ AnalysisOnly

ProcessCrash == Crash /\ Queue!Crash /\ UNCHANGED arrivals

Handle(k) ==
  \/ TakeFresh(k)
  \/ TakeCompleted(k)
  \/ Release(k)
  \/ Analyse(k)

PNext ==
  \/ \E r \in Request, w \in Window : Post(r, w)
  \/ \E r \in Request : Publish(r)
  \/ \E k \in Worker : Handle(k)
  \/ \E k \in Worker : TakeFails(k)
  \/ Drain
  \/ \E k \in Worker : Active(k) /\ StoreFails(k) /\ AnalysisOnly
  \/ ProcessCrash
  \/ Tick /\ AnalysisOnly

PSpec == PInit /\ [][PNext]_pvars

PFairSpec == PSpec /\ \A k \in Worker : WF_pvars(Handle(k))

-----------------------------------------------------------------------------
(* Properties. *)

\* The inflight set's reason to exist: whatever is resent while an analysis
\* runs, a window never has two runs, hence two LLM calls, at once, and none
\* once its analysis is completed.
OneRunPerWindow ==
  \A k \in Worker : Active(k) =>
    /\ ~analyses[run[k].w].completed
    /\ work[k] = run[k].w
    /\ \A l \in Worker : run[l].w = run[k].w => l = k

\* Stop has waited for every run: the process never exits in the middle of an
\* analysis or with an acknowledged bundle left.
NothingLeftAtExit ==
  live = {} => ch = <<>> /\ \A k \in Worker : ~Active(k)

\* A bundle answered 202 ends up in the ledger, as a completed analysis or as
\* an attempt a resend may claim again, unless the process dies or the store
\* fails: acknowledged work is not dropped silently.
AcceptedReachesLedger ==
  \A w \in Window : Queue!Queued(w) ~> (analyses[w].present \/ faults > 0)

\* Seen from the store the composition is Analyzer: in particular the guard of
\* Begin, that the window has ended and no other worker holds it, is what the
\* ingest handler and the queue provide.
AnalyzerSpec == Spec
=============================================================================
