----------------------------- MODULE BundleQueue -----------------------------
(***************************************************************************)
(* internal/queue: the in-memory hand-over between the ingest handler and  *)
(* the analysis workers.                                                   *)
(*                                                                         *)
(* A request goroutine (api/logs handleBundles) reads a bundle, then calls *)
(* Publish.  Publish claims the bundle's window under the mutex, unlocks,  *)
(* and only then tries the non-blocking send: another request runs between *)
(* the two.  Workers range over the channel and release the claim when the *)
(* handler returns.  Shutdown stops the HTTP server (for at most ten       *)
(* seconds) and then Stop closes the channel and waits for the workers.    *)
(*                                                                         *)
(* A bundle is represented by its window, the unit of idempotency; what    *)
(* the handler does is in module Analyzer.                                 *)
(***************************************************************************)
EXTENDS Naturals, Sequences, FiniteSets

CONSTANTS
  Window,       \* the windows edges send: (system_id, window_start)
  Request,      \* request goroutines of the HTTP server
  Worker,       \* worker goroutines launched by Start (QUEUE_WORKERS)
  QueueSize,    \* capacity of the channel (QUEUE_SIZE)
  MaxCrashes,   \* bound: process crashes in one behaviour
  NoWindow      \* what an idle request or worker holds

ASSUME QueueSizeAssumption == QueueSize \in Nat \ {0}
ASSUME MaxCrashesAssumption == MaxCrashes \in Nat
ASSUME NoWindowAssumption == NoWindow \notin Window

VARIABLES
  inflight,     \* Queue.inflight: the claimed windows
  ch,           \* Queue.ch: the buffered bundles, oldest first
  closed,       \* has Stop closed the channel?
  serving,      \* does the HTTP server accept new requests?
  reading,      \* reading[r]: the window request r carries, not yet published
  sending,      \* sending[r]: the window r claimed and has not yet sent
  work,         \* work[k]: the window worker k is processing
  live,         \* the workers that have not returned from their range loop
  orphaned,     \* ghost: claims whose request died on the closed channel
  assured,      \* ghost: windows answered 202 as "already in flight" and not
                \*        processed since
  crashes       \* ghost: how often the process has crashed (bounded)

vars == <<inflight, ch, closed, serving, reading, sending, work, live,
          orphaned, assured, crashes>>

MaybeWindow == Window \cup {NoWindow}

TypeOK ==
  /\ inflight \subseteq Window
  /\ ch \in Seq(Window)
  /\ Len(ch) <= QueueSize
  /\ closed \in BOOLEAN
  /\ serving \in BOOLEAN
  /\ reading \in [Request -> MaybeWindow]
  /\ sending \in [Request -> MaybeWindow]
  /\ \A r \in Request : reading[r] = NoWindow \/ sending[r] = NoWindow
  /\ work \in [Worker -> MaybeWindow]
  /\ live \subseteq Worker
  /\ orphaned \subseteq Window
  /\ assured \subseteq Window
  /\ crashes \in 0..MaxCrashes

Init ==
  /\ inflight = {}
  /\ ch = <<>>
  /\ closed = FALSE
  /\ serving = TRUE
  /\ reading = [r \in Request |-> NoWindow]
  /\ sending = [r \in Request |-> NoWindow]
  /\ work = [k \in Worker |-> NoWindow]
  /\ live = Worker
  /\ orphaned = {}
  /\ assured = {}
  /\ crashes = 0

-----------------------------------------------------------------------------
(* Where a window can be. *)

Sending(w) == \E r \in Request : sending[r] = w
Queued(w)  == \E i \in 1..Len(ch) : ch[i] = w
Running(w) == \E k \in Worker : work[k] = w

-----------------------------------------------------------------------------
(* The request goroutines. *)

\* A request arrives and its body is being read; a shut-down server accepts
\* no new one.
Arrive(r, w) ==
  /\ serving
  /\ reading[r] = NoWindow
  /\ sending[r] = NoWindow
  /\ reading' = [reading EXCEPT ![r] = w]
  /\ UNCHANGED <<inflight, ch, closed, serving, sending, work, live,
                 orphaned, assured, crashes>>

\* Publish, first half: the window is already claimed.  The request is
\* answered 202 and nothing is queued.
PublishDuplicate(r) ==
  /\ reading[r] \in inflight
  /\ assured' = assured \cup {reading[r]}
  /\ reading' = [reading EXCEPT ![r] = NoWindow]
  /\ UNCHANGED <<inflight, ch, closed, serving, sending, work, live,
                 orphaned, crashes>>

\* Mutation of PublishClaim: the inflight set is not consulted.
PublishClaimUnchecked(r) ==
  /\ reading[r] # NoWindow
  /\ inflight' = inflight \cup {reading[r]}
  /\ sending' = [sending EXCEPT ![r] = reading[r]]
  /\ reading' = [reading EXCEPT ![r] = NoWindow]
  /\ UNCHANGED <<ch, closed, serving, work, live, orphaned, assured, crashes>>

\* Publish, first half: claim the window and unlock.
PublishClaim(r) ==
  /\ reading[r] # NoWindow
  /\ reading[r] \notin inflight
  /\ inflight' = inflight \cup {reading[r]}
  /\ sending' = [sending EXCEPT ![r] = reading[r]]
  /\ reading' = [reading EXCEPT ![r] = NoWindow]
  /\ UNCHANGED <<ch, closed, serving, work, live, orphaned, assured, crashes>>

\* Mutation of PublishSend: the buffer takes one bundle too many.
PublishSendOverflow(r) ==
  /\ sending[r] # NoWindow
  /\ ~closed
  /\ Len(ch) <= QueueSize
  /\ ch' = Append(ch, sending[r])
  /\ sending' = [sending EXCEPT ![r] = NoWindow]
  /\ UNCHANGED <<inflight, closed, serving, reading, work, live, orphaned,
                 assured, crashes>>

\* Publish, second half: there is room, the bundle is buffered, 202.
PublishSend(r) ==
  /\ sending[r] # NoWindow
  /\ ~closed
  /\ Len(ch) < QueueSize
  /\ ch' = Append(ch, sending[r])
  /\ sending' = [sending EXCEPT ![r] = NoWindow]
  /\ UNCHANGED <<inflight, closed, serving, reading, work, live, orphaned,
                 assured, crashes>>

\* Mutation of PublishFull: the refused request keeps its claim.
PublishFullKeepsClaim(r) ==
  /\ sending[r] # NoWindow
  /\ ~closed
  /\ Len(ch) >= QueueSize
  /\ sending' = [sending EXCEPT ![r] = NoWindow]
  /\ UNCHANGED <<inflight, ch, closed, serving, reading, work, live, orphaned,
                 assured, crashes>>

\* Publish, second half: the buffer is full.  The claim is released and the
\* request is answered 503.
PublishFull(r) ==
  /\ sending[r] # NoWindow
  /\ ~closed
  /\ Len(ch) >= QueueSize
  /\ inflight' = inflight \ {sending[r]}
  /\ sending' = [sending EXCEPT ![r] = NoWindow]
  /\ UNCHANGED <<ch, closed, serving, reading, work, live, orphaned, assured,
                 crashes>>

\* Publish, second half, after Stop: sending on a closed channel panics.
\* net/http recovers the panic and drops the connection; the claim stays.
PublishPanic(r) ==
  /\ sending[r] # NoWindow
  /\ closed
  /\ orphaned' = orphaned \cup {sending[r]}
  /\ sending' = [sending EXCEPT ![r] = NoWindow]
  /\ UNCHANGED <<inflight, ch, closed, serving, reading, work, live, assured,
                 crashes>>

-----------------------------------------------------------------------------
(* The workers. *)

\* Mutation of Take: the claim is dropped when the analysis starts.
TakeDropsClaim(k) ==
  /\ k \in live
  /\ work[k] = NoWindow
  /\ ch # <<>>
  /\ work' = [work EXCEPT ![k] = Head(ch)]
  /\ ch' = Tail(ch)
  /\ inflight' = inflight \ {Head(ch)}
  /\ UNCHANGED <<closed, serving, reading, sending, live, orphaned, assured,
                 crashes>>

\* One iteration of the worker's range loop begins.
Take(k) ==
  /\ k \in live
  /\ work[k] = NoWindow
  /\ ch # <<>>
  /\ work' = [work EXCEPT ![k] = Head(ch)]
  /\ ch' = Tail(ch)
  /\ UNCHANGED <<inflight, closed, serving, reading, sending, live, orphaned,
                 assured, crashes>>

\* The handler has returned, with or without an error, and the deferred
\* release drops the claim.
Release(k) ==
  /\ work[k] # NoWindow
  /\ inflight' = inflight \ {work[k]}
  /\ assured' = assured \ {work[k]}
  /\ work' = [work EXCEPT ![k] = NoWindow]
  /\ UNCHANGED <<ch, closed, serving, reading, sending, live, orphaned,
                 crashes>>

\* Mutations of Exit: the worker leaves with bundles in the buffer, or waits
\* for a claim nobody will ever release.
ExitUndrained(k) ==
  /\ k \in live
  /\ work[k] = NoWindow
  /\ closed
  /\ live' = live \ {k}
  /\ UNCHANGED <<inflight, ch, closed, serving, reading, sending, work,
                 orphaned, assured, crashes>>

ExitUnclaimed(k) ==
  /\ k \in live
  /\ work[k] = NoWindow
  /\ closed
  /\ inflight = {}
  /\ live' = live \ {k}
  /\ UNCHANGED <<inflight, ch, closed, serving, reading, sending, work,
                 orphaned, assured, crashes>>

\* The range loop ends: the channel is closed and drained.
Exit(k) ==
  /\ k \in live
  /\ work[k] = NoWindow
  /\ closed
  /\ ch = <<>>
  /\ live' = live \ {k}
  /\ UNCHANGED <<inflight, ch, closed, serving, reading, sending, work,
                 orphaned, assured, crashes>>

-----------------------------------------------------------------------------
(* The process. *)

\* SIGTERM: httpServer.Shutdown stops accepting requests.
Shutdown ==
  /\ serving
  /\ serving' = FALSE
  /\ UNCHANGED <<inflight, ch, closed, reading, sending, work, live, orphaned,
                 assured, crashes>>

\* Stop closes the channel.  Shutdown gives up on its open requests after ten
\* seconds, so some may still be reading or sending.
Stop ==
  /\ ~serving
  /\ ~closed
  /\ closed' = TRUE
  /\ UNCHANGED <<inflight, ch, serving, reading, sending, work, live, orphaned,
                 assured, crashes>>

\* The process dies and is started again with an empty queue.
Crash ==
  /\ crashes < MaxCrashes
  /\ inflight' = {}
  /\ ch' = <<>>
  /\ closed' = FALSE
  /\ serving' = TRUE
  /\ reading' = [r \in Request |-> NoWindow]
  /\ sending' = [r \in Request |-> NoWindow]
  /\ work' = [k \in Worker |-> NoWindow]
  /\ live' = Worker
  /\ orphaned' = {}
  /\ assured' = {}
  /\ crashes' = crashes + 1

\* The second half of Publish, whichever way it ends: it never blocks.
PublishRest(r) ==
  \/ PublishSend(r)
  \/ PublishFull(r)
  \/ PublishPanic(r)

Next ==
  \/ \E r \in Request, w \in Window : Arrive(r, w)
  \/ \E r \in Request :
       \/ PublishDuplicate(r)
       \/ PublishClaim(r)
       \/ PublishRest(r)
  \/ \E k \in Worker :
       \/ Take(k)
       \/ Release(k)
       \/ Exit(k)
  \/ Shutdown
  \/ Stop
  \/ Crash

\* A worker keeps receiving, and its handler returns because its context has
\* a deadline; a request that holds a claim finishes Publish, which never
\* blocks; main goes on from Shutdown to Stop.  Edges (which may never finish
\* a body) and operators are free.
Fairness ==
  /\ \A k \in Worker : WF_vars(Take(k)) /\ WF_vars(Release(k)) /\ WF_vars(Exit(k))
  /\ \A r \in Request : WF_vars(PublishRest(r))
  /\ WF_vars(Stop)

Spec == Init /\ [][Next]_vars

FairSpec == Spec /\ Fairness

-----------------------------------------------------------------------------
(* Properties. *)

\* A window is held by at most one request in the middle of Publish, one
\* place of the buffer or one worker: what the inflight set exists for, so
\* that a resend never starts a second analysis of the same window.
OneHolder ==
  /\ \A r, s \in Request : sending[r] = sending[s] /\ sending[r] # NoWindow => r = s
  /\ \A i, j \in 1..Len(ch) : ch[i] = ch[j] => i = j
  /\ \A k, l \in Worker : work[k] = work[l] /\ work[k] # NoWindow => k = l
  /\ \A w \in Window :
       /\ ~(Sending(w) /\ Queued(w))
       /\ ~(Sending(w) /\ Running(w))
       /\ ~(Queued(w) /\ Running(w))
       /\ w \in orphaned => ~Sending(w) /\ ~Queued(w) /\ ~Running(w)

\* Every claim is backed by a holder, and every holder by its claim.  A claim
\* nobody holds would answer every resend of its window 202 for the life of
\* the process without ever analysing it; the only such claims are those of
\* requests that outlived the shutdown.
ClaimsAreHeld ==
  \A w \in Window :
    w \in inflight <=> Sending(w) \/ Queued(w) \/ Running(w) \/ w \in orphaned

\* A claim is orphaned only once the channel is closed, and a worker leaves
\* only when nothing acknowledged is left: Stop drains before the process
\* exits.
DrainedBeforeExit ==
  /\ orphaned # {} => closed
  /\ live # Worker => closed /\ ch = <<>>
  /\ \A k \in Worker : k \notin live => work[k] = NoWindow

\* Publish's comment: a resend of a window in flight is a successful no-op
\* because "the analysis it is asking for is already happening".  So a window
\* assured that way stays claimed until a worker has processed it.
AssuredIsClaimed == assured \subseteq inflight

\* A buffered or running window is eventually processed.
AcceptedIsProcessed ==
  \A w \in Window : (Queued(w) \/ Running(w)) ~> ~(Queued(w) \/ Running(w))

\* Stop returns: once the channel is closed every worker leaves its loop,
\* unless the process crashes first.
StopTerminates == closed ~> (live = {} \/ ~closed)

-----------------------------------------------------------------------------
(* The abstract specification, under the mapping that reads a window's stage *)
(* off its holder.                                                           *)

StageOf(w) ==
  IF Sending(w) THEN "offered"
  ELSE IF Queued(w) THEN "queued"
  ELSE IF Running(w) THEN "running"
  ELSE IF w \in orphaned THEN "orphaned"
  ELSE "free"

Life == INSTANCE WindowLife WITH stage <- [w \in Window |-> StageOf(w)]

\* The queue implements WindowLife: a window goes through claim, buffer and
\* worker in that order and is in one of them at a time.
LifeSpec == Life!Spec
=============================================================================
