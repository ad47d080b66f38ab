--------------------------- MODULE PipelineProofs ---------------------------
(***************************************************************************)
(* Proofs about LogPipeline for any systems, windows, requests, workers    *)
(* and limits: seen from the queue it is BundleQueue, seen from the store  *)
(* it is Analyzer, so that what was proved of either holds of the whole;   *)
(* and what only the two together promise.                                 *)
(***************************************************************************)
EXTENDS LogPipeline, AnalyzerProofs

\* BundleQueue's theorems, for the queue of the pipeline.
Q == INSTANCE BundleQueueProofs WITH MaxCrashes <- MaxFaults

-----------------------------------------------------------------------------
(* The queue. *)

\* Every step of the pipeline is a step of the queue, or one of the analysis
\* alone.
LEMMA QueueStep == [PNext]_pvars => [Q!Next]_(Q!vars)
<1> SUFFICES ASSUME [PNext]_pvars
             PROVE  Q!Next \/ UNCHANGED qvars
  BY DEF qvars, Q!vars
<1>1. ASSUME NEW r \in Request, NEW w \in Window, Post(r, w)
      PROVE  Q!Next
  BY <1>1 DEF Post, Queue!Arrive, Q!Arrive, Q!Next
<1>2. ASSUME NEW r \in Request, Publish(r)
      PROVE  Q!Next
  <2>1. CASE Queue!PublishDuplicate(r)
    BY <2>1 DEF Queue!PublishDuplicate, Q!PublishDuplicate, Q!Next
  <2>2. CASE Queue!PublishClaim(r)
    BY <2>2 DEF Queue!PublishClaim, Q!PublishClaim, Q!Next
  <2>3. CASE Queue!PublishRest(r)
    <3>1. Q!PublishRest(r)
      BY <2>3 DEF Queue!PublishRest, Queue!PublishSend, Queue!PublishFull,
         Queue!PublishPanic, Q!PublishRest, Q!PublishSend, Q!PublishFull, Q!PublishPanic
    <3> QED
      BY <3>1 DEF Q!Next
  <2> QED
    BY <1>2, <2>1, <2>2, <2>3 DEF Publish
<1>3. ASSUME NEW k \in Worker, Queue!Take(k)
      PROVE  Q!Next
  BY <1>3 DEF Queue!Take, Q!Take, Q!Next
<1>4. ASSUME NEW k \in Worker, Handle(k)
      PROVE  Q!Next \/ UNCHANGED qvars
  <2>1. CASE Release(k)
    BY <2>1 DEF Release, Queue!Release, Q!Release, Q!Next
  <2>2. CASE Analyse(k)
    BY <2>2 DEF Analyse, AnalysisOnly
  <2> QED
    BY <1>3, <1>4, <2>1, <2>2 DEF Handle, TakeFresh, TakeCompleted
<1>5. CASE Drain
  <2>1. ASSUME NEW k \in Worker, Queue!Exit(k)
        PROVE  Q!Next
    BY <2>1 DEF Queue!Exit, Q!Exit, Q!Next
  <2>2. CASE Queue!Shutdown
    BY <2>2 DEF Queue!Shutdown, Q!Shutdown, Q!Next
  <2>3. CASE Queue!Stop
    BY <2>3 DEF Queue!Stop, Q!Stop, Q!Next
  <2> QED
    BY <1>5, <2>1, <2>2, <2>3 DEF Drain
<1>6. CASE ProcessCrash
  BY <1>6 DEF ProcessCrash, Queue!Crash, Q!Crash, Q!Next
<1> QED
  BY <1>1, <1>2, <1>3, <1>4, <1>5, <1>6 DEF PNext, TakeFails, AnalysisOnly, pvars

\* The queue of the pipeline keeps all that BundleQueue promises.
QueueInv == Q!TypeOK /\ Q!OneHolder /\ Q!DrainedBeforeExit

LEMMA QueueInvAlways == PSpec => []QueueInv
<1>1. PInit => Q!Init
  BY DEF PInit, Queue!Init, Q!Init
<1>2. PSpec => Q!Spec
  BY <1>1, QueueStep, PTL DEF PSpec, Q!Spec
<1>3. QueueSize \in Nat \ {0} /\ MaxFaults \in Nat /\ NoWindow \notin Window
  BY PipelineAssumption, BoundsAssumption, NothingAssumption
<1>4. Q!Spec => []Q!TypeOK
  BY <1>3, Q!TypeCorrect, PTL
<1>5. Q!Spec => []Q!OneHolder
  BY <1>3, Q!OneHolderAlways, PTL
<1>6. Q!Spec => []Q!DrainedBeforeExit
  BY <1>3, Q!DrainedBeforeExitAlways, PTL
<1>7. Q!TypeOK /\ Q!OneHolder /\ Q!DrainedBeforeExit => QueueInv
  BY DEF QueueInv
<1> QED
  BY <1>2, <1>4, <1>5, <1>6, <1>7, PTL

-----------------------------------------------------------------------------
(* Between the two. *)

\* A worker that runs Process holds its window.
Joined == \A k \in Worker : Active(k) => work[k] = run[k].w

\* A window on its way to a worker.
Carried(w) == (\E r \in Request : reading[r] = w) \/ Q!Sending(w) \/ Q!Queued(w)

\* It was over when the ingest handler accepted it.
Ended == \A w \in Window : Carried(w) => Start[w] < clock

\* A request in the middle of something.
Busy == {r \in Request : reading[r] # NoWindow \/ sending[r] # NoWindow}

\* Each arrival is at most one run, now or later.
Budgeted ==
  /\ arrivals \in 0..MaxArrivals
  /\ \A s \in System : runs[s] + Cardinality(Busy) + Len(ch) <= arrivals

PipelineInv == Inv /\ HeldOpen /\ Joined /\ Ended /\ Budgeted

\* What a worker takes: the oldest window, which nobody else holds.
LEMMA TakenWindow ==
  ASSUME QueueInv, Inv, Joined, Ended, NEW k \in Worker, Queue!Take(k)
  PROVE  /\ Head(ch) \in Window /\ Q!Queued(Head(ch))
         /\ Start[Head(ch)] < clock
         /\ ~Active(k)
         /\ \A l \in Worker : run[l].w # Head(ch)
         /\ work' = [work EXCEPT ![k] = Head(ch)] /\ ch' = Tail(ch)
         /\ Len(ch') = Len(ch) - 1 /\ Len(ch) \in Nat \ {0}
<1>1. ch \in Seq(Window) /\ ch # <<>> /\ work[k] = NoWindow
  BY DEF QueueInv, Q!TypeOK, Queue!Take
<1>2. /\ Head(ch) \in Window /\ Head(ch) = ch[1]
      /\ Len(ch) \in Nat \ {0} /\ Len(Tail(ch)) = Len(ch) - 1
  BY <1>1
<1>3. Q!Queued(Head(ch))
  BY <1>2 DEF Q!Queued
<1>4. Start[Head(ch)] < clock
  BY <1>2, <1>3 DEF Ended, Carried
<1>5. \A l \in Worker : Active(l) <=> run[l].w # NoWindow
  BY DEF Inv, RunsTyped
<1>6. ~Active(k)
  BY <1>1, <1>5 DEF Joined
<1>7. ~Q!Running(Head(ch))
  BY <1>2, <1>3 DEF QueueInv, Q!OneHolder
<1>8. ASSUME NEW l \in Worker, run[l].w = Head(ch)
      PROVE  FALSE
  <2>1. Head(ch) # NoWindow
    BY <1>2, NothingAssumption
  <2>2. work[l] = Head(ch)
    BY <1>5, <1>8, <2>1 DEF Joined
  <2> QED
    BY <1>7, <2>2 DEF Q!Running
<1> QED
  BY <1>2, <1>3, <1>4, <1>6, <1>8 DEF Queue!Take

\* A fresh window is one that Analyzer may begin.
LEMMA TakeBegins ==
  ASSUME QueueInv, PipelineInv, NEW k \in Worker, TakeFresh(k)
  PROVE  Begin(k, Head(ch))
<1>1. Queue!Take(k) /\ StartRun(k, Head(ch))
  BY DEF TakeFresh
<1>2. /\ Head(ch) \in Window /\ Start[Head(ch)] < clock
      /\ \A l \in Worker : run[l].w # Head(ch)
      /\ Len(ch) \in Nat \ {0}
  BY <1>1, TakenWindow DEF PipelineInv
<1>3. SystemOf[Head(ch)] \in System
  BY <1>2, WindowsAssumption
<1>4. Cardinality(Busy) \in Nat
  BY PipelineAssumption, FS_Subset, FS_CardinalityType DEF Busy
<1>5. runs[SystemOf[Head(ch)]] \in Nat
  BY <1>3, BoundsAssumption DEF PipelineInv, Inv, StoreTyped
<1>6. runs[SystemOf[Head(ch)]] < MaxRuns
  BY <1>2, <1>3, <1>4, <1>5, PipelineAssumption, BoundsAssumption DEF PipelineInv, Budgeted
<1> QED
  BY <1>1, <1>2, <1>6 DEF Begin

\* Every step of the pipeline is a step of Analyzer, or one of the queue alone.
LEMMA AnalyzerStep ==
  ASSUME QueueInv, PipelineInv, [PNext]_pvars
  PROVE  [Next]_vars
<1>1. ASSUME NEW r \in Request, NEW w \in Window, Post(r, w)
      PROVE  UNCHANGED vars
  BY <1>1 DEF Post
<1>2. ASSUME NEW r \in Request, Publish(r)
      PROVE  UNCHANGED vars
  BY <1>2 DEF Publish, QueueOnly
<1>3. ASSUME NEW k \in Worker, Handle(k)
      PROVE  Next \/ UNCHANGED vars
  <2>1. CASE TakeFresh(k)
    <3>1. Head(ch) \in Window
      BY <2>1, TakenWindow DEF TakeFresh, PipelineInv
    <3> QED
      BY <2>1, <3>1, TakeBegins DEF Next
  <2>2. CASE TakeCompleted(k) \/ Release(k)
    BY <2>2 DEF TakeCompleted, Release, QueueOnly
  <2>3. CASE Analyse(k)
    BY <2>3 DEF Analyse, Next
  <2> QED
    BY <1>3, <2>1, <2>2, <2>3 DEF Handle
<1>4. ASSUME NEW k \in Worker, TakeFails(k) \/ StoreFails(k)
      PROVE  Next
  BY <1>4 DEF TakeFails, Next
<1>5. CASE Drain
  BY <1>5 DEF Drain, QueueOnly
<1>6. CASE ProcessCrash \/ Tick
  BY <1>6 DEF ProcessCrash, Next
<1>7. CASE UNCHANGED pvars
  BY <1>7 DEF pvars
<1> QED
  BY <1>1, <1>2, <1>3, <1>4, <1>5, <1>6, <1>7 DEF PNext

-----------------------------------------------------------------------------
(* The steps keep the two together. *)

LEMMA StepKeepsJoined ==
  ASSUME QueueInv, PipelineInv, [PNext]_pvars
  PROVE  Joined'
<1>1. Inv /\ Joined /\ Ended /\ RunsTyped
  BY DEF PipelineInv, Inv
<1>2. /\ run \in [Worker -> RunState] /\ work \in [Worker -> Window \cup {NoWindow}]
  BY <1>1 DEF RunsTyped, QueueInv, Q!TypeOK, Q!MaybeWindow
<1>3. ASSUME NEW k \in Worker, NEW l \in Worker, Queue!Take(k), l # k
      PROVE  work'[l] = work[l]
  BY <1>2, <1>3 DEF Queue!Take
<1>4. ASSUME NEW k \in Worker, Return(k), UNCHANGED work
      PROVE  Joined'
  BY <1>1, <1>2, <1>4 DEF Return, Joined, Active, NotRunning
<1>5. ASSUME NEW k \in Worker, TakeFresh(k)
      PROVE  Joined'
  <2>1. work' = [work EXCEPT ![k] = Head(ch)]
    BY <1>5 DEF TakeFresh, Queue!Take
  <2>2. run' = [run EXCEPT ![k] =
               [NotRunning EXCEPT !.pc = "refresh", !.w = Head(ch), !.at = clock]]
    BY <1>5 DEF TakeFresh, StartRun
  <2>3. run'[k].w = Head(ch) /\ work'[k] = Head(ch)
    BY <1>2, <2>1, <2>2 DEF NotRunning
  <2>4. \A l \in Worker \ {k} : run'[l] = run[l] /\ work'[l] = work[l]
    BY <1>2, <2>1, <2>2
  <2> QED
    BY <1>1, <2>3, <2>4 DEF Joined, Active
<1>6. ASSUME NEW k \in Worker, TakeCompleted(k)
      PROVE  Joined'
  <2>1. ~Active(k) /\ run' = run
    BY <1>1, <1>6, TakenWindow DEF TakeCompleted, QueueOnly, vars
  <2> QED
    BY <1>1, <1>3, <1>6, <2>1 DEF TakeCompleted, Joined, Active
<1>7. ASSUME NEW k \in Worker, TakeFails(k)
      PROVE  Joined'
  <2>1. run' = [run EXCEPT ![k] = NotRunning]
    BY <1>7 DEF TakeFails, StoreFails, Return
  <2>2. \A l \in Worker \ {k} : run'[l] = run[l] /\ work'[l] = work[l]
    BY <1>2, <1>3, <1>7, <2>1 DEF TakeFails
  <2>3. run'[k].pc = "idle"
    BY <1>2, <2>1 DEF NotRunning
  <2> QED
    BY <1>1, <2>2, <2>3 DEF Joined, Active
<1>8. ASSUME NEW k \in Worker, Release(k)
      PROVE  Joined'
  <2>1. ~Active(k) /\ run' = run /\ work' = [work EXCEPT ![k] = NoWindow]
    BY <1>8 DEF Release, Queue!Release, QueueOnly, vars
  <2> QED
    BY <1>1, <1>2, <2>1 DEF Joined, Active
<1>9. ASSUME NEW k \in Worker, Analyse(k)
      PROVE  Joined'
  <2>1. Proceed(k) /\ work' = work
    BY <1>9 DEF Analyse, AnalysisOnly, qvars
  <2>2. Active(k)
    BY <2>1, ProceedIsActive
  <2>3. /\ \A l \in Worker \ {k} : run'[l] = run[l]
        /\ run'[k] = NotRunning \/ run'[k].w = run[k].w
    BY <1>1, <2>1, Moves
  <2> QED
    BY <1>1, <2>1, <2>2, <2>3 DEF Joined, Active, NotRunning
<1>10. ASSUME NEW k \in Worker, StoreFails(k), AnalysisOnly
       PROVE  Joined'
  BY <1>4, <1>10 DEF StoreFails, AnalysisOnly, qvars
<1>11. CASE ProcessCrash
  BY <1>11 DEF ProcessCrash, Crash, Joined, Active, NotRunning
<1>12. ASSUME UNCHANGED <<run, work>>
       PROVE  Joined'
  BY <1>1, <1>12 DEF Joined, Active
<1>13. ASSUME NEW r \in Request, NEW w \in Window, Post(r, w)
       PROVE  Joined'
  BY <1>12, <1>13 DEF Post, Queue!Arrive, vars
<1>14. ASSUME NEW r \in Request, Publish(r)
       PROVE  Joined'
  BY <1>12, <1>14 DEF Publish, QueueOnly, vars, Queue!PublishDuplicate, Queue!PublishClaim,
     Queue!PublishRest, Queue!PublishSend, Queue!PublishFull, Queue!PublishPanic
<1>15. CASE Drain
  BY <1>12, <1>15 DEF Drain, QueueOnly, vars, Queue!Exit, Queue!Shutdown, Queue!Stop
<1>16. CASE Tick /\ AnalysisOnly
  BY <1>12, <1>16 DEF Tick, AnalysisOnly, qvars
<1>17. CASE UNCHANGED pvars
  BY <1>12, <1>17 DEF pvars, vars, qvars
<1> QED
  BY <1>5, <1>6, <1>7, <1>8, <1>9, <1>10, <1>11, <1>13, <1>14, <1>15, <1>16, <1>17
     DEF PNext, Handle

\* A window that is under way was so before, or is one just accepted.
LEMMA StepKeepsEnded ==
  ASSUME QueueInv, PipelineInv, [PNext]_pvars
  PROVE  Ended'
<1>1. Ended /\ clock \in Nat /\ Start \in [Window -> Nat]
  BY BoundsAssumption, WindowsAssumption DEF PipelineInv, Inv, StoreTyped
<1>2. /\ ch \in Seq(Window)
      /\ reading \in [Request -> Window \cup {NoWindow}]
      /\ sending \in [Request -> Window \cup {NoWindow}]
  BY DEF QueueInv, Q!TypeOK, Q!MaybeWindow
<1>3. ASSUME \A w \in Window : Carried(w)' => Carried(w), clock' = clock \/ clock' = clock + 1
      PROVE  Ended'
  BY <1>1, <1>3 DEF Ended
<1>4. ASSUME UNCHANGED <<reading, sending, ch>>
      PROVE  \A w \in Window : Carried(w)' => Carried(w)
  BY <1>4 DEF Carried, Q!Sending, Q!Queued
<1>5. ASSUME NEW r \in Request, NEW w \in Window, Post(r, w)
      PROVE  Ended'
  <2>1. /\ reading' = [reading EXCEPT ![r] = w] /\ UNCHANGED <<sending, ch, clock>>
        /\ Start[w] < clock
    BY <1>5 DEF Post, Queue!Arrive, vars
  <2>2. ASSUME NEW v \in Window, Carried(v)'
        PROVE  v = w \/ Carried(v)
    BY <1>2, <2>1, <2>2 DEF Carried, Q!Sending, Q!Queued
  <2> QED
    BY <1>1, <2>1, <2>2 DEF Ended
<1>6. ASSUME NEW r \in Request, Publish(r)
      PROVE  Ended'
  <2>1. UNCHANGED clock
    BY <1>6 DEF Publish, QueueOnly, vars
  <2>2. CASE Queue!PublishDuplicate(r)
    <3>1. /\ reading' = [reading EXCEPT ![r] = NoWindow] /\ UNCHANGED <<sending, ch>>
      BY <2>2 DEF Queue!PublishDuplicate
    <3>2. \A w \in Window : Carried(w)' => Carried(w)
      BY <1>2, <3>1, NothingAssumption DEF Carried, Q!Sending, Q!Queued
    <3> QED
      BY <1>3, <2>1, <3>2
  <2>3. CASE Queue!PublishClaim(r)
    <3>1. /\ reading' = [reading EXCEPT ![r] = NoWindow] /\ UNCHANGED ch
          /\ sending' = [sending EXCEPT ![r] = reading[r]]
      BY <2>3 DEF Queue!PublishClaim
    <3>2. \A w \in Window : Carried(w)' => Carried(w)
      BY <1>2, <3>1, NothingAssumption DEF Carried, Q!Sending, Q!Queued
    <3> QED
      BY <1>3, <2>1, <3>2
  <2>4. CASE Queue!PublishSend(r)
    <3>1. /\ sending' = [sending EXCEPT ![r] = NoWindow] /\ UNCHANGED reading
          /\ ch' = Append(ch, sending[r]) /\ sending[r] \in Window
      BY <1>2, <2>4 DEF Queue!PublishSend
    <3>2. \A i \in 1..Len(ch') : ch'[i] = sending[r] \/ (i \in 1..Len(ch) /\ ch'[i] = ch[i])
      BY <1>2, <3>1
    <3>3. \A w \in Window : Q!Queued(w)' => Q!Queued(w) \/ w = sending[r]
      BY <3>2 DEF Q!Queued
    <3>4. \A w \in Window : Carried(w)' => Carried(w)
      BY <1>2, <3>1, <3>3, NothingAssumption DEF Carried, Q!Sending
    <3> QED
      BY <1>3, <2>1, <3>4
  <2>5. CASE Queue!PublishFull(r) \/ Queue!PublishPanic(r)
    <3>1. /\ sending' = [sending EXCEPT ![r] = NoWindow] /\ UNCHANGED <<reading, ch>>
      BY <2>5 DEF Queue!PublishFull, Queue!PublishPanic
    <3>2. \A w \in Window : Carried(w)' => Carried(w)
      BY <1>2, <3>1, NothingAssumption DEF Carried, Q!Sending, Q!Queued
    <3> QED
      BY <1>3, <2>1, <3>2
  <2> QED
    BY <1>6, <2>2, <2>3, <2>4, <2>5 DEF Publish, Queue!PublishRest
<1>7. ASSUME NEW k \in Worker, Queue!Take(k), clock' = clock
      PROVE  Ended'
  <2>1. ch' = Tail(ch) /\ ch # <<>> /\ UNCHANGED <<reading, sending>>
    BY <1>7 DEF Queue!Take
  <2>2. \A i \in 1..Len(ch') : i + 1 \in 1..Len(ch) /\ ch'[i] = ch[i + 1]
    BY <1>2, <2>1
  <2>3. \A w \in Window : Q!Queued(w)' => Q!Queued(w)
    BY <2>2 DEF Q!Queued
  <2>4. \A w \in Window : Carried(w)' => Carried(w)
    BY <2>1, <2>3 DEF Carried, Q!Sending
  <2> QED
    BY <1>3, <1>7, <2>4
<1>8. ASSUME NEW k \in Worker, Proceed(k) \/ StoreFails(k)
      PROVE  clock' = clock
  BY <1>8 DEF StoreFails, Proceed, Refresh, ReadKnown, Suppress, UnderCap, GateIn,
     GateOut, OpenFindings, Acquire, EndCall, CallFails, CallRejected,
     AnswerUnparsed, AnswerParsed, RecordAttempt, CloseWindow, ChooseEvidenceKey,
     Upsert, FindingsStored, UpsertTemplates, MarkStaleFindings, Finalize, Expire
<1>9. ASSUME NEW k \in Worker, TakeFresh(k) \/ TakeCompleted(k) \/ TakeFails(k)
      PROVE  Ended'
  <2>1. Queue!Take(k) /\ clock' = clock
    BY <1>8, <1>9 DEF TakeFresh, StartRun, TakeCompleted, TakeFails, QueueOnly, vars
  <2> QED
    BY <1>7, <2>1
<1>10. ASSUME NEW k \in Worker, Analyse(k) \/ (StoreFails(k) /\ AnalysisOnly)
       PROVE  Ended'
  BY <1>3, <1>4, <1>8, <1>10 DEF Analyse, AnalysisOnly, qvars
<1>11. ASSUME NEW k \in Worker, Release(k)
       PROVE  Ended'
  BY <1>3, <1>4, <1>11 DEF Release, Queue!Release, QueueOnly, vars
<1>12. CASE Drain
  BY <1>3, <1>4, <1>12 DEF Drain, QueueOnly, vars, Queue!Exit, Queue!Shutdown, Queue!Stop
<1>13. CASE ProcessCrash
  <2>1. /\ reading' = [r \in Request |-> NoWindow] /\ sending' = [r \in Request |-> NoWindow]
        /\ ch' = <<>> /\ clock' = clock
    BY <1>13 DEF ProcessCrash, Crash, Queue!Crash
  <2>2. \A w \in Window : ~Carried(w)'
    BY <2>1, NothingAssumption DEF Carried, Q!Sending, Q!Queued
  <2> QED
    BY <2>2 DEF Ended
<1>14. CASE Tick /\ AnalysisOnly
  BY <1>3, <1>4, <1>14 DEF Tick, AnalysisOnly, qvars
<1>15. CASE UNCHANGED pvars
  BY <1>3, <1>4, <1>15 DEF pvars, vars, qvars
<1> QED
  BY <1>5, <1>6, <1>9, <1>10, <1>11, <1>12, <1>13, <1>14, <1>15 DEF PNext, Handle

\* A request that begins or ends is one more or one less.
LEMMA BusyCounted ==
  /\ IsFiniteSet(Busy) /\ Cardinality(Busy) \in Nat
  /\ IsFiniteSet(Busy)' /\ Cardinality(Busy)' \in Nat
  /\ \A r \in Request : Busy' = Busy \cup {r} => Cardinality(Busy)' <= Cardinality(Busy) + 1
  /\ \A r \in Busy : Busy' = Busy \ {r} => Cardinality(Busy)' = Cardinality(Busy) - 1
<1>1. IsFiniteSet(Busy) /\ IsFiniteSet(Busy')
  BY PipelineAssumption, FS_Subset DEF Busy
<1>2. Cardinality(Busy) \in Nat /\ Cardinality(Busy') \in Nat
  BY <1>1, FS_CardinalityType
<1>3. ASSUME NEW r \in Request, Busy' = Busy \cup {r}
      PROVE  Cardinality(Busy') <= Cardinality(Busy) + 1
  <2>1. Cardinality(Busy \cup {r}) = IF r \in Busy THEN Cardinality(Busy) ELSE Cardinality(Busy) + 1
    BY <1>1, FS_AddElement
  <2> QED
    BY <1>2, <1>3, <2>1
<1>4. ASSUME NEW r \in Busy, Busy' = Busy \ {r}
      PROVE  Cardinality(Busy') = Cardinality(Busy) - 1
  BY <1>1, <1>4, FS_RemoveElement
<1> QED
  BY <1>1, <1>2, <1>3, <1>4

\* A publishing request hands its window on, or lets it go.
LEMMA PublishKeepsBudget ==
  ASSUME QueueInv, PipelineInv, NEW r \in Request, Publish(r)
  PROVE  Cardinality(Busy)' + Len(ch)' <= Cardinality(Busy) + Len(ch)
<1>1. /\ ch \in Seq(Window) /\ Len(ch) \in Nat
      /\ reading \in [Request -> Window \cup {NoWindow}]
      /\ sending \in [Request -> Window \cup {NoWindow}]
      /\ \A q \in Request : reading[q] = NoWindow \/ sending[q] = NoWindow
  BY DEF QueueInv, Q!TypeOK, Q!MaybeWindow
<1>2. CASE Queue!PublishDuplicate(r)
  <2>1. /\ reading' = [reading EXCEPT ![r] = NoWindow] /\ UNCHANGED <<sending, ch>>
        /\ reading[r] # NoWindow
    BY <1>2, NothingAssumption DEF Queue!PublishDuplicate, QueueInv, Q!TypeOK
  <2>2. r \in Busy /\ Busy' = Busy \ {r}
    BY <1>1, <2>1 DEF Busy
  <2>3. Cardinality(Busy)' = Cardinality(Busy) - 1 /\ Cardinality(Busy) \in Nat
    BY <2>2, BusyCounted
  <2> QED
    BY <1>1, <2>1, <2>3
<1>3. CASE Queue!PublishClaim(r)
  <2>1. /\ reading' = [reading EXCEPT ![r] = NoWindow] /\ UNCHANGED ch
        /\ sending' = [sending EXCEPT ![r] = reading[r]] /\ reading[r] # NoWindow
    BY <1>3 DEF Queue!PublishClaim
  <2>2. Busy' = Busy
    BY <1>1, <2>1 DEF Busy
  <2> QED
    BY <1>1, <2>1, <2>2, BusyCounted
<1>4. CASE Queue!PublishSend(r)
  <2>1. /\ sending' = [sending EXCEPT ![r] = NoWindow] /\ UNCHANGED reading
        /\ ch' = Append(ch, sending[r]) /\ sending[r] # NoWindow
    BY <1>4 DEF Queue!PublishSend
  <2>2. r \in Busy /\ Busy' = Busy \ {r}
    BY <1>1, <2>1 DEF Busy
  <2>3. Len(ch)' = Len(ch) + 1
    BY <1>1, <2>1
  <2>4. Cardinality(Busy)' = Cardinality(Busy) - 1 /\ Cardinality(Busy) \in Nat
    BY <2>2, BusyCounted
  <2> QED
    BY <1>1, <2>3, <2>4
<1>5. CASE Queue!PublishFull(r) \/ Queue!PublishPanic(r)
  <2>1. /\ sending' = [sending EXCEPT ![r] = NoWindow] /\ UNCHANGED <<reading, ch>>
        /\ sending[r] # NoWindow
    BY <1>5 DEF Queue!PublishFull, Queue!PublishPanic
  <2>2. r \in Busy /\ Busy' = Busy \ {r}
    BY <1>1, <2>1 DEF Busy
  <2>3. Cardinality(Busy)' = Cardinality(Busy) - 1 /\ Cardinality(Busy) \in Nat
    BY <2>2, BusyCounted
  <2> QED
    BY <1>1, <2>1, <2>3
<1> QED
  BY <1>2, <1>3, <1>4, <1>5 DEF Publish, Queue!PublishRest

\* No step makes more of what has arrived than arrived.
LEMMA StepKeepsBudgeted ==
  ASSUME QueueInv, PipelineInv, [PNext]_pvars
  PROVE  Budgeted'
<1>1. /\ Inv /\ Joined /\ Ended /\ RunsTyped /\ Budgeted
      /\ ch \in Seq(Window) /\ Len(ch) \in Nat
      /\ runs \in [System -> 0..MaxRuns] /\ MaxRuns \in Nat /\ MaxArrivals \in Nat
  BY BoundsAssumption, PipelineAssumption DEF PipelineInv, Inv, StoreTyped, QueueInv, Q!TypeOK
<1>2. \A s \in System : runs[s] \in Nat
  BY <1>1
<1>3. arrivals \in Nat
  BY <1>1 DEF Budgeted
<1>4. ASSUME runs' = runs, arrivals' = arrivals, Len(ch)' \in Nat,
             Cardinality(Busy)' + Len(ch)' <= Cardinality(Busy) + Len(ch)
      PROVE  Budgeted'
  <2>1. Cardinality(Busy) \in Nat /\ Cardinality(Busy)' \in Nat
    BY BusyCounted
  <2> QED
    BY <1>1, <1>2, <1>3, <1>4, <2>1 DEF Budgeted
<1>5. ASSUME UNCHANGED <<reading, sending, ch, runs, arrivals>>
      PROVE  Budgeted'
  BY <1>1, <1>5 DEF Budgeted, Busy
<1>6. ASSUME NEW r \in Request, NEW w \in Window, Post(r, w)
      PROVE  Budgeted'
  <2>1. /\ reading' = [reading EXCEPT ![r] = w] /\ UNCHANGED <<sending, ch, runs>>
        /\ arrivals < MaxArrivals /\ arrivals' = arrivals + 1
    BY <1>6 DEF Post, Queue!Arrive, vars
  <2>2. w # NoWindow /\ reading \in [Request -> Window \cup {NoWindow}]
    BY NothingAssumption DEF QueueInv, Q!TypeOK, Q!MaybeWindow
  <2>3. Busy' = Busy \cup {r}
    BY <2>1, <2>2 DEF Busy
  <2>4. Cardinality(Busy)' <= Cardinality(Busy) + 1 /\ Cardinality(Busy)' \in Nat
        /\ Cardinality(Busy) \in Nat
    BY <2>3, BusyCounted
  <2> QED
    BY <1>1, <1>2, <1>3, <2>1, <2>4 DEF Budgeted
<1>7. ASSUME NEW r \in Request, Publish(r)
      PROVE  Budgeted'
  <2>1. runs' = runs /\ arrivals' = arrivals
    BY <1>7 DEF Publish, QueueOnly, vars
  <2>2. Len(ch)' \in Nat
    BY <1>1, <1>7 DEF Publish, Queue!PublishDuplicate, Queue!PublishClaim, Queue!PublishRest,
       Queue!PublishSend, Queue!PublishFull, Queue!PublishPanic
  <2> QED
    BY <1>4, <1>7, <2>1, <2>2, PublishKeepsBudget
<1>8. ASSUME NEW k \in Worker, Queue!Take(k)
      PROVE  Busy' = Busy /\ Len(ch)' = Len(ch) - 1 /\ Len(ch)' \in Nat
  BY <1>1, <1>8, TakenWindow DEF Queue!Take, Busy
<1>9. ASSUME NEW k \in Worker, TakeFresh(k)
      PROVE  Budgeted'
  <2>1. runs' = [runs EXCEPT ![SystemOf[Head(ch)]] = @ + 1] /\ arrivals' = arrivals
    BY <1>9 DEF TakeFresh, StartRun
  <2>2. \A s \in System : runs'[s] <= runs[s] + 1 /\ runs'[s] \in Nat
    BY <1>1, <2>1
  <2>3. Busy' = Busy /\ Len(ch)' = Len(ch) - 1
    BY <1>8, <1>9 DEF TakeFresh
  <2>4. Cardinality(Busy) \in Nat
    BY BusyCounted
  <2> QED
    BY <1>1, <1>2, <1>3, <2>1, <2>2, <2>3, <2>4 DEF Budgeted
<1>10. ASSUME NEW k \in Worker, TakeCompleted(k) \/ TakeFails(k)
       PROVE  Budgeted'
  <2>1. Queue!Take(k) /\ runs' = runs /\ arrivals' = arrivals
    BY <1>10 DEF TakeCompleted, TakeFails, StoreFails, QueueOnly, vars
  <2>2. Busy' = Busy /\ Len(ch)' = Len(ch) - 1 /\ Len(ch)' \in Nat
    BY <1>8, <2>1
  <2>3. Cardinality(Busy) \in Nat
    BY BusyCounted
  <2> QED
    BY <1>1, <1>4, <2>1, <2>2, <2>3
<1>11. ASSUME NEW k \in Worker, Analyse(k) \/ (StoreFails(k) /\ AnalysisOnly)
       PROVE  Budgeted'
  <2>1. runs' = runs
    BY <1>11 DEF Analyse, StoreFails, Proceed, Refresh, ReadKnown, Suppress, UnderCap, GateIn,
       GateOut, OpenFindings, Acquire, EndCall, CallFails, CallRejected,
       AnswerUnparsed, AnswerParsed, RecordAttempt, CloseWindow, ChooseEvidenceKey,
       Upsert, FindingsStored, UpsertTemplates, MarkStaleFindings, Finalize, Expire
  <2> QED
    BY <1>5, <1>11, <2>1 DEF Analyse, AnalysisOnly, qvars
<1>12. ASSUME NEW k \in Worker, Release(k)
       PROVE  Budgeted'
  BY <1>5, <1>12 DEF Release, Queue!Release, QueueOnly, vars
<1>13. CASE Drain
  BY <1>5, <1>13 DEF Drain, QueueOnly, vars, Queue!Exit, Queue!Shutdown, Queue!Stop
<1>14. CASE ProcessCrash
  <2>1. /\ reading' = [r \in Request |-> NoWindow] /\ sending' = [r \in Request |-> NoWindow]
        /\ ch' = <<>> /\ runs' = runs /\ arrivals' = arrivals
    BY <1>14 DEF ProcessCrash, Crash, Queue!Crash
  <2>2. Busy' = {}
    BY <2>1 DEF Busy
  <2>3. Cardinality(Busy)' = 0 /\ Len(ch)' = 0 /\ Cardinality(Busy) \in Nat
    BY <2>1, <2>2, FS_EmptySet, BusyCounted
  <2> QED
    BY <1>1, <1>4, <2>1, <2>3
<1>15. CASE Tick /\ AnalysisOnly
  BY <1>5, <1>15 DEF Tick, AnalysisOnly, qvars
<1>16. CASE UNCHANGED pvars
  BY <1>5, <1>16 DEF pvars, vars, qvars
<1> QED
  BY <1>6, <1>7, <1>9, <1>10, <1>11, <1>12, <1>13, <1>14, <1>15, <1>16 DEF PNext, Handle

-----------------------------------------------------------------------------
(* What follows. *)

\* The pipeline starts with nothing in either part.
LEMMA PipelineInvHoldsAtStart == PInit => PipelineInv
<1> SUFFICES ASSUME PInit PROVE PipelineInv
  OBVIOUS
<1>1. Init /\ Queue!Init /\ arrivals = 0
  BY DEF PInit
<1>2. Inv
  BY <1>1, InvHoldsAtStart
<1>3. HeldOpen /\ Joined
  BY <1>1 DEF Init, HeldOpen, Joined, Active, NotRunning
<1>4. /\ ch = <<>> /\ reading = [r \in Request |-> NoWindow]
      /\ sending = [r \in Request |-> NoWindow]
  BY <1>1 DEF Queue!Init
<1>5. Ended
  BY <1>4, NothingAssumption DEF Ended, Carried, Q!Sending, Q!Queued
<1>6. Busy = {} /\ Len(ch) = 0
  BY <1>4 DEF Busy
<1>7. Cardinality(Busy) = 0
  BY <1>6, FS_EmptySet
<1>8. \A s \in System : runs[s] = 0
  BY <1>1 DEF Init
<1>9. Budgeted
  BY <1>1, <1>6, <1>7, <1>8, PipelineAssumption DEF Budgeted
<1> QED
  BY <1>2, <1>3, <1>5, <1>9 DEF PipelineInv

LEMMA StepKeepsPipelineInv == QueueInv /\ PipelineInv /\ [PNext]_pvars => PipelineInv'
<1> SUFFICES ASSUME QueueInv, PipelineInv, [PNext]_pvars
             PROVE  PipelineInv'
  OBVIOUS
<1>1. [Next]_vars
  BY AnalyzerStep
<1>2. Inv' /\ HeldOpen'
  BY <1>1, StepKeepsInv, StepKeepsHeldOpen DEF PipelineInv, Inv
<1> QED
  BY <1>2, StepKeepsJoined, StepKeepsEnded, StepKeepsBudgeted DEF PipelineInv

LEMMA PipelineInvAlways == PSpec => []PipelineInv
  BY PipelineInvHoldsAtStart, StepKeepsPipelineInv, QueueInvAlways, PTL DEF PSpec

\* The composition implements Analyzer: what Begin assumes, that the window has
\* ended and is in no other worker's hands, is what handleBundles and the
\* inflight set of the queue provide.  So all theorems about Analyzer are
\* theorems about the pipeline.
THEOREM PipelineImplementsAnalyzer == PSpec => AnalyzerSpec
<1>1. PInit => Init
  BY DEF PInit
<1>2. QueueInv /\ PipelineInv /\ [PNext]_pvars => [Next]_vars
  BY AnalyzerStep
<1> QED
  BY <1>1, <1>2, QueueInvAlways, PipelineInvAlways, PTL DEF PSpec, Spec, AnalyzerSpec

\* A window never has two runs of Process at once, and none once its analysis
\* is completed, whatever is resent: no second LLM call for the same data.
THEOREM OneRunPerWindowAlways == PSpec => []OneRunPerWindow
<1>1. PipelineInv => OneRunPerWindow
  <2> SUFFICES ASSUME PipelineInv, NEW k \in Worker, Active(k)
               PROVE  /\ ~analyses[run[k].w].completed
                      /\ work[k] = run[k].w
                      /\ \A l \in Worker : run[l].w = run[k].w => l = k
    BY DEF OneRunPerWindow
  <2> QED
    BY DEF PipelineInv, HeldOpen, Joined
<1> QED
  BY <1>1, PipelineInvAlways, PTL

\* When the last worker has left, the buffer is empty and no analysis is under
\* way: Stop returns only after everything acknowledged was processed.
THEOREM NothingLeftAtExitAlways == PSpec => []NothingLeftAtExit
<1>1. QueueInv /\ PipelineInv => NothingLeftAtExit
  <2> SUFFICES ASSUME QueueInv, PipelineInv, live = {}
               PROVE  ch = <<>> /\ \A k \in Worker : ~Active(k)
    BY DEF NothingLeftAtExit
  <2>1. ch = <<>> /\ \A k \in Worker : work[k] = NoWindow
    BY PipelineAssumption DEF QueueInv, Q!DrainedBeforeExit
  <2> QED
    BY <2>1 DEF PipelineInv, Inv, RunsTyped, Joined
<1> QED
  BY <1>1, QueueInvAlways, PipelineInvAlways, PTL

\* One of them, for the whole pipeline: a security line becomes known to a
\* system only through a window that was analysed or stopped by the budget.
THEOREM PipelineSecurityVetted == PSpec => []SecurityLinesVetted
  BY PipelineImplementsAnalyzer, SecurityVetted, PTL DEF AnalyzerSpec

\* The budget and the prompt, for the whole pipeline: whatever bundles arrive,
\* are resent or are lost with the process, the day's caps are overshot by
\* racing workers at most, and no prompt leaves out an open finding of its lines.
THEOREM PipelineBudgetAndPrompt ==
  PSpec => []CompletedCallsWithinCap /\ []SpendWithinCap /\ []KnownListComplete
  BY PipelineImplementsAnalyzer, CallCapHolds, SpendCapHolds, KnownListIsComplete, PTL
     DEF AnalyzerSpec

\* Counts and ages, for the whole pipeline: the queue never gives one window to
\* two workers, but it does give two windows of a system to two of them, so the
\* counts are exact on the systems whose runs have not overlapped, and the ages
\* within a deadline on the others.
THEOREM PipelineCountsAndAges == PSpec => []CountIsExact /\ []StaleMeansSilent
  BY PipelineImplementsAnalyzer, CountedOncePerRun, StaleIsSilent, PTL DEF AnalyzerSpec
=============================================================================
