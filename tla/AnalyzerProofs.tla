--------------------------- MODULE AnalyzerProofs ---------------------------
(***************************************************************************)
(* Proofs about Analyzer for any systems, windows, templates and workers:  *)
(* type correctness together with the accounting of the call slots, that a *)
(* completed ledger row is final, that no security line becomes known      *)
(* unseen, that the day's caps are overshot by racing workers at most, and *)
(* what a finding's count and state say of the system it is about.         *)
(***************************************************************************)
EXTENDS Analyzer, FiniteSetTheorems, WellFoundedInduction, TLAPS

-----------------------------------------------------------------------------
(* Choosing a class. *)

\* A nonempty set of templates has a first one in LessTemplate order.
LEMMA FirstTemplate ==
  ASSUME NEW pool \in SUBSET Template, pool # {}
  PROVE  \E t \in pool : \A u \in pool : Rank[t] <= Rank[u]
<1> DEFINE Below(t) == 0..Rank[t]
           downsets == {Below(t) : t \in pool}
<1>1. downsets \subseteq FiniteSubsetsOf(Nat) /\ downsets # {}
  <2>1. ASSUME NEW t \in pool
        PROVE  Below(t) \in FiniteSubsetsOf(Nat)
    <3>1. Rank[t] \in Nat
      BY TemplatesAssumption
    <3>2. IsFiniteSet(Below(t))
      BY <3>1, FS_Interval
    <3>3. Below(t) \subseteq Nat
      BY <3>1
    <3> QED
      BY <3>2, <3>3 DEF FiniteSubsetsOf
  <2> QED
    BY <2>1
<1>2. PICK d \in downsets :
        \A e \in downsets : ~(<<e, d>> \in StrictSubsetOrdering(Nat))
  <2> HIDE DEF downsets
  <2> QED
    BY <1>1, FS_StrictSubsetOrderingWellFounded, WFMin
<1>3. PICK t \in pool : d = Below(t)
  BY <1>2
<1>4. ASSUME NEW u \in pool, Rank[u] < Rank[t]
      PROVE  FALSE
  <2>1. Rank[u] \in Nat /\ Rank[t] \in Nat
    BY TemplatesAssumption
  <2>2. Below(u) \subseteq Below(t) /\ Rank[t] \in Below(t) /\ Rank[t] \notin Below(u)
    BY <2>1, <1>4
  <2>3. Below(u) \in SUBSET Nat /\ Below(t) \in SUBSET Nat
    BY <2>1
  <2>4. <<Below(u), Below(t)>> \in StrictSubsetOrdering(Nat)
    <3> HIDE DEF Below
    <3> QED
      BY <2>2, <2>3 DEF StrictSubsetOrdering
  <2>5. Below(u) \in downsets
    OBVIOUS
  <2> QED
    BY <1>2, <1>3, <2>4, <2>5
<1> QED
  BY <1>4, TemplatesAssumption

\* chooseEvidenceKey keys a finding on a line it cites.
LEMMA ChosenClassIsAClass ==
  ASSUME NEW cited \in SUBSET Template, cited # {}, NEW stored
  PROVE  ChosenClass(cited, stored) \in ClassKey
<1> DEFINE joinable == {t \in cited : stored[ClassOf(t, cited)] # Never}
           pool == IF joinable = {} THEN cited ELSE joinable
           first == CHOOSE t \in pool : \A u \in pool : Rank[t] <= Rank[u]
<1>1. pool \in SUBSET Template /\ pool # {} /\ pool \subseteq cited
  OBVIOUS
<1>2. first \in pool
  <2> HIDE DEF pool
  <2> QED
    BY <1>1, FirstTemplate
<1>3. first \in cited
  BY <1>1, <1>2
<1>4. ChosenClass(cited, stored) = ClassOf(first, cited)
  BY DEF ChosenClass
<1>5. ClassOf(first, cited) \in {ClassOf(t, cited) : t \in cited}
  <2> HIDE DEF first
  <2> QED
    BY <1>3
<1> QED
  <2> HIDE DEF first
  <2> QED
    BY <1>4, <1>5 DEF ClassKey

-----------------------------------------------------------------------------
(* What each statement of the store does to the type of a row. *)

\* The ledger's statements keep a row a row.
LEMMA LedgerRows ==
  ASSUME NEW row \in AnalysisRow, NEW now \in Nat, NEW outcome \in Outcome,
         NEW called \in BOOLEAN, NEW cost \in Nat
  PROVE  /\ BeginAnalysis(row, now) \in AnalysisRow
         /\ RecordAttemptError(row) \in AnalysisRow
         /\ FinalizeAnalysis(row, outcome, called, cost) \in AnalysisRow
  BY DEF AnalysisRow, BeginAnalysis, RecordAttemptError, FinalizeAnalysis, Outcome

\* The statements on findings keep a row a row.
LEMMA FindingRows ==
  ASSUME NEW f \in FindingRow, NEW now \in Int, NEW evidence \in SUBSET Template,
         NEW lines
  PROVE  /\ UpsertFinding(f, evidence, now) \in FindingRow
         /\ RefreshFinding(f, lines, now) \in FindingRow
         /\ MarkStale(f, now) \in FindingRow
<1>1. Counted(f, now) \in Nat
  BY DEF Counted, FindingRow
<1>2. UpsertFinding(f, evidence, now) \in FindingRow
  BY <1>1 DEF UpsertFinding, FindingRow
<1>3. RefreshFinding(f, lines, now) \in FindingRow
  BY <1>1 DEF RefreshFinding, FindingRow
<1>4. MarkStale(f, now) \in FindingRow
  BY DEF MarkStale, FindingRow
<1> QED
  BY <1>2, <1>3, <1>4

\* last_seen of a template or a class stays a time.
LEMMA LatestIsATime ==
  ASSUME NEW old \in Int, NEW new \in Int
  PROVE  Latest(old, new) \in Int
  BY DEF Latest

\* The day of a tick starts at a tick.
LEMMA DayStartIsATime ==
  ASSUME clock \in Nat
  PROVE  DayStart \in Nat
<1>1. DayOf(clock) \in Nat
  BY LimitsAssumption DEF DayOf
<1> QED
  BY <1>1, LimitsAssumption DEF DayStart

-----------------------------------------------------------------------------
(* The workers. *)

\* A worker has a window while it runs, and a citation and its class while it
\* is about to store a finding.
RunsTyped ==
  /\ run \in [Worker -> RunState]
  /\ \A k \in Worker : Active(k) <=> run[k].w # NoWindow
  /\ \A k \in Worker :
       At(k, "upsert") => run[k].todo # <<>> /\ run[k].class \in ClassKey

\* A worker that leaves Process holds nothing.
LEMMA NotRunningTyped == NotRunning \in RunState
<1>1. <<>> \in Seq((SUBSET Template) \ {{}})
  OBVIOUS
<1> QED
  BY <1>1 DEF NotRunning, RunState, Step, Outcome

\* Returning keeps the workers typed.
LEMMA ReturnKeepsRunsTyped ==
  ASSUME RunsTyped, NEW k \in Worker, Return(k)
  PROVE  RunsTyped'
<1>1. run' \in [Worker -> RunState]
  BY NotRunningTyped DEF RunsTyped, Return
<1>2. \A l \in Worker : run'[l] = IF l = k THEN NotRunning ELSE run[l]
  BY DEF RunsTyped, Return
<1> QED
  BY <1>1, <1>2 DEF RunsTyped, Active, At, NotRunning

\* So does going on to another step of the same run.
LEMMA AdvanceKeepsRunsTyped ==
  ASSUME RunsTyped, NEW k \in Worker, Active(k), NEW r \in RunState,
         run' = [run EXCEPT ![k] = r], r.w = run[k].w, r.pc # "idle",
         r.pc = "upsert" => r.todo # <<>> /\ r.class \in ClassKey
  PROVE  RunsTyped'
<1>1. run' \in [Worker -> RunState]
  BY DEF RunsTyped
<1>2. \A l \in Worker : run'[l] = IF l = k THEN r ELSE run[l]
  BY DEF RunsTyped
<1> QED
  BY <1>1, <1>2 DEF RunsTyped, Active, At

\* An answer is a sequence of nonempty citations.
LEMMA AnswerTyped ==
  ASSUME NEW w \in Window, NEW found \in Answer(w)
  PROVE  found \in Seq((SUBSET Template) \ {{}})
<1>1. PICK n \in 0..MaxFindings : found \in [1..n -> Citation(w)]
  BY DEF Answer
<1>2. n \in Nat
  BY BoundsAssumption
<1>3. Citation(w) \subseteq (SUBSET Template) \ {{}}
  BY WindowsAssumption DEF Citation
<1>4. found \in [1..n -> (SUBSET Template) \ {{}}]
  BY <1>1, <1>3
<1> QED
  BY <1>2, <1>4

\* The citations of an answer are stored from its first to its last.
LEMMA RestOfAnswer ==
  ASSUME NEW S, NEW todo \in Seq(S), todo # <<>>
  PROVE  Head(todo) \in S /\ Tail(todo) \in Seq(S)
  OBVIOUS

\* Every step of Process keeps the workers typed.
LEMMA ProceedKeepsRunsTyped ==
  ASSUME TypeOK, RunsTyped, NEW k \in Worker, Proceed(k)
  PROVE  RunsTyped'
<1>1. RunsTyped /\ run[k] \in RunState /\ clock \in Nat
  BY BoundsAssumption DEF TypeOK, RunsTyped
<1>2. ASSUME NEW pc, At(k, pc), pc # "idle"
      PROVE  Active(k) /\ run[k].w \in Window /\ Owner(k) \in System
             /\ RunLines(k) \in SUBSET Template
  BY <1>1, <1>2, WindowsAssumption
     DEF At, Active, RunsTyped, RunState, Owner, RunLines
<1>3. CASE Refresh(k)
  <2> DEFINE r == [run[k] EXCEPT !.pc = "known"]
  <2>1. Active(k) /\ run' = [run EXCEPT ![k] = r]
    BY <1>1, <1>3 DEF Refresh, Goto, At, Active
  <2>2. r \in RunState /\ r.w = run[k].w /\ r.pc \notin {"idle", "upsert"}
    BY <1>1 DEF RunState, Step, Outcome
  <2> HIDE DEF r
  <2> QED
    BY <1>1, <2>1, <2>2, AdvanceKeepsRunsTyped
<1>4. CASE ReadKnown(k)
  <2> DEFINE r == [run[k] EXCEPT !.pc = "cap", !.novel = Novel(RunLines(k), templates[Owner(k)], Start[run[k].w])]
  <2>1. Active(k) /\ run' = [run EXCEPT ![k] = r]
    BY <1>1, <1>4 DEF ReadKnown, At, Active
  <2>2. RunLines(k) \in SUBSET Template
    BY <1>2, <1>4 DEF ReadKnown
  <2>3. Novel(RunLines(k), templates[Owner(k)], Start[run[k].w]) \in SUBSET Template
    BY <2>2 DEF Novel, Unknown, Returning
  <2>4. r \in RunState /\ r.w = run[k].w /\ r.pc \notin {"idle", "upsert"}
    BY <1>1, <2>3 DEF RunState, Step
  <2> HIDE DEF r
  <2> QED
    BY <1>1, <2>1, <2>4, AdvanceKeepsRunsTyped
<1>5. CASE Suppress(k)
  <2> DEFINE r == [run[k] EXCEPT !.pc = "templates", !.outcome = "suppressed", !.recAt = clock]
  <2>1. Active(k) /\ run' = [run EXCEPT ![k] = r]
    BY <1>1, <1>5 DEF Suppress, At, Active
  <2>2. r \in RunState /\ r.w = run[k].w /\ r.pc \notin {"idle", "upsert"}
    BY <1>1 DEF RunState, Step, Outcome
  <2> HIDE DEF r
  <2> QED
    BY <1>1, <2>1, <2>2, AdvanceKeepsRunsTyped
<1>6. CASE UnderCap(k)
  <2> DEFINE r == [run[k] EXCEPT !.pc = "spend", !.day = DayStart]
  <2>1. Active(k) /\ run' = [run EXCEPT ![k] = r]
    BY <1>1, <1>6 DEF UnderCap, At, Active
  <2>2. r \in RunState /\ r.w = run[k].w /\ r.pc \notin {"idle", "upsert"}
    BY <1>1, DayStartIsATime DEF RunState, Step, Outcome
  <2> HIDE DEF r
  <2> QED
    BY <1>1, <2>1, <2>2, AdvanceKeepsRunsTyped
<1>7. CASE GateIn(k)
  <2> DEFINE r == [run[k] EXCEPT !.pc = "open"]
  <2>1. Active(k) /\ run' = [run EXCEPT ![k] = r]
    BY <1>1, <1>7 DEF GateIn, Goto, At, Active
  <2>2. r \in RunState /\ r.w = run[k].w /\ r.pc \notin {"idle", "upsert"}
    BY <1>1 DEF RunState, Step, Outcome
  <2> HIDE DEF r
  <2> QED
    BY <1>1, <2>1, <2>2, AdvanceKeepsRunsTyped
<1>8. CASE GateOut(k)
  <2> DEFINE r == [run[k] EXCEPT !.pc = "templates", !.outcome = "gated_out", !.recAt = clock]
  <2>1. Active(k) /\ run' = [run EXCEPT ![k] = r]
    BY <1>1, <1>8 DEF GateOut, At, Active
  <2>2. r \in RunState /\ r.w = run[k].w /\ r.pc \notin {"idle", "upsert"}
    BY <1>1 DEF RunState, Step, Outcome
  <2> HIDE DEF r
  <2> QED
    BY <1>1, <2>1, <2>2, AdvanceKeepsRunsTyped
<1>9. CASE OpenFindings(k)
  <2> DEFINE r == [run[k] EXCEPT !.pc = "acquire"]
  <2>1. Active(k) /\ run' = [run EXCEPT ![k] = r]
    BY <1>1, <1>9 DEF OpenFindings, Goto, At, Active
  <2>2. r \in RunState /\ r.w = run[k].w /\ r.pc \notin {"idle", "upsert"}
    BY <1>1 DEF RunState, Step, Outcome
  <2> HIDE DEF r
  <2> QED
    BY <1>1, <2>1, <2>2, AdvanceKeepsRunsTyped
<1>10. CASE Acquire(k)
  <2> DEFINE r == [run[k] EXCEPT !.pc = "llm"]
  <2>1. Active(k) /\ run' = [run EXCEPT ![k] = r]
    BY <1>1, <1>10 DEF Acquire, Goto, At, Active
  <2>2. r \in RunState /\ r.w = run[k].w /\ r.pc \notin {"idle", "upsert"}
    BY <1>1 DEF RunState, Step, Outcome
  <2> HIDE DEF r
  <2> QED
    BY <1>1, <2>1, <2>2, AdvanceKeepsRunsTyped
<1>11. CASE CallFails(k)
  <2> DEFINE r == [run[k] EXCEPT !.pc = "attempt"]
  <2>1. Active(k) /\ run' = [run EXCEPT ![k] = r]
    BY <1>1, <1>11 DEF CallFails, Goto, EndCall, At, Active
  <2>2. r \in RunState /\ r.w = run[k].w /\ r.pc \notin {"idle", "upsert"}
    BY <1>1 DEF RunState, Step, Outcome
  <2> HIDE DEF r
  <2> QED
    BY <1>1, <2>1, <2>2, AdvanceKeepsRunsTyped
<1>12. CASE CallRejected(k)
  <2> DEFINE r == [run[k] EXCEPT !.pc = "close", !.outcome = "permanent"]
  <2>1. Active(k) /\ run' = [run EXCEPT ![k] = r]
    BY <1>1, <1>12 DEF CallRejected, EndCall, At, Active
  <2>2. r \in RunState /\ r.w = run[k].w /\ r.pc \notin {"idle", "upsert"}
    BY <1>1 DEF RunState, Step, Outcome
  <2> HIDE DEF r
  <2> QED
    BY <1>1, <2>1, <2>2, AdvanceKeepsRunsTyped
<1>13. CASE AnswerUnparsed(k)
  <2> DEFINE r == [run[k] EXCEPT !.pc = "close", !.outcome = "unparsed"]
  <2>1. Active(k) /\ run' = [run EXCEPT ![k] = r]
    BY <1>1, <1>13 DEF AnswerUnparsed, EndCall, At, Active
  <2>2. r \in RunState /\ r.w = run[k].w /\ r.pc \notin {"idle", "upsert"}
    BY <1>1 DEF RunState, Step, Outcome
  <2> HIDE DEF r
  <2> QED
    BY <1>1, <2>1, <2>2, AdvanceKeepsRunsTyped
<1>14. CASE ChooseEvidenceKey(k)
  <2> DEFINE r == [run[k] EXCEPT !.pc = "upsert", !.class = ChosenClass(Head(run[k].todo), classes)]
  <2>1. Active(k) /\ run' = [run EXCEPT ![k] = r]
    BY <1>1, <1>14 DEF ChooseEvidenceKey, At, Active
  <2>2. Head(run[k].todo) \in (SUBSET Template) \ {{}}
    BY <1>1, <1>14 DEF ChooseEvidenceKey, RunState
  <2>3. ChosenClass(Head(run[k].todo), classes) \in ClassKey
    BY <2>2, ChosenClassIsAClass
  <2>4. r \in RunState /\ r.w = run[k].w /\ r.pc = "upsert"
    BY <1>1, <2>3 DEF RunState, Step
  <2>5. r.todo # <<>> /\ r.class \in ClassKey
    BY <1>1, <2>3, <1>14 DEF ChooseEvidenceKey, RunState
  <2> HIDE DEF r
  <2> QED
    BY <1>1, <2>1, <2>4, <2>5, AdvanceKeepsRunsTyped
<1>15. CASE Upsert(k)
  <2> DEFINE r == [run[k] EXCEPT !.pc = "choose", !.class = NoClass, !.todo = Tail(@)]
  <2>1. Active(k) /\ run' = [run EXCEPT ![k] = r]
    BY <1>1, <1>15 DEF Upsert, At, Active
  <2>2. Tail(run[k].todo) \in Seq((SUBSET Template) \ {{}})
    BY <1>1, <1>15, RestOfAnswer DEF Upsert, RunState, RunsTyped
  <2>3. r \in RunState /\ r.w = run[k].w /\ r.pc \notin {"idle", "upsert"}
    BY <1>1, <2>2 DEF RunState, Step
  <2> HIDE DEF r
  <2> QED
    BY <1>1, <2>1, <2>3, AdvanceKeepsRunsTyped
<1>16. CASE FindingsStored(k)
  <2> DEFINE r == [run[k] EXCEPT !.pc = "templates", !.outcome = "analysed", !.recAt = clock]
  <2>1. Active(k) /\ run' = [run EXCEPT ![k] = r]
    BY <1>1, <1>16 DEF FindingsStored, At, Active
  <2>2. r \in RunState /\ r.w = run[k].w /\ r.pc \notin {"idle", "upsert"}
    BY <1>1 DEF RunState, Step, Outcome
  <2> HIDE DEF r
  <2> QED
    BY <1>1, <2>1, <2>2, AdvanceKeepsRunsTyped
<1>17. CASE UpsertTemplates(k)
  <2> DEFINE r == [run[k] EXCEPT !.pc = "stale"]
  <2>1. Active(k) /\ run' = [run EXCEPT ![k] = r]
    BY <1>1, <1>17 DEF UpsertTemplates, Goto, At, Active
  <2>2. r \in RunState /\ r.w = run[k].w /\ r.pc \notin {"idle", "upsert"}
    BY <1>1 DEF RunState, Step, Outcome
  <2> HIDE DEF r
  <2> QED
    BY <1>1, <2>1, <2>2, AdvanceKeepsRunsTyped
<1>18. CASE MarkStaleFindings(k)
  <2> DEFINE r == [run[k] EXCEPT !.pc = "finalize"]
  <2>1. Active(k) /\ run' = [run EXCEPT ![k] = r]
    BY <1>1, <1>18 DEF MarkStaleFindings, Goto, At, Active
  <2>2. r \in RunState /\ r.w = run[k].w /\ r.pc \notin {"idle", "upsert"}
    BY <1>1 DEF RunState, Step, Outcome
  <2> HIDE DEF r
  <2> QED
    BY <1>1, <2>1, <2>2, AdvanceKeepsRunsTyped
<1>19. CASE AnswerParsed(k)
  <2>1. PICK found \in Answer(run[k].w) :
          run' = [run EXCEPT ![k].pc = "choose", ![k].todo = found]
    BY <1>19 DEF AnswerParsed
  <2> DEFINE r == [run[k] EXCEPT !.pc = "choose", !.todo = found]
  <2>2. Active(k) /\ run' = [run EXCEPT ![k] = r]
    BY <1>1, <1>19, <2>1 DEF AnswerParsed, EndCall, At, Active
  <2>3. found \in Seq((SUBSET Template) \ {{}})
    <3>1. run[k].w \in Window
      BY <1>2, <1>19 DEF AnswerParsed, EndCall
    <3> QED
      BY <3>1, AnswerTyped
  <2>4. r \in RunState /\ r.w = run[k].w /\ r.pc \notin {"idle", "upsert"}
    BY <1>1, <2>3 DEF RunState, Step
  <2> HIDE DEF r
  <2> QED
    BY <1>1, <2>2, <2>4, AdvanceKeepsRunsTyped
<1>20. CASE RecordAttempt(k) \/ CloseWindow(k) \/ Finalize(k) \/ Expire(k)
  BY <1>1, <1>20, ReturnKeepsRunsTyped DEF RecordAttempt, CloseWindow, Finalize, Expire
<1> QED
  BY <1>3, <1>4, <1>5, <1>6, <1>7, <1>8, <1>9, <1>10, <1>11, <1>12, <1>13, <1>14, <1>15, <1>16, <1>17, <1>18, <1>19, <1>20 DEF Proceed

\* So does every other step: a run begins, the store fails, the process dies.
LEMMA StepKeepsRunsTyped ==
  ASSUME TypeOK, RunsTyped, Next
  PROVE  RunsTyped'
<1>1. ASSUME NEW k \in Worker, NEW w \in Window, Begin(k, w)
      PROVE  RunsTyped'
  <2> DEFINE r == [NotRunning EXCEPT !.pc = "refresh", !.w = w, !.at = clock]
  <2>1. run' = [run EXCEPT ![k] = r]
    BY <1>1 DEF Begin, StartRun
  <2>2. clock \in Nat /\ w # NoWindow
    BY BoundsAssumption, NothingAssumption DEF TypeOK
  <2>3. r \in RunState
    BY <2>2, NotRunningTyped DEF RunState, Step
  <2>4. r.pc = "refresh" /\ r.w = w
    BY DEF NotRunning
  <2>5. \A l \in Worker : run'[l] = IF l = k THEN r ELSE run[l]
    BY <2>1 DEF RunsTyped
  <2>6. run' \in [Worker -> RunState]
    BY <2>1, <2>3 DEF RunsTyped
  <2> HIDE DEF r
  <2> QED
    BY <2>2, <2>4, <2>5, <2>6 DEF RunsTyped, Active, At
<1>2. ASSUME NEW k \in Worker, StoreFails(k)
      PROVE  RunsTyped'
  BY <1>2, ReturnKeepsRunsTyped DEF StoreFails
<1>3. CASE Crash
  <2>1. \A l \in Worker : run'[l] = NotRunning
    BY <1>3 DEF Crash
  <2>2. run' \in [Worker -> RunState]
    BY <1>3, NotRunningTyped DEF Crash
  <2> QED
    BY <2>1, <2>2 DEF RunsTyped, Active, At, NotRunning
<1>4. CASE Tick
  BY <1>4 DEF Tick, RunsTyped, Active, At
<1> QED
  BY <1>1, <1>2, <1>3, <1>4, ProceedKeepsRunsTyped DEF Next

-----------------------------------------------------------------------------
(* The order of a run's steps. *)

\* A step of a run leaves the other runs alone; it returns or goes on, with
\* the same window, to the step that Process takes next.
LEMMA Moves ==
  ASSUME RunsTyped, NEW k \in Worker, Proceed(k)
  PROVE  /\ \A l \in Worker \ {k} : run'[l] = run[l]
         /\ \/ run'[k] = NotRunning
            \/ run'[k].w = run[k].w /\ run'[k].pc # "idle"
         /\ At(k, "llm")' => Acquire(k)
         /\ At(k, "cap")' => ReadKnown(k)
         /\ At(k, "spend")' => UnderCap(k)
         /\ At(k, "templates")' => Suppress(k) \/ GateOut(k) \/ FindingsStored(k)
<1>1. run[k] \in RunState /\ k \in DOMAIN run
  BY DEF RunsTyped
<1> USE DEF At
<1>2. CASE Refresh(k)
  <2>1. run'[k].pc = "known" /\ run'[k].w = run[k].w /\ \A l \in Worker \ {k} : run'[l] = run[l]
    BY <1>1, <1>2 DEF Refresh, Goto, RunState
  <2> QED
    BY <2>1, <1>2
<1>3. CASE ReadKnown(k)
  <2> DEFINE r == [run[k] EXCEPT !.pc = "cap",
                               !.novel = Novel(RunLines(k), templates[Owner(k)], Start[run[k].w])]
  <2>1. run' = [run EXCEPT ![k] = r]
    BY <1>1, <1>3 DEF ReadKnown
  <2>2. r.pc = "cap" /\ r.w = run[k].w
    BY <1>1 DEF RunState
  <2> HIDE DEF r
  <2> QED
    BY <1>1, <1>3, <2>1, <2>2
<1>4. CASE Suppress(k)
  <2> DEFINE r == [run[k] EXCEPT !.pc = "templates", !.outcome = "suppressed", !.recAt = clock]
  <2>1. run' = [run EXCEPT ![k] = r]
    BY <1>1, <1>4 DEF Suppress
  <2>2. r.pc = "templates" /\ r.w = run[k].w
    BY <1>1 DEF RunState
  <2> HIDE DEF r
  <2> QED
    BY <1>1, <1>4, <2>1, <2>2
<1>5. CASE UnderCap(k)
  <2> DEFINE r == [run[k] EXCEPT !.pc = "spend", !.day = DayStart]
  <2>1. run' = [run EXCEPT ![k] = r]
    BY <1>1, <1>5 DEF UnderCap
  <2>2. r.pc = "spend" /\ r.w = run[k].w
    BY <1>1 DEF RunState
  <2> HIDE DEF r
  <2> QED
    BY <1>1, <1>5, <2>1, <2>2
<1>6. CASE GateIn(k)
  <2>1. run'[k].pc = "open" /\ run'[k].w = run[k].w /\ \A l \in Worker \ {k} : run'[l] = run[l]
    BY <1>1, <1>6 DEF GateIn, Goto, RunState
  <2> QED
    BY <2>1, <1>6
<1>7. CASE GateOut(k)
  <2> DEFINE r == [run[k] EXCEPT !.pc = "templates", !.outcome = "gated_out", !.recAt = clock]
  <2>1. run' = [run EXCEPT ![k] = r]
    BY <1>1, <1>7 DEF GateOut
  <2>2. r.pc = "templates" /\ r.w = run[k].w
    BY <1>1 DEF RunState
  <2> HIDE DEF r
  <2> QED
    BY <1>1, <1>7, <2>1, <2>2
<1>8. CASE OpenFindings(k)
  <2>1. run'[k].pc = "acquire" /\ run'[k].w = run[k].w /\ \A l \in Worker \ {k} : run'[l] = run[l]
    BY <1>1, <1>8 DEF OpenFindings, Goto, RunState
  <2> QED
    BY <2>1, <1>8
<1>9. CASE Acquire(k)
  <2>1. run'[k].pc = "llm" /\ run'[k].w = run[k].w /\ \A l \in Worker \ {k} : run'[l] = run[l]
    BY <1>1, <1>9 DEF Acquire, Goto, RunState
  <2> QED
    BY <2>1, <1>9
<1>10. CASE CallFails(k)
  <2>1. run'[k].pc = "attempt" /\ run'[k].w = run[k].w /\ \A l \in Worker \ {k} : run'[l] = run[l]
    BY <1>1, <1>10 DEF CallFails, Goto, EndCall, RunState
  <2> QED
    BY <2>1, <1>10
<1>11. CASE CallRejected(k)
  <2> DEFINE r == [run[k] EXCEPT !.pc = "close", !.outcome = "permanent"]
  <2>1. run' = [run EXCEPT ![k] = r]
    BY <1>1, <1>11 DEF CallRejected, EndCall
  <2>2. r.pc = "close" /\ r.w = run[k].w
    BY <1>1 DEF RunState
  <2> HIDE DEF r
  <2> QED
    BY <1>1, <1>11, <2>1, <2>2
<1>12. CASE AnswerUnparsed(k)
  <2> DEFINE r == [run[k] EXCEPT !.pc = "close", !.outcome = "unparsed"]
  <2>1. run' = [run EXCEPT ![k] = r]
    BY <1>1, <1>12 DEF AnswerUnparsed, EndCall
  <2>2. r.pc = "close" /\ r.w = run[k].w
    BY <1>1 DEF RunState
  <2> HIDE DEF r
  <2> QED
    BY <1>1, <1>12, <2>1, <2>2
<1>13. CASE ChooseEvidenceKey(k)
  <2> DEFINE r == [run[k] EXCEPT !.pc = "upsert", !.class = ChosenClass(Head(run[k].todo), classes)]
  <2>1. run' = [run EXCEPT ![k] = r]
    BY <1>1, <1>13 DEF ChooseEvidenceKey
  <2>2. r.pc = "upsert" /\ r.w = run[k].w
    BY <1>1 DEF RunState
  <2> HIDE DEF r
  <2> QED
    BY <1>1, <1>13, <2>1, <2>2
<1>14. CASE Upsert(k)
  <2> DEFINE r == [run[k] EXCEPT !.pc = "choose", !.class = NoClass, !.todo = Tail(@)]
  <2>1. run' = [run EXCEPT ![k] = r]
    BY <1>1, <1>14 DEF Upsert
  <2>2. r.pc = "choose" /\ r.w = run[k].w
    BY <1>1 DEF RunState
  <2> HIDE DEF r
  <2> QED
    BY <1>1, <1>14, <2>1, <2>2
<1>15. CASE FindingsStored(k)
  <2> DEFINE r == [run[k] EXCEPT !.pc = "templates", !.outcome = "analysed", !.recAt = clock]
  <2>1. run' = [run EXCEPT ![k] = r]
    BY <1>1, <1>15 DEF FindingsStored
  <2>2. r.pc = "templates" /\ r.w = run[k].w
    BY <1>1 DEF RunState
  <2> HIDE DEF r
  <2> QED
    BY <1>1, <1>15, <2>1, <2>2
<1>16. CASE UpsertTemplates(k)
  <2>1. run'[k].pc = "stale" /\ run'[k].w = run[k].w /\ \A l \in Worker \ {k} : run'[l] = run[l]
    BY <1>1, <1>16 DEF UpsertTemplates, Goto, RunState
  <2> QED
    BY <2>1, <1>16
<1>17. CASE MarkStaleFindings(k)
  <2>1. run'[k].pc = "finalize" /\ run'[k].w = run[k].w /\ \A l \in Worker \ {k} : run'[l] = run[l]
    BY <1>1, <1>17 DEF MarkStaleFindings, Goto, RunState
  <2> QED
    BY <2>1, <1>17
<1>18. CASE AnswerParsed(k)
  <2>1. PICK found \in Answer(run[k].w) :
          run' = [run EXCEPT ![k].pc = "choose", ![k].todo = found]
    BY <1>18 DEF AnswerParsed
  <2> DEFINE r == [run[k] EXCEPT !.pc = "choose", !.todo = found]
  <2>2. run' = [run EXCEPT ![k] = r]
    BY <1>1, <2>1
  <2>3. r.pc = "choose" /\ r.w = run[k].w
    BY <1>1 DEF RunState
  <2> HIDE DEF r
  <2> QED
    BY <1>1, <2>2, <2>3
<1>19. CASE RecordAttempt(k) \/ CloseWindow(k) \/ Finalize(k) \/ Expire(k)
  <2>1. run' = [run EXCEPT ![k] = NotRunning]
    BY <1>19 DEF RecordAttempt, CloseWindow, Finalize, Expire, Return
  <2>2. run'[k] = NotRunning /\ \A l \in Worker \ {k} : run'[l] = run[l]
    BY <1>1, <2>1
  <2> QED
    BY <2>2 DEF NotRunning
<1> QED
  BY <1>2, <1>3, <1>4, <1>5, <1>6, <1>7, <1>8, <1>9, <1>10, <1>11, <1>12, <1>13, <1>14, <1>15, <1>16, <1>17, <1>18, <1>19 DEF Proceed

-----------------------------------------------------------------------------
(* The call slots. *)

Calling == {k \in Worker : At(k, "llm")}

\* A call that starts takes a slot nobody has.
LEMMA CallStarts ==
  ASSUME RunsTyped, SlotsMatchCalls, NEW k \in Worker, Acquire(k)
  PROVE  SlotsMatchCalls'
<1>1. IsFiniteSet(Calling) /\ k \notin Calling
  BY WorkersAssumption, FS_Subset DEF Calling, Acquire, At
<1>2. Calling' = Calling \cup {k}
  BY DEF Calling, Acquire, Goto, At, RunsTyped
<1>3. Cardinality(Calling') = Cardinality(Calling) + 1
  BY <1>1, <1>2, FS_AddElement
<1>4. Cardinality(Calling) \in Nat
  BY <1>1, FS_CardinalityType
<1>5. slots = Cardinality(Calling) /\ slots < MaxConcurrency /\ slots' = slots + 1
  BY DEF SlotsMatchCalls, Calling, Acquire
<1> QED
  BY <1>3, <1>4, <1>5, LimitsAssumption DEF SlotsMatchCalls, Calling

\* A call that ends, whichever way, gives its slot back.
LEMMA CallEnds ==
  ASSUME RunsTyped, SlotsMatchCalls, NEW k \in Worker, EndCall(k),
         ~At(k, "llm")', \A l \in Worker \ {k} : run'[l] = run[l]
  PROVE  SlotsMatchCalls'
<1>1. IsFiniteSet(Calling) /\ k \in Calling
  BY WorkersAssumption, FS_Subset DEF Calling, EndCall
<1>2. Calling' = Calling \ {k}
  BY DEF Calling, At
<1>3. Cardinality(Calling') = Cardinality(Calling) - 1
  BY <1>1, <1>2, FS_RemoveElement
<1>4. Cardinality(Calling) \in Nat
  BY <1>1, FS_CardinalityType
<1>5. slots = Cardinality(Calling) /\ slots <= MaxConcurrency /\ slots' = slots - 1
  BY DEF SlotsMatchCalls, Calling, EndCall
<1> QED
  BY <1>3, <1>4, <1>5, LimitsAssumption DEF SlotsMatchCalls, Calling

\* No other step of a run starts or ends a call.
LEMMA OtherStepsKeepSlots ==
  ASSUME RunsTyped, SlotsMatchCalls, NEW k \in Worker,
         ~At(k, "llm"), ~At(k, "llm")', slots' = slots,
         \A l \in Worker \ {k} : run'[l] = run[l]
  PROVE  SlotsMatchCalls'
<1>1. Calling' = Calling
  BY DEF Calling, At
<1> QED
  BY <1>1 DEF SlotsMatchCalls, Calling

\* Every step keeps the slots and the calls in flight together.
LEMMA StepKeepsSlots ==
  ASSUME RunsTyped, SlotsMatchCalls, Next
  PROVE  SlotsMatchCalls'
<1>1. ASSUME NEW k \in Worker, Proceed(k)
      PROVE  SlotsMatchCalls'
  <2>1. \A l \in Worker \ {k} : run'[l] = run[l]
    BY <1>1, Moves
  <2>2. CASE Acquire(k)
    BY <2>2, CallStarts
  <2>3. CASE EndCall(k)
    <3>1. ~At(k, "llm")'
      BY <1>1, <2>3, Moves DEF EndCall, Acquire, At
    <3> QED
      BY <2>1, <2>3, <3>1, CallEnds
  <2>4. CASE ~Acquire(k) /\ ~EndCall(k)
    <3>1. ~At(k, "llm")'
      BY <1>1, <2>4, Moves
    <3>2. ~At(k, "llm") /\ slots' = slots
      <4>1. CASE Refresh(k) \/ ReadKnown(k) \/ Suppress(k) \/ UnderCap(k) \/ GateIn(k)
                 \/ GateOut(k) \/ OpenFindings(k)
        BY <4>1 DEF Refresh, ReadKnown, Suppress, UnderCap, GateIn, GateOut,
                    OpenFindings, At
      <4>2. CASE RecordAttempt(k) \/ CloseWindow(k) \/ ChooseEvidenceKey(k) \/ Upsert(k)
                 \/ FindingsStored(k)
        BY <4>2 DEF RecordAttempt, CloseWindow, ChooseEvidenceKey, Upsert,
                    FindingsStored, At
      <4>3. CASE UpsertTemplates(k) \/ MarkStaleFindings(k) \/ Finalize(k) \/ Expire(k)
        BY <4>3 DEF UpsertTemplates, MarkStaleFindings, Finalize, Expire, At
      <4> QED
        BY <1>1, <2>4, <4>1, <4>2, <4>3
           DEF Proceed, CallFails, CallRejected, AnswerUnparsed, AnswerParsed
    <3> QED
      BY <2>1, <3>1, <3>2, OtherStepsKeepSlots
  <2> QED
    BY <2>2, <2>3, <2>4
<1>2. ASSUME NEW k \in Worker, StoreFails(k)
      PROVE  SlotsMatchCalls'
  BY <1>2, OtherStepsKeepSlots DEF StoreFails, Return, NotRunning, At, RunsTyped
<1>3. ASSUME NEW k \in Worker, NEW w \in Window, Begin(k, w)
      PROVE  SlotsMatchCalls'
  BY <1>3, OtherStepsKeepSlots DEF Begin, StartRun, NotRunning, At, Active, RunsTyped
<1>4. CASE Crash
  <2>1. Calling' = {}
    BY <1>4 DEF Crash, Calling, At, NotRunning
  <2> QED
    BY <1>4, <2>1, FS_EmptySet, LimitsAssumption DEF Crash, SlotsMatchCalls, Calling
<1>5. CASE Tick
  BY <1>5 DEF Tick, SlotsMatchCalls, At
<1> QED
  BY <1>1, <1>2, <1>3, <1>4, <1>5 DEF Next

-----------------------------------------------------------------------------
(* The store. *)

\* The tables, the clock and the ghosts are of their types.
StoreTyped ==
  /\ clock \in 0..MaxClock
  /\ templates \in [System -> [Template -> Int]]
  /\ analyses \in [Window -> AnalysisRow]
  /\ findings \in [System -> [ClassKey -> FindingRow]]
  /\ classes \in [ClassKey -> Int]
  /\ faults \in 0..MaxFaults
  /\ runs \in [System -> 0..MaxRuns]
  /\ vetted \subseteq System \X Template
  /\ heard \in [System -> [ClassKey -> SUBSET Nat]]
  /\ overlapped \subseteq System

\* Only a run that is active proceeds.
LEMMA ProceedIsActive ==
  ASSUME NEW k \in Worker, Proceed(k)
  PROVE  Active(k)
  BY DEF Proceed, Active, At, Refresh, ReadKnown, Suppress, UnderCap, GateIn,
     GateOut, OpenFindings, Acquire, EndCall, CallFails, CallRejected,
     AnswerUnparsed, AnswerParsed, RecordAttempt, CloseWindow, ChooseEvidenceKey,
     Upsert, FindingsStored, UpsertTemplates, MarkStaleFindings, Finalize, Expire

\* A run works on a system's window: it reads and writes rows that exist.
LEMMA RunOwns ==
  ASSUME RunsTyped, NEW k \in Worker, Active(k)
  PROVE  /\ run[k].w \in Window /\ Owner(k) \in System
         /\ RunLines(k) \in SUBSET Template /\ Start[run[k].w] \in Nat
         /\ run[k].at \in Nat /\ run[k].recAt \in Nat /\ run[k].outcome \in Outcome
         /\ run[k].novel \in SUBSET Template
<1>1. run[k] \in RunState /\ run[k].w # NoWindow
  BY DEF RunsTyped
<1>2. run[k].w \in Window
  BY <1>1 DEF RunState
<1> QED
  BY <1>1, <1>2, WindowsAssumption DEF RunState, Owner, RunLines

\* Every step of a run writes rows of the tables' types.
LEMMA ProceedKeepsStoreTyped ==
  ASSUME StoreTyped, RunsTyped, NEW k \in Worker, Proceed(k)
  PROVE  StoreTyped'
<1>1. Active(k)
  BY ProceedIsActive
<1>2. /\ run[k].w \in Window /\ Owner(k) \in System
      /\ RunLines(k) \in SUBSET Template /\ Start[run[k].w] \in Nat
      /\ run[k].at \in Nat /\ run[k].recAt \in Nat /\ run[k].outcome \in Outcome
  BY <1>1, RunOwns
<1>3. CASE Refresh(k)
  <2> DEFINE s == Owner(k)
             now == run[k].at
             Seen(c) == RefreshFinding(findings[s][c], RunLines(k), now)
             Hit(c) == findings[s][c].evidence \cap RunLines(k) # {}
             Reseen(c) == IF Hit(c) /\ classes[c] # Never THEN Latest(classes[c], now)
                                                          ELSE classes[c]
             Heard(c) == IF Hit(c) THEN heard[s][c] \cup {now} ELSE heard[s][c]
  <2>1. /\ findings' = [findings EXCEPT ![s] = [c \in ClassKey |-> Seen(c)]]
        /\ classes' = [c \in ClassKey |-> Reseen(c)]
        /\ heard' = [heard EXCEPT ![s] = [c \in ClassKey |-> Heard(c)]]
        /\ UNCHANGED <<clock, templates, analyses, faults, runs, vetted, overlapped>>
    BY <1>2, <1>3 DEF Refresh, StoreTyped
  <2>2. s \in System /\ now \in Nat
    BY <1>2
  <2>3. ASSUME NEW c \in ClassKey
        PROVE  Seen(c) \in FindingRow /\ Reseen(c) \in Int /\ Heard(c) \in SUBSET Nat
    <3>1. findings[s][c] \in FindingRow /\ classes[c] \in Int /\ heard[s][c] \in SUBSET Nat
      BY <2>2 DEF StoreTyped
    <3>2. now \in Int /\ RunLines(k) \in SUBSET Template
      BY <1>2, <2>2
    <3> HIDE DEF now, s
    <3>3. Seen(c) \in FindingRow
      BY <3>1, <3>2, FindingRows
    <3> QED
      BY <2>2, <3>1, <3>2, <3>3, LatestIsATime
  <2> HIDE DEF Seen, Reseen, Heard, s, now
  <2> QED
    BY <2>1, <2>2, <2>3 DEF StoreTyped
<1>4. CASE Upsert(k)
  <2> DEFINE s == Owner(k)
             c == run[k].class
             now == run[k].at
             row == UpsertFinding(findings[s][c], Head(run[k].todo), now)
  <2>1. c \in ClassKey /\ now \in Nat /\ s \in System
    BY <1>2, <1>4 DEF Upsert, RunsTyped
  <2>2. Head(run[k].todo) \in SUBSET Template
    <3>1. run[k].todo \in Seq((SUBSET Template) \ {{}}) /\ run[k].todo # <<>>
      BY <1>4 DEF Upsert, RunsTyped, RunState
    <3> QED
      BY <3>1, RestOfAnswer
  <2>3. findings[s][c] \in FindingRow /\ classes[c] \in Int /\ heard[s][c] \in SUBSET Nat
    BY <2>1 DEF StoreTyped
  <2> DEFINE cited == Head(run[k].todo)
  <2>0. now \in Int /\ cited \in SUBSET Template
    BY <2>1, <2>2
  <2> HIDE DEF s, c, now, cited
  <2>4. row \in FindingRow
    <3>1. row = UpsertFinding(findings[s][c], cited, now)
      BY DEF cited
    <3> QED
      BY <2>0, <2>3, <3>1, FindingRows
  <2>5. Latest(classes[c], now) \in Int /\ heard[s][c] \cup {now} \in SUBSET Nat
    BY <2>0, <2>1, <2>3, LatestIsATime
  <2> USE DEF s, c, now
  <2>6. /\ findings' = [findings EXCEPT ![s][c] = row]
        /\ classes' = [classes EXCEPT ![c] = Latest(classes[c], now)]
        /\ heard' = [heard EXCEPT ![s][c] = heard[s][c] \cup {now}]
        /\ UNCHANGED <<clock, templates, analyses, faults, runs, vetted, overlapped>>
    BY <1>4 DEF Upsert
  <2> HIDE DEF row, s, c, now
  <2> QED
    BY <2>1, <2>4, <2>5, <2>6 DEF StoreTyped
<1>5. CASE UpsertTemplates(k)
  <2> DEFINE s == Owner(k)
             start == Start[run[k].w]
             Seen(t) == IF t \in RunLines(k) THEN Latest(templates[s][t], start)
                                             ELSE templates[s][t]
  <2>1. /\ templates' = [templates EXCEPT ![s] = [t \in Template |-> Seen(t)]]
        /\ UNCHANGED <<clock, analyses, findings, classes, faults, runs, vetted, heard, overlapped>>
    BY <1>2, <1>5 DEF UpsertTemplates, StoreTyped, ghosts
  <2>2. ASSUME NEW t \in Template
        PROVE  Seen(t) \in Int
    <3>1. templates[s][t] \in Int /\ start \in Int
      BY <1>2 DEF StoreTyped
    <3> QED
      BY <3>1, LatestIsATime
  <2> HIDE DEF Seen, s
  <2> QED
    BY <2>1, <2>2 DEF StoreTyped
<1>6. CASE MarkStaleFindings(k)
  <2> DEFINE s == Owner(k)
             cutoff == run[k].recAt - StaleAfter
             Seen(c) == MarkStale(findings[s][c], cutoff)
  <2>1. /\ findings' = [findings EXCEPT ![s] = [c \in ClassKey |-> Seen(c)]]
        /\ UNCHANGED <<clock, templates, analyses, classes, faults, runs, vetted, heard, overlapped>>
    BY <1>2, <1>6 DEF MarkStaleFindings, StoreTyped, ghosts
  <2>2. ASSUME NEW c \in ClassKey
        PROVE  Seen(c) \in FindingRow
    <3>1. findings[s][c] \in FindingRow /\ cutoff \in Int
      BY <1>2, TimeoutAssumption DEF StoreTyped
    <3> QED
      BY <3>1, FindingRows
  <2> HIDE DEF Seen, s
  <2> QED
    BY <2>1, <2>2 DEF StoreTyped
<1>7. CASE RecordAttempt(k) \/ CloseWindow(k) \/ Finalize(k)
  <2> DEFINE outcome == run[k].outcome
             called == outcome = "analysed"
             cost == IF called THEN 1 ELSE 0
  <2>1. PICK row \in {RecordAttemptError(analyses[run[k].w]),
                      FinalizeAnalysis(analyses[run[k].w], outcome, TRUE, 0),
                      FinalizeAnalysis(analyses[run[k].w], outcome, called, cost)} :
          /\ analyses' = [analyses EXCEPT ![run[k].w] = row]
          /\ UNCHANGED <<clock, templates, findings, classes, faults, runs, vetted, heard, overlapped>>
    BY <1>7 DEF RecordAttempt, CloseWindow, Finalize, ghosts
  <2>2. analyses[run[k].w] \in AnalysisRow /\ outcome \in Outcome /\ clock \in Nat
    BY <1>2, BoundsAssumption DEF StoreTyped
  <2>3. called \in BOOLEAN /\ cost \in Nat
    OBVIOUS
  <2>4. row \in AnalysisRow
    <3> HIDE DEF outcome, called, cost
    <3> QED
      BY <2>1, <2>2, <2>3, LedgerRows
  <2> QED
    BY <2>1, <2>4 DEF StoreTyped
<1>8. CASE Suppress(k) \/ FindingsStored(k)
  <2>1. /\ vetted' = vetted \cup {<<Owner(k), t>> : t \in RunLines(k)}
        /\ UNCHANGED <<clock, store, faults, runs, heard, overlapped>>
    BY <1>8 DEF Suppress, FindingsStored
  <2> QED
    BY <1>2, <2>1 DEF StoreTyped, store
<1>9. CASE UNCHANGED <<clock, store, faults, runs, ghosts>>
  BY <1>9 DEF StoreTyped, store, ghosts
<1> QED
  BY <1>3, <1>4, <1>5, <1>6, <1>7, <1>8, <1>9
     DEF Proceed, ReadKnown, UnderCap, GateIn, GateOut, OpenFindings, Acquire,
     EndCall, CallFails, CallRejected, AnswerUnparsed, AnswerParsed,
     ChooseEvidenceKey, Expire

\* So does a run that begins; nothing else writes.
LEMMA StepKeepsStoreTyped ==
  ASSUME StoreTyped, RunsTyped, Next
  PROVE  StoreTyped'
<1>1. ASSUME NEW k \in Worker, NEW w \in Window, Begin(k, w)
      PROVE  StoreTyped'
  <2>1. analyses[w] \in AnalysisRow /\ clock \in Nat /\ SystemOf[w] \in System
    BY BoundsAssumption, WindowsAssumption DEF StoreTyped
  <2>2. BeginAnalysis(analyses[w], clock) \in AnalysisRow
    BY <2>1, LedgerRows DEF Outcome
  <2>3. runs[SystemOf[w]] + 1 \in 0..MaxRuns
    BY <1>1, <2>1, BoundsAssumption DEF StoreTyped, Begin
  <2>4. /\ analyses' = [analyses EXCEPT ![w] = BeginAnalysis(analyses[w], clock)]
        /\ runs' = [runs EXCEPT ![SystemOf[w]] = runs[SystemOf[w]] + 1]
        /\ overlapped' \in {overlapped, overlapped \cup {SystemOf[w]}}
        /\ UNCHANGED <<clock, templates, findings, classes, faults, vetted, heard>>
    BY <1>1 DEF Begin, StartRun
  <2> QED
    BY <2>1, <2>2, <2>3, <2>4 DEF StoreTyped
<1>2. CASE (\E k \in Worker : StoreFails(k)) \/ Crash
  BY <1>2, BoundsAssumption DEF StoreFails, Crash, StoreTyped, store, ghosts
<1>3. CASE Tick
  BY <1>3, BoundsAssumption DEF Tick, StoreTyped, store, ghosts
<1> QED
  BY <1>1, <1>2, <1>3, ProceedKeepsStoreTyped DEF Next

-----------------------------------------------------------------------------
(* Type correctness and the slots. *)

\* The inductive invariant: types, what a worker holds, and the slots.
Inv == StoreTyped /\ RunsTyped /\ SlotsMatchCalls

\* Process, Controller and the store start with nothing in them.
LEMMA InvHoldsAtStart == Init => Inv
<1> SUFFICES ASSUME Init PROVE Inv
  OBVIOUS
<1>1. StoreTyped
  BY BoundsAssumption
     DEF Init, StoreTyped, NoAnalysis, AnalysisRow, Outcome, NoFinding, FindingRow, Never
<1>2. RunsTyped
  BY NotRunningTyped DEF Init, RunsTyped, Active, At, NotRunning
<1>3. SlotsMatchCalls
  <2>1. {k \in Worker : At(k, "llm")} = {}
    BY DEF Init, At, NotRunning
  <2>2. Cardinality({k \in Worker : At(k, "llm")}) = 0 /\ slots = 0
    BY <2>1, FS_EmptySet DEF Init
  <2> QED
    BY <2>2, LimitsAssumption DEF SlotsMatchCalls
<1> QED
  BY <1>1, <1>2, <1>3 DEF Inv

\* The invariant gives the type invariant.
LEMMA InvImpliesTypeOK == Inv => TypeOK
<1> SUFFICES ASSUME Inv PROVE TypeOK
  OBVIOUS
<1>1. slots \in 0..MaxConcurrency
  <2>1. IsFiniteSet({k \in Worker : At(k, "llm")})
    BY WorkersAssumption, FS_Subset
  <2>2. Cardinality({k \in Worker : At(k, "llm")}) \in Nat
    BY <2>1, FS_CardinalityType
  <2> QED
    BY <2>2, LimitsAssumption DEF Inv, SlotsMatchCalls
<1> QED
  BY <1>1 DEF Inv, StoreTyped, RunsTyped, TypeOK

\* Every step keeps the invariant.
LEMMA StepKeepsInv == Inv /\ [Next]_vars => Inv'
<1> SUFFICES ASSUME Inv, [Next]_vars PROVE Inv'
  OBVIOUS
<1>1. CASE Next
  <2>1. StoreTyped /\ RunsTyped /\ SlotsMatchCalls /\ TypeOK
    BY InvImpliesTypeOK DEF Inv
  <2> QED
    BY <1>1, <2>1, StepKeepsStoreTyped, StepKeepsRunsTyped, StepKeepsSlots DEF Inv
<1>2. CASE UNCHANGED vars
  BY <1>2 DEF vars, store, ghosts, Inv, StoreTyped, RunsTyped, SlotsMatchCalls,
              Active, At
<1> QED
  BY <1>1, <1>2

\* The invariant always holds.
LEMMA InvAlways == Spec => []Inv
  BY InvHoldsAtStart, StepKeepsInv, PTL DEF Spec

\* Type correctness: the ledger, the findings, the classes and the templates
\* keep their types whatever the workers, failures and crashes do.
THEOREM TypeCorrect == Spec => []TypeOK
  BY InvAlways, InvImpliesTypeOK, PTL

\* The call slots: a slot is taken exactly by each call in flight, for any
\* number of workers, on every error path and across crashes.
THEOREM SlotsMatch == Spec => []SlotsMatchCalls
<1>1. Inv => SlotsMatchCalls
  BY DEF Inv
<1> QED
  BY <1>1, InvAlways, PTL

-----------------------------------------------------------------------------
(* A completed analysis is final. *)

\* What makes it so: a window is in one worker's hands, and is not completed
\* while it is.
HeldOpen ==
  /\ \A k, l \in Worker : Active(k) /\ run[k].w = run[l].w => k = l
  /\ \A k \in Worker : Active(k) => ~analyses[run[k].w].completed

\* A run writes to its own window's row, and returns when it completes it.
LEMMA LedgerWrites ==
  ASSUME StoreTyped, RunsTyped, NEW k \in Worker, Proceed(k)
  PROVE  /\ \A w \in Window : w # run[k].w => analyses'[w] = analyses[w]
         /\ \/ run'[k] = NotRunning
            \/ analyses' = analyses
<1>1. k \in DOMAIN run /\ analyses \in [Window -> AnalysisRow]
  BY DEF StoreTyped, RunsTyped
<1>2. CASE RecordAttempt(k) \/ CloseWindow(k) \/ Finalize(k)
  <2>1. PICK row : analyses' = [analyses EXCEPT ![run[k].w] = row]
    BY <1>2 DEF RecordAttempt, CloseWindow, Finalize
  <2>2. run'[k] = NotRunning
    BY <1>1, <1>2 DEF RecordAttempt, CloseWindow, Finalize, Return
  <2> QED
    BY <1>1, <2>1, <2>2
<1>3. CASE analyses' = analyses
  BY <1>3
<1> QED
  BY <1>2, <1>3
     DEF Proceed, store, Refresh, ReadKnown, Suppress, UnderCap, GateIn, GateOut,
     OpenFindings, Acquire, EndCall, CallFails, CallRejected, AnswerUnparsed,
     AnswerParsed, ChooseEvidenceKey, Upsert, FindingsStored, UpsertTemplates,
     MarkStaleFindings, Expire

\* Every step keeps windows in one worker's hands, and open.
LEMMA StepKeepsHeldOpen ==
  ASSUME StoreTyped, RunsTyped, HeldOpen, [Next]_vars
  PROVE  HeldOpen'
<1>1. /\ run \in [Worker -> RunState]
      /\ \A l \in Worker : Active(l) => run[l].w \in Window
  BY RunOwns DEF RunsTyped
<1>2. ASSUME NEW k \in Worker, NEW w \in Window, Begin(k, w)
      PROVE  HeldOpen'
  <2> DEFINE r == [NotRunning EXCEPT !.pc = "refresh", !.w = w, !.at = clock]
  <2>1. run' = [run EXCEPT ![k] = r] /\ r.w = w
    BY <1>2 DEF Begin, StartRun, NotRunning
  <2>2. \A l \in Worker : run[l].w # w
    BY <1>2 DEF Begin
  <2>3. ~analyses[w].completed
    BY <1>2 DEF Begin, StartRun, Claimable
  <2>4. analyses' = [analyses EXCEPT ![w] = BeginAnalysis(analyses[w], clock)]
    BY <1>2 DEF Begin, StartRun
  <2>5. analyses'[w].completed = analyses[w].completed
    <3>1. analyses[w] \in AnalysisRow
      BY DEF StoreTyped
    <3> QED
      BY <2>4, <3>1 DEF BeginAnalysis, AnalysisRow, StoreTyped
  <2>6. \A l \in Worker \ {k} : run'[l] = run[l] /\ run[l].w # w
    BY <1>1, <2>1, <2>2
  <2>7. run'[k] = r
    BY <1>1, <2>1
  <2>8. \A v \in Window : v # w => analyses'[v] = analyses[v]
    BY <2>4 DEF StoreTyped
  <2> HIDE DEF r
  <2> QED
    BY <1>1, <2>1, <2>3, <2>5, <2>6, <2>7, <2>8 DEF HeldOpen, Active
<1>3. ASSUME NEW k \in Worker, Proceed(k)
      PROVE  HeldOpen'
  <2>1. /\ \A l \in Worker \ {k} : run'[l] = run[l]
        /\ \/ run'[k] = NotRunning
           \/ run'[k].w = run[k].w /\ run'[k].pc # "idle"
    BY <1>3, Moves
  <2>2. /\ \A w \in Window : w # run[k].w => analyses'[w] = analyses[w]
        /\ run'[k] = NotRunning \/ analyses' = analyses
    BY <1>3, LedgerWrites
  <2>3. Active(k)
    BY <1>3, ProceedIsActive
  <2>4. \A l \in Worker \ {k} : Active(l) => run[l].w # run[k].w
    BY DEF HeldOpen
  <2>5. ASSUME NEW l \in Worker, NEW m \in Worker, Active(l)', run'[l].w = run'[m].w
        PROVE  l = m
    <3>1. CASE run'[k] = NotRunning
      <4>1. \A n \in Worker \ {k} : Active(n) => run[n].w # NoWindow
        BY DEF RunsTyped
      <4>2. NotRunning.pc = "idle" /\ NotRunning.w = NoWindow
        BY DEF NotRunning
      <4> QED
        BY <2>1, <2>5, <3>1, <4>1, <4>2 DEF HeldOpen, Active
    <3>2. CASE run'[k].w = run[k].w
      BY <2>1, <2>3, <2>4, <2>5, <3>2 DEF HeldOpen, Active
    <3> QED
      BY <2>1, <3>1, <3>2
  <2>6. ASSUME NEW l \in Worker, Active(l)'
        PROVE  ~analyses'[run'[l].w].completed
    <3>1. CASE run'[k] = NotRunning
      <4>1. l # k
        BY <2>6, <3>1 DEF Active, NotRunning
      <4> QED
        BY <1>1, <2>1, <2>2, <2>4, <2>6, <4>1 DEF HeldOpen, Active
    <3>2. CASE analyses' = analyses /\ run'[k].w = run[k].w
      BY <2>1, <2>3, <2>6, <3>2 DEF HeldOpen, Active
    <3> QED
      BY <2>1, <2>2, <3>1, <3>2
  <2> QED
    BY <2>5, <2>6 DEF HeldOpen
<1>4. ASSUME NEW k \in Worker, StoreFails(k)
      PROVE  HeldOpen'
  <2>1. run' = [run EXCEPT ![k] = NotRunning] /\ analyses' = analyses
    BY <1>4 DEF StoreFails, Return, store
  <2>2. \A l \in Worker : run'[l] = IF l = k THEN NotRunning ELSE run[l]
    BY <1>1, <2>1
  <2>3. NotRunning.pc = "idle" /\ NotRunning.w = NoWindow
    BY DEF NotRunning
  <2>4. \A l \in Worker : Active(l) => run[l].w # NoWindow
    BY DEF RunsTyped
  <2> QED
    BY <2>1, <2>2, <2>3, <2>4 DEF HeldOpen, Active
<1>5. CASE Crash
  BY <1>5 DEF Crash, HeldOpen, Active, NotRunning
<1>6. CASE Tick \/ UNCHANGED vars
  BY <1>6 DEF Tick, vars, store, HeldOpen, Active
<1> QED
  BY <1>2, <1>3, <1>4, <1>5, <1>6 DEF Next

\* The queue's promise and Claimable keep a window's row for one run at a time.
LEMMA HeldOpenAlways == Spec => []HeldOpen
<1>1. Init => HeldOpen
  BY DEF Init, HeldOpen, Active, NotRunning
<1>2. Inv /\ HeldOpen /\ [Next]_vars => HeldOpen'
  BY StepKeepsHeldOpen DEF Inv
<1> QED
  BY <1>1, <1>2, InvAlways, PTL DEF Spec

\* The ledger: no resend, retry, late failure or crash touches the row of a
\* completed analysis, so a window is billed and counted once.
THEOREM CompletedFinal == Spec => CompletedIsFinal
<1> DEFINE Kept == \A w \in Window : analyses[w].completed => analyses'[w] = analyses[w]
<1>1. Inv /\ HeldOpen /\ [Next]_vars => Kept
  <2> SUFFICES ASSUME Inv, HeldOpen, [Next]_vars, NEW v \in Window, analyses[v].completed
               PROVE  analyses'[v] = analyses[v]
    OBVIOUS
  <2>1. ASSUME NEW k \in Worker, NEW w \in Window, Begin(k, w)
        PROVE  analyses'[v] = analyses[v]
    BY <2>1 DEF Begin, StartRun, Claimable, Inv, StoreTyped
  <2>2. ASSUME NEW k \in Worker, Proceed(k)
        PROVE  analyses'[v] = analyses[v]
    <3>1. v # run[k].w
      BY <2>2, ProceedIsActive DEF HeldOpen
    <3> QED
      BY <2>2, <3>1, LedgerWrites DEF Inv
  <2>3. CASE (\E k \in Worker : StoreFails(k)) \/ Crash \/ Tick \/ UNCHANGED vars
    BY <2>3 DEF StoreFails, Crash, Tick, vars, store
  <2> QED
    BY <2>1, <2>2, <2>3 DEF Next
<1>2. Inv /\ HeldOpen /\ [Next]_vars => [Kept]_vars
  BY <1>1
<1> QED
  BY <1>2, InvAlways, HeldOpenAlways, PTL DEF Spec, CompletedIsFinal

-----------------------------------------------------------------------------
(* Security lines are vetted before they are known. *)

Vetted(k, lines) == \A t \in lines \cap Security : <<Owner(k), t>> \in vetted

\* What makes it so: until the gate votes, a security line of the window is
\* novel or already vetted; when record begins, all of them are vetted.
LinesVetted ==
  /\ \A k \in Worker :
       At(k, "cap") \/ At(k, "spend") => Vetted(k, RunLines(k) \ run[k].novel)
  /\ \A k \in Worker : At(k, "templates") => Vetted(k, RunLines(k))

\* The gate never takes a security line for a variant of a known one: what is
\* not novel has been sent before.
LEMMA SecurityIsNovel ==
  ASSUME NEW lines, NEW known, NEW start, NEW t \in lines \cap Security,
         t \notin Novel(lines, known, start)
  PROVE  known[t] # Never
  BY DEF Novel, Unknown, NearKnown

\* A new security line pays for a call, whatever the spend: a window gated
\* out has none.
LEMMA GatedOutHasNoNewSecurity ==
  ASSUME NEW novel, NEW securityOnly, ~Call(novel, securityOnly)
  PROVE  novel \cap Security = {}
  BY DEF Call

\* What has been vetted stays vetted: no step of Process forgets it.
LEMMA VettedGrows ==
  ASSUME Next
  PROVE  vetted \subseteq vetted'
  BY DEF Next, Begin, StartRun, StoreFails, Crash, Tick, store, ghosts,
     Proceed, Refresh, ReadKnown, Suppress, UnderCap, GateIn, GateOut,
     OpenFindings, Acquire, EndCall, CallFails, CallRejected, AnswerUnparsed,
     AnswerParsed, RecordAttempt, CloseWindow, ChooseEvidenceKey, Upsert,
     FindingsStored, UpsertTemplates, MarkStaleFindings, Finalize, Expire

\* A step of a run keeps what its own later steps rely on.
LEMMA OwnLinesVetted ==
  ASSUME StoreTyped, RunsTyped, SecurityLinesVetted, LinesVetted,
         NEW k \in Worker, Proceed(k)
  PROVE  /\ At(k, "cap")' \/ At(k, "spend")' => Vetted(k, RunLines(k) \ run[k].novel)'
         /\ At(k, "templates")' => Vetted(k, RunLines(k))'
<1>1. k \in DOMAIN run /\ run[k] \in RunState
  BY DEF RunsTyped
<1>2. /\ Active(k) /\ run[k].w \in Window /\ Owner(k) \in System
      /\ RunLines(k) \in SUBSET Template
  BY ProceedIsActive, RunOwns
<1>3. vetted \subseteq vetted'
  BY VettedGrows DEF Next
<1>4. ASSUME run'[k].pc # "idle"
      PROVE  run'[k].w = run[k].w /\ Owner(k)' = Owner(k) /\ RunLines(k)' = RunLines(k)
  BY <1>4, Moves DEF NotRunning, Owner, RunLines
<1>5. ASSUME At(k, "cap")'
      PROVE  Vetted(k, RunLines(k) \ run[k].novel)'
  <2> DEFINE novel == Novel(RunLines(k), templates[Owner(k)], Start[run[k].w])
             r == [run[k] EXCEPT !.pc = "cap", !.novel = novel]
  <2>1. ReadKnown(k)
    BY <1>5, Moves
  <2>2. run' = [run EXCEPT ![k] = r]
    BY <1>1, <2>1 DEF ReadKnown
  <2>3. r.novel = novel
    BY <1>1 DEF RunState
  <2>4. run'[k].novel = novel
    <3> HIDE DEF r
    <3> QED
      BY <1>1, <2>2, <2>3
  <2>5. ASSUME NEW t \in (RunLines(k) \ novel) \cap Security
        PROVE  <<Owner(k), t>> \in vetted
    <3>1. templates[Owner(k)][t] # Never
      BY SecurityIsNovel
    <3> QED
      BY <1>2, <3>1 DEF SecurityLinesVetted
  <2> HIDE DEF novel
  <2> QED
    BY <1>3, <1>4, <1>5, <2>4, <2>5 DEF Vetted, At
<1>6. ASSUME At(k, "spend")'
      PROVE  Vetted(k, RunLines(k) \ run[k].novel)'
  <2> DEFINE r == [run[k] EXCEPT !.pc = "spend", !.day = DayStart]
  <2>1. UnderCap(k)
    BY <1>6, Moves
  <2>2. run' = [run EXCEPT ![k] = r]
    BY <1>1, <2>1 DEF UnderCap
  <2>3. r.novel = run[k].novel
    BY <1>1 DEF RunState
  <2>4. run'[k].novel = run[k].novel
    <3> HIDE DEF r
    <3> QED
      BY <1>1, <2>2, <2>3
  <2>5. Vetted(k, RunLines(k) \ run[k].novel)
    BY <2>1 DEF LinesVetted, UnderCap
  <2> QED
    BY <1>3, <1>4, <1>6, <2>4, <2>5 DEF Vetted, At
<1>7. ASSUME At(k, "templates")'
      PROVE  Vetted(k, RunLines(k))'
  <2>1. CASE Suppress(k) \/ FindingsStored(k)
    <3>1. vetted' = vetted \cup {<<Owner(k), t>> : t \in RunLines(k)}
      BY <2>1 DEF Suppress, FindingsStored
    <3> QED
      BY <1>4, <1>7, <3>1 DEF Vetted, At
  <2>2. CASE GateOut(k)
    <3>1. run[k].novel \cap Security = {}
      BY <2>2, GatedOutHasNoNewSecurity DEF GateOut
    <3>2. Vetted(k, RunLines(k) \ run[k].novel)
      BY <2>2 DEF LinesVetted, GateOut
    <3>3. Vetted(k, RunLines(k))
      BY <3>1, <3>2 DEF Vetted
    <3> QED
      BY <1>3, <1>4, <1>7, <3>3 DEF Vetted, At
  <2> QED
    BY <1>7, <2>1, <2>2, Moves
<1> QED
  BY <1>5, <1>6, <1>7

\* Every step keeps the lines of the runs vetted.
LEMMA StepKeepsLinesVetted ==
  ASSUME StoreTyped, RunsTyped, SecurityLinesVetted, LinesVetted, Next
  PROVE  LinesVetted'
<1>1. vetted \subseteq vetted'
  BY VettedGrows
<1> DEFINE Good(l) == /\ At(l, "cap") \/ At(l, "spend") => Vetted(l, RunLines(l) \ run[l].novel)
                      /\ At(l, "templates") => Vetted(l, RunLines(l))
<1>2. ASSUME NEW l \in Worker, run'[l] = run[l]
      PROVE  Good(l)'
  BY <1>1, <1>2 DEF LinesVetted, Vetted, At, Owner, RunLines
<1>3. ASSUME NEW l \in Worker, run'[l].pc \in {"idle", "refresh"}
      PROVE  Good(l)'
  BY <1>3 DEF At
<1>4. ASSUME NEW k \in Worker, NEW w \in Window, Begin(k, w)
      PROVE  LinesVetted'
  <2> DEFINE r == [NotRunning EXCEPT !.pc = "refresh", !.w = w, !.at = clock]
  <2>1. run' = [run EXCEPT ![k] = r] /\ r.pc = "refresh"
    BY <1>4 DEF Begin, StartRun, NotRunning
  <2> HIDE DEF r
  <2>2. run'[k].pc = "refresh" /\ \A l \in Worker \ {k} : run'[l] = run[l]
    BY <2>1 DEF RunsTyped
  <2> HIDE DEF Good
  <2>3. \A l \in Worker : Good(l)'
    BY <1>2, <1>3, <2>2
  <2> QED
    BY <2>3 DEF LinesVetted, Good
<1>5. ASSUME NEW k \in Worker, Proceed(k)
      PROVE  LinesVetted'
  <2>1. Good(k)'
    BY <1>5, OwnLinesVetted
  <2>2. \A l \in Worker \ {k} : run'[l] = run[l]
    BY <1>5, Moves
  <2> HIDE DEF Good
  <2>3. \A l \in Worker : Good(l)'
    BY <1>2, <2>1, <2>2
  <2> QED
    BY <2>3 DEF LinesVetted, Good
<1>6. ASSUME NEW k \in Worker, StoreFails(k)
      PROVE  LinesVetted'
  <2>1. run'[k].pc = "idle" /\ \A l \in Worker \ {k} : run'[l] = run[l]
    BY <1>6 DEF StoreFails, Return, NotRunning, RunsTyped
  <2> HIDE DEF Good
  <2>2. \A l \in Worker : Good(l)'
    BY <1>2, <1>3, <2>1
  <2> QED
    BY <2>2 DEF LinesVetted, Good
<1>7. CASE Crash
  BY <1>7 DEF Crash, LinesVetted, At, NotRunning
<1>8. CASE Tick
  <2>1. \A l \in Worker : Good(l)'
    BY <1>2, <1>8 DEF Tick
  <2> QED
    BY <2>1 DEF LinesVetted
<1> QED
  BY <1>4, <1>5, <1>6, <1>7, <1>8 DEF Next

\* Every step keeps known security lines vetted: only UpsertTemplates makes
\* lines known, those of its window, all of them vetted.
LEMMA StepKeepsSecurityLinesVetted ==
  ASSUME StoreTyped, RunsTyped, SecurityLinesVetted, LinesVetted, Next
  PROVE  SecurityLinesVetted'
<1>1. vetted \subseteq vetted'
  BY VettedGrows
<1>2. CASE templates' = templates
  BY <1>1, <1>2 DEF SecurityLinesVetted
<1>3. ASSUME NEW k \in Worker, UpsertTemplates(k)
      PROVE  SecurityLinesVetted'
  <2> DEFINE s == Owner(k)
             Seen(t) == IF t \in RunLines(k) THEN Latest(templates[s][t], Start[run[k].w])
                                             ELSE templates[s][t]
  <2>1. templates' = [templates EXCEPT ![s] = [t \in Template |-> Seen(t)]]
    <3>1. Active(k)
      BY <1>3 DEF UpsertTemplates, At, Active
    <3>2. s \in System
      BY <3>1, RunOwns
    <3> QED
      BY <1>3, <3>2 DEF UpsertTemplates, StoreTyped
  <2>2. Vetted(k, RunLines(k))
    BY <1>3 DEF UpsertTemplates, LinesVetted
  <2> SUFFICES ASSUME NEW v \in System, NEW t \in Security, templates'[v][t] # Never
               PROVE  <<v, t>> \in vetted
    BY <1>1 DEF SecurityLinesVetted
  <2>3. CASE v = s /\ t \in RunLines(k)
    BY <2>2, <2>3 DEF Vetted
  <2>4. CASE ~(v = s /\ t \in RunLines(k))
    <3>1. t \in Template
      BY SecurityAssumption
    <3>2. templates'[v][t] = templates[v][t]
      BY <2>1, <2>4, <3>1 DEF StoreTyped
    <3> QED
      BY <3>2 DEF SecurityLinesVetted
  <2> QED
    BY <2>3, <2>4
<1> QED
  BY <1>2, <1>3 DEF Next, Begin, StartRun, StoreFails, Crash, Tick, store, ghosts,
     Proceed, Refresh, ReadKnown, Suppress, UnderCap, GateIn, GateOut,
     OpenFindings, Acquire, EndCall, CallFails, CallRejected, AnswerUnparsed,
     AnswerParsed, RecordAttempt, CloseWindow, ChooseEvidenceKey, Upsert,
     FindingsStored, MarkStaleFindings, Finalize, Expire

\* The promise to security lines: a system never comes to know one that was
\* in no window analysed to the end or stopped by the budget.
THEOREM SecurityVetted == Spec => []SecurityLinesVetted
<1>1. Init => SecurityLinesVetted /\ LinesVetted
  BY SecurityAssumption DEF Init, SecurityLinesVetted, LinesVetted, At, NotRunning
<1>2. Inv /\ SecurityLinesVetted /\ LinesVetted /\ [Next]_vars
        => (SecurityLinesVetted /\ LinesVetted)'
  <2>1. CASE Next
    BY <2>1, StepKeepsLinesVetted, StepKeepsSecurityLinesVetted DEF Inv
  <2>2. CASE UNCHANGED vars
    BY <2>2 DEF vars, store, ghosts, SecurityLinesVetted, LinesVetted, Vetted, At,
                Owner, RunLines
  <2> QED
    BY <2>1, <2>2
<1> QED
  BY <1>1, <1>2, InvAlways, PTL DEF Spec

-----------------------------------------------------------------------------
(* The budget.  Check reads the ledger long before the run it lets through   *)
(* is written there, so what bounds a day is not the ledger alone but the    *)
(* ledger together with the runs that have passed the check: that set only   *)
(* grows at the check itself.                                                *)

\* A run the gate has let through to the model: it may yet cost an answer.
Pays(k) ==
  \/ run[k].pc \in {"open", "acquire", "llm", "attempt", "close", "choose", "upsert"}
  \/ run[k].pc \in {"templates", "stale", "finalize"} /\ run[k].outcome = "analysed"

\* A run the system's cap has let through.
Checked(k) == Pays(k) \/ At(k, "spend")

\* A window of today whose call is in the ledger or may still come to be.
CallBilled(w) ==
  /\ analyses[w].created >= DayStart
  /\ \/ analyses[w].completed /\ analyses[w].called
     \/ \E k \in Worker : run[k].w = w /\ Checked(k)

\* A window of today whose answer is paid for or may still come to be.
SpendBilled(w) ==
  /\ analyses[w].created >= DayStart
  /\ \/ analyses[w].cost > 0
     \/ \E k \in Worker : run[k].w = w /\ Pays(k)

-----------------------------------------------------------------------------
(* Counting, and days. *)

\* The ledger is below a cap and every other window is in some worker's hands.
LEMMA WithinRacers ==
  ASSUME NEW S, NEW L, IsFiniteSet(L), NEW cap \in Nat, Cardinality(L) < cap,
         NEW f, S \subseteq L \cup {f[k] : k \in Worker}
  PROVE  IsFiniteSet(S) /\ Cardinality(S) <= cap + Racers
<1> DEFINE held == {f[k] : k \in Worker}
           g == [k \in Worker |-> f[k]]
<1>1. IsFiniteSet(held) /\ Cardinality(held) <= Cardinality(Worker)
  <2>1. g \in Surjection(Worker, held)
    BY DEF Surjection
  <2> QED
    BY <2>1, WorkersAssumption, FS_Surjection
<1> HIDE DEF held
<1>2. /\ IsFiniteSet(L \cup held)
      /\ Cardinality(L \cup held) = Cardinality(L) + Cardinality(held) - Cardinality(L \cap held)
  BY <1>1, FS_Union
<1>3. /\ Cardinality(L) \in Nat /\ Cardinality(held) \in Nat
      /\ Cardinality(L \cap held) \in Nat /\ Cardinality(Worker) \in Nat
  BY <1>1, WorkersAssumption, FS_CardinalityType, FS_Intersection
<1>4. S \in SUBSET (L \cup held)
  BY DEF held
<1>5. IsFiniteSet(S) /\ Cardinality(S) <= Cardinality(L \cup held)
  BY <1>2, <1>4, FS_Subset
<1>6. Cardinality(S) \in Nat
  BY <1>5, FS_CardinalityType
<1> QED
  BY <1>1, <1>2, <1>3, <1>5, <1>6 DEF Racers

\* A later tick is not of an earlier day.
LEMMA DaysGoForward ==
  ASSUME NEW m \in Nat, NEW n \in Nat, m <= n
  PROVE  /\ DayOf(m) * DayLength <= DayOf(n) * DayLength
         /\ DayOf(m) * DayLength \in Nat /\ DayOf(n) * DayLength \in Nat
<1>1. DayLength \in Nat \ {0}
  BY LimitsAssumption
<1>2. /\ DayOf(m) \in Nat /\ DayOf(n) \in Nat
      /\ DayOf(m) * DayLength <= m /\ n < DayOf(n) * DayLength + DayLength
  BY <1>1 DEF DayOf
<1>3. DayOf(m) <= DayOf(n)
  <2>1. SUFFICES ASSUME DayOf(n) + 1 <= DayOf(m) PROVE FALSE
    BY <1>2
  <2>2. (DayOf(n) + 1) * DayLength <= DayOf(m) * DayLength
    BY <1>1, <1>2, <2>1
  <2> QED
    BY <1>1, <1>2, <2>2
<1> QED
  BY <1>1, <1>2, <1>3

\* DayStart never goes back.
LEMMA DayStartGrows ==
  ASSUME StoreTyped, [Next]_vars
  PROVE  DayStart \in Nat /\ DayStart' \in Nat /\ DayStart <= DayStart'
<1>1. clock \in Nat /\ MaxClock \in Nat
  BY BoundsAssumption DEF StoreTyped
<1>2. clock' = clock \/ clock' = clock + 1
  BY DEF Next, Begin, StartRun, Proceed, Refresh, ReadKnown, Suppress, UnderCap,
     GateIn, GateOut, OpenFindings, Acquire, EndCall, CallFails, CallRejected,
     AnswerUnparsed, AnswerParsed, RecordAttempt, CloseWindow, ChooseEvidenceKey,
     Upsert, FindingsStored, UpsertTemplates, MarkStaleFindings, Finalize, Expire,
     StoreFails, Crash, Tick, vars
<1>3. clock' \in Nat /\ clock <= clock'
  BY <1>1, <1>2
<1> HIDE DEF DayOf
<1>4. DayStart' = DayOf(clock') * DayLength
  BY DEF DayStart, DayOf
<1> QED
  BY <1>3, <1>1, <1>4, DaysGoForward DEF DayStart

-----------------------------------------------------------------------------
(* What a run is billed for. *)

\* A step of a run makes it pay only where the gate lets it in, and puts it
\* past the cap only where the cap does.
LEMMA LetThrough ==
  ASSUME RunsTyped, NEW k \in Worker, Proceed(k)
  PROVE  /\ Pays(k)' => Pays(k) \/ GateIn(k)
         /\ Checked(k)' => Checked(k) \/ UnderCap(k)
<1>1. run[k] \in RunState /\ k \in DOMAIN run
  BY DEF RunsTyped
<1> USE DEF At
<1>2. CASE Refresh(k)
  <2> DEFINE r == [run[k] EXCEPT !.pc = "known"]
  <2>1. run'[k] = r
    BY <1>1, <1>2 DEF Refresh, Goto
  <2>2. r.pc = "known"
    BY <1>1 DEF RunState
  <2> HIDE DEF r
  <2> QED
    BY <2>1, <2>2, <1>2 DEF Pays, Checked
<1>3. CASE ReadKnown(k)
  <2> DEFINE r == [run[k] EXCEPT !.pc = "cap",
                        !.novel = Novel(RunLines(k), templates[Owner(k)], Start[run[k].w])]
  <2>1. run'[k] = r
    BY <1>1, <1>3 DEF ReadKnown
  <2>2. r.pc = "cap"
    BY <1>1 DEF RunState
  <2> HIDE DEF r
  <2> QED
    BY <2>1, <2>2, <1>3 DEF Pays, Checked
<1>4. CASE Suppress(k)
  <2> DEFINE r == [run[k] EXCEPT !.pc = "templates", !.outcome = "suppressed", !.recAt = clock]
  <2>1. run'[k] = r
    BY <1>1, <1>4 DEF Suppress
  <2>2. r.pc = "templates" /\ r.outcome = "suppressed"
    BY <1>1 DEF RunState
  <2> HIDE DEF r
  <2> QED
    BY <2>1, <2>2, <1>4 DEF Pays, Checked
<1>5. CASE UnderCap(k)
  <2> DEFINE r == [run[k] EXCEPT !.pc = "spend", !.day = DayStart]
  <2>1. run'[k] = r
    BY <1>1, <1>5 DEF UnderCap
  <2>2. r.pc = "spend"
    BY <1>1 DEF RunState
  <2> HIDE DEF r
  <2> QED
    BY <2>1, <2>2, <1>5 DEF Pays, Checked
<1>6. CASE GateOut(k)
  <2> DEFINE r == [run[k] EXCEPT !.pc = "templates", !.outcome = "gated_out", !.recAt = clock]
  <2>1. run'[k] = r
    BY <1>1, <1>6 DEF GateOut
  <2>2. r.pc = "templates" /\ r.outcome = "gated_out"
    BY <1>1 DEF RunState
  <2> HIDE DEF r
  <2> QED
    BY <2>1, <2>2, <1>6 DEF Pays, Checked
<1>7. CASE UpsertTemplates(k)
  <2> DEFINE r == [run[k] EXCEPT !.pc = "stale"]
  <2>1. run'[k] = r
    BY <1>1, <1>7 DEF UpsertTemplates, Goto
  <2>2. r.pc = "stale" /\ r.outcome = run[k].outcome
    BY <1>1 DEF RunState
  <2> HIDE DEF r
  <2> QED
    BY <2>1, <2>2, <1>7 DEF Pays, Checked, UpsertTemplates
<1>8. CASE MarkStaleFindings(k)
  <2> DEFINE r == [run[k] EXCEPT !.pc = "finalize"]
  <2>1. run'[k] = r
    BY <1>1, <1>8 DEF MarkStaleFindings, Goto
  <2>2. r.pc = "finalize" /\ r.outcome = run[k].outcome
    BY <1>1 DEF RunState
  <2> HIDE DEF r
  <2> QED
    BY <2>1, <2>2, <1>8 DEF Pays, Checked, MarkStaleFindings
<1>9. CASE GateIn(k)
  BY <1>9 DEF GateIn, Checked
<1>10. CASE \/ OpenFindings(k) \/ Acquire(k) \/ CallFails(k) \/ CallRejected(k)
         \/ AnswerUnparsed(k) \/ AnswerParsed(k) \/ ChooseEvidenceKey(k)
         \/ Upsert(k) \/ FindingsStored(k)
  BY <1>10 DEF OpenFindings, Acquire, EndCall, CallFails, CallRejected, AnswerUnparsed,
     AnswerParsed, ChooseEvidenceKey, Upsert, FindingsStored, Pays, Checked
<1>11. CASE RecordAttempt(k) \/ CloseWindow(k) \/ Finalize(k) \/ Expire(k)
  <2>1. run' = [run EXCEPT ![k] = NotRunning]
    BY <1>11 DEF RecordAttempt, CloseWindow, Finalize, Expire, Return
  <2>2. run'[k].pc = "idle"
    BY <1>1, <2>1 DEF NotRunning
  <2> QED
    BY <2>2 DEF Pays, Checked
<1> QED
  BY <1>2, <1>3, <1>4, <1>5, <1>6, <1>7, <1>8, <1>9, <1>10, <1>11 DEF Proceed

\* A run's writes to its row: created_at stays, and a call or a cost is
\* recorded only by a run that was let through.
LEMMA RowWrites ==
  ASSUME StoreTyped, RunsTyped, NEW k \in Worker, Proceed(k), NEW w \in Window
  PROVE  /\ analyses'[w].created = analyses[w].created
         /\ analyses'[w].present = analyses[w].present
         /\ analyses'[w].cost > 0 => \/ analyses[w].cost > 0
                                     \/ w = run[k].w /\ Pays(k)
         /\ analyses'[w].completed /\ analyses'[w].called
              => \/ analyses[w].completed /\ analyses[w].called
                 \/ w = run[k].w /\ Pays(k)
         /\ analyses'[w].completed
              => analyses[w].completed \/ w = run[k].w
         /\ analyses'[w].cost > 0
              => \/ analyses'[w].completed
                 \/ analyses[w].cost > 0 /\ ~analyses[w].completed
<1>1. /\ analyses[w] \in AnalysisRow /\ analyses \in [Window -> AnalysisRow]
      /\ run[k] \in RunState
  BY DEF StoreTyped, RunsTyped
<1>2. CASE w # run[k].w
  BY <1>1, <1>2, LedgerWrites
<1>3. CASE w = run[k].w /\ RecordAttempt(k)
  <2>1. analyses'[w] = RecordAttemptError(analyses[w])
    BY <1>1, <1>3 DEF RecordAttempt
  <2>2. Pays(k)
    BY <1>3 DEF RecordAttempt, At, Pays
  <2> QED
    BY <1>1, <1>3, <2>1, <2>2 DEF RecordAttemptError, AnalysisRow
<1>4. CASE w = run[k].w /\ CloseWindow(k)
  <2>1. analyses'[w] = FinalizeAnalysis(analyses[w], run[k].outcome, TRUE, 0)
    BY <1>1, <1>4 DEF CloseWindow
  <2>2. Pays(k)
    BY <1>4 DEF CloseWindow, At, Pays
  <2> QED
    BY <1>1, <1>4, <2>1, <2>2 DEF FinalizeAnalysis, AnalysisRow
<1>5. CASE w = run[k].w /\ Finalize(k)
  <2> DEFINE called == run[k].outcome = "analysed"
             cost == IF run[k].outcome = "analysed" THEN 1 ELSE 0
  <2>1. analyses'[w] = FinalizeAnalysis(analyses[w], run[k].outcome, called, cost)
    BY <1>1, <1>5 DEF Finalize
  <2>2. called \/ cost > 0 => Pays(k)
    BY <1>5 DEF Finalize, At, Pays
  <2> HIDE DEF called, cost
  <2>3. /\ analyses'[w].created = analyses[w].created
        /\ analyses'[w].present = analyses[w].present
        /\ analyses'[w].completed /\ analyses'[w].called = called
        /\ analyses'[w].cost = cost
    BY <1>1, <2>1 DEF FinalizeAnalysis, AnalysisRow
  <2> QED
    BY <1>5, <2>2, <2>3
<1>6. CASE analyses' = analyses
  BY <1>6
<1> QED
  BY <1>2, <1>3, <1>4, <1>5, <1>6
     DEF Proceed, store, Refresh, ReadKnown, Suppress, UnderCap, GateIn, GateOut,
     OpenFindings, Acquire, EndCall, CallFails, CallRejected, AnswerUnparsed,
     AnswerParsed, ChooseEvidenceKey, Upsert, FindingsStored, UpsertTemplates,
     MarkStaleFindings, Expire

-----------------------------------------------------------------------------
(* The ledger and what the runs carry from it. *)

\* What the counts rest on: finitely many rows; a call and a cost are recorded
\* in rows that exist and are closed; a run has its row, votes on lines of its
\* own window and counts from a day that is not ahead of the clock's.
Ledger ==
  /\ IsFiniteSet({w \in Window : analyses[w].present})
  /\ \A w \in Window : /\ analyses[w].completed => analyses[w].present
                       /\ analyses[w].cost > 0 => analyses[w].completed
  /\ \A k \in Worker : /\ Active(k) => analyses[run[k].w].present
                       /\ At(k, "cap") \/ At(k, "spend") => run[k].novel \subseteq RunLines(k)
                       /\ At(k, "spend") => run[k].day <= DayStart

\* Before a run can begin no row is present, and no step breaks it.
LEMMA StepKeepsLedger ==
  ASSUME StoreTyped, RunsTyped, HeldOpen, Ledger, [Next]_vars
  PROVE  Ledger'
<1>1. /\ run \in [Worker -> RunState] /\ analyses \in [Window -> AnalysisRow]
      /\ \A l \in Worker : Active(l) => run[l].w \in Window
  BY RunOwns DEF StoreTyped, RunsTyped
<1>2. DayStart \in Nat /\ DayStart' \in Nat /\ DayStart <= DayStart'
  BY DayStartGrows
<1>3. \A l \in Worker : run[l].day \in Nat
  BY <1>1 DEF RunState
<1> HIDE DEF DayStart
<1>4. ASSUME NEW k \in Worker, NEW w \in Window, Begin(k, w)
      PROVE  Ledger'
  <2> DEFINE r == [NotRunning EXCEPT !.pc = "refresh", !.w = w, !.at = clock]
  <2>1. run'[k] = r /\ \A l \in Worker \ {k} : run'[l] = run[l]
    BY <1>1, <1>4 DEF Begin, StartRun
  <2>2. r.pc = "refresh" /\ r.w = w
    BY DEF NotRunning
  <2> HIDE DEF r
  <2>3. /\ analyses'[w] = BeginAnalysis(analyses[w], clock)
        /\ \A v \in Window \ {w} : analyses'[v] = analyses[v]
        /\ ~analyses[w].completed
    BY <1>1, <1>4 DEF Begin, StartRun, Claimable
  <2>4. /\ analyses'[w].present /\ analyses'[w].completed = analyses[w].completed
        /\ analyses'[w].cost = analyses[w].cost
    BY <1>1, <2>3 DEF BeginAnalysis, AnalysisRow
  <2>5. IsFiniteSet({v \in Window : analyses'[v].present})
    <3>1. IsFiniteSet({v \in Window : analyses[v].present} \cup {w})
      BY FS_AddElement DEF Ledger
    <3>2. {v \in Window : analyses'[v].present} \in
            SUBSET ({v \in Window : analyses[v].present} \cup {w})
      BY <2>3
    <3> QED
      BY <3>1, <3>2, FS_Subset
  <2>6. \A v \in Window : /\ analyses'[v].completed => analyses'[v].present
                          /\ analyses'[v].cost > 0 => analyses'[v].completed
    BY <2>3, <2>4 DEF Ledger
  <2>7. ASSUME NEW l \in Worker
        PROVE  /\ Active(l)' => analyses'[run'[l].w].present
               /\ (At(l, "cap") \/ At(l, "spend"))' => run'[l].novel \subseteq RunLines(l)'
               /\ At(l, "spend")' => run'[l].day <= DayStart'
    <3>1. CASE l = k
      BY <2>1, <2>2, <2>4, <3>1 DEF Active, At
    <3>2. CASE l # k
      BY <1>1, <1>2, <1>3, <2>1, <2>3, <2>4, <3>2 DEF Ledger, Active, At, RunLines
    <3> QED
      BY <3>1, <3>2
  <2> QED
    BY <2>5, <2>6, <2>7 DEF Ledger
<1>5. ASSUME NEW k \in Worker, Proceed(k)
      PROVE  Ledger'
  <2>1. \A v \in Window : /\ analyses'[v].present = analyses[v].present
                          /\ analyses'[v].completed => analyses[v].completed \/ v = run[k].w
                          /\ analyses'[v].cost > 0
                               => \/ analyses'[v].completed
                                  \/ analyses[v].cost > 0 /\ ~analyses[v].completed
    BY <1>5, RowWrites
  <2>2. Active(k) /\ analyses[run[k].w].present
    BY <1>5, ProceedIsActive DEF Ledger
  <2>3. {v \in Window : analyses'[v].present} = {v \in Window : analyses[v].present}
    BY <2>1
  <2>4. \A v \in Window : /\ analyses'[v].completed => analyses'[v].present
                          /\ analyses'[v].cost > 0 => analyses'[v].completed
    BY <2>1, <2>2 DEF Ledger
  <2>5. /\ \A l \in Worker \ {k} : run'[l] = run[l]
        /\ \/ run'[k] = NotRunning
           \/ run'[k].w = run[k].w /\ run'[k].pc # "idle"
        /\ At(k, "cap")' => ReadKnown(k)
        /\ At(k, "spend")' => UnderCap(k)
    BY <1>5, Moves
  <2>6. Active(k)' => analyses'[run'[k].w].present
    BY <1>1, <2>1, <2>2, <2>5 DEF Active, NotRunning
  <2>7. ASSUME At(k, "cap")'
        PROVE  run'[k].novel \subseteq RunLines(k)'
    <3> DEFINE fresh == Novel(RunLines(k), templates[Owner(k)], Start[run[k].w])
               r == [run[k] EXCEPT !.pc = "cap", !.novel = fresh]
    <3>1. run'[k] = r
      BY <1>1, <2>5, <2>7 DEF ReadKnown
    <3>2. r.w = run[k].w /\ r.novel = fresh
      BY <1>1 DEF RunState
    <3>3. fresh \subseteq RunLines(k)
      BY DEF Novel, Unknown, Returning
    <3> HIDE DEF r, fresh
    <3> QED
      BY <3>1, <3>2, <3>3 DEF RunLines
  <2>8. ASSUME At(k, "spend")'
        PROVE  run'[k].novel \subseteq RunLines(k)' /\ run'[k].day <= DayStart'
    <3> DEFINE r == [run[k] EXCEPT !.pc = "spend", !.day = DayStart]
    <3>1. run'[k] = r /\ At(k, "cap")
      BY <1>1, <2>5, <2>8 DEF UnderCap
    <3>2. r.w = run[k].w /\ r.novel = run[k].novel /\ r.day = DayStart
      BY <1>1 DEF RunState
    <3> HIDE DEF r
    <3> QED
      BY <1>2, <3>1, <3>2 DEF RunLines, Ledger
  <2>9. ASSUME NEW l \in Worker \ {k}
        PROVE  /\ Active(l)' => analyses'[run'[l].w].present
               /\ (At(l, "cap") \/ At(l, "spend"))' => run'[l].novel \subseteq RunLines(l)'
               /\ At(l, "spend")' => run'[l].day <= DayStart'
    BY <1>1, <1>2, <1>3, <2>1, <2>5 DEF Ledger, Active, At, RunLines
  <2> QED
    BY <2>3, <2>4, <2>6, <2>7, <2>8, <2>9 DEF Ledger, At
<1>6. CASE (\E k \in Worker : StoreFails(k)) \/ Crash
  <2>1. analyses' = analyses
    BY <1>6 DEF StoreFails, Crash, store
  <2>2. \A l \in Worker : run'[l] = NotRunning \/ run'[l] = run[l]
    BY <1>1, <1>6 DEF StoreFails, Crash, Return
  <2>3. NotRunning.pc = "idle"
    BY DEF NotRunning
  <2>4. ASSUME NEW l \in Worker
        PROVE  /\ Active(l)' => analyses'[run'[l].w].present
               /\ (At(l, "cap") \/ At(l, "spend"))' => run'[l].novel \subseteq RunLines(l)'
               /\ At(l, "spend")' => run'[l].day <= DayStart'
    BY <1>2, <1>3, <2>1, <2>2, <2>3 DEF Ledger, Active, At, RunLines
  <2> QED
    BY <2>1, <2>4 DEF Ledger
<1>7. CASE Tick \/ UNCHANGED vars
  <2>1. analyses' = analyses /\ run' = run
    BY <1>7 DEF Tick, vars, store
  <2>2. \A l \in Worker : run[l].day <= DayStart => run[l].day <= DayStart'
    BY <1>2, <1>3
  <2> QED
    BY <2>1, <2>2 DEF Ledger, Active, At, RunLines
<1> QED
  BY <1>4, <1>5, <1>6, <1>7 DEF Next

-----------------------------------------------------------------------------
(* The set a cap bounds grows only at the check. *)

\* No step but the check of its own run makes a window one a run has been let
\* through for, or one that is billed.
LEMMA BilledAtCheck ==
  ASSUME StoreTyped, RunsTyped, HeldOpen, Ledger, [Next]_vars, NEW w \in Window
  PROVE  /\ CallBilled(w)' =>
              \/ CallBilled(w)
              \/ \E k \in Worker : UnderCap(k) /\ run[k].w = w
         /\ SpendBilled(w)' =>
              \/ SpendBilled(w)
              \/ \E k \in Worker : GateIn(k) /\ run[k].w = w
<1>1. run \in [Worker -> RunState] /\ analyses \in [Window -> AnalysisRow]
  BY DEF StoreTyped, RunsTyped
<1>2. DayStart \in Nat /\ DayStart' \in Nat /\ DayStart <= DayStart'
  BY DayStartGrows
<1>3. analyses[w].created \in Nat
  BY <1>1 DEF AnalysisRow
<1> HIDE DEF DayStart
<1>4. ASSUME NEW k \in Worker, NEW v \in Window, Begin(k, v)
      PROVE  /\ CallBilled(w)' => CallBilled(w)
             /\ SpendBilled(w)' => SpendBilled(w)
  <2> DEFINE r == [NotRunning EXCEPT !.pc = "refresh", !.w = v, !.at = clock]
  <2>1. run'[k] = r /\ \A l \in Worker \ {k} : run'[l] = run[l]
    BY <1>1, <1>4 DEF Begin, StartRun
  <2>2. r.pc = "refresh"
    BY DEF NotRunning
  <2> HIDE DEF r
  <2>3. ~Pays(k)' /\ ~Checked(k)'
    BY <2>1, <2>2 DEF Pays, Checked, At
  <2>4. \A l \in Worker \ {k} : /\ Pays(l)' => Pays(l)
                                /\ Checked(l)' => Checked(l)
    BY <2>1 DEF Pays, Checked, At
  <2>5. CASE w # v
    <3>1. analyses'[w] = analyses[w]
      BY <1>1, <1>4, <2>5 DEF Begin, StartRun
    <3> QED
      BY <1>2, <1>3, <2>1, <2>3, <2>4, <3>1 DEF CallBilled, SpendBilled
  <2>6. CASE w = v
    <3>1. ~analyses[w].completed /\ ~(analyses[w].cost > 0)
      BY <1>4, <2>6 DEF Begin, StartRun, Claimable, Ledger
    <3>2. analyses'[w] = BeginAnalysis(analyses[w], clock)
      BY <1>1, <1>4, <2>6 DEF Begin, StartRun
    <3>3. analyses'[w].completed = analyses[w].completed /\ analyses'[w].cost = analyses[w].cost
      BY <1>1, <3>2 DEF BeginAnalysis, AnalysisRow
    <3>4. \A l \in Worker \ {k} : run'[l].w # w
      BY <1>4, <2>1, <2>6 DEF Begin
    <3> QED
      BY <2>3, <3>1, <3>3, <3>4 DEF CallBilled, SpendBilled
  <2> QED
    BY <2>5, <2>6
<1>5. ASSUME NEW k \in Worker, Proceed(k)
      PROVE  /\ CallBilled(w)' => CallBilled(w) \/ (UnderCap(k) /\ run[k].w = w)
             /\ SpendBilled(w)' => SpendBilled(w) \/ (GateIn(k) /\ run[k].w = w)
  <2>1. /\ analyses'[w].created = analyses[w].created
        /\ analyses'[w].cost > 0 => \/ analyses[w].cost > 0
                                    \/ w = run[k].w /\ Pays(k)
        /\ analyses'[w].completed /\ analyses'[w].called
             => \/ analyses[w].completed /\ analyses[w].called
                \/ w = run[k].w /\ Pays(k)
    BY <1>5, RowWrites
  <2>2. /\ Pays(k)' => Pays(k) \/ GateIn(k)
        /\ Checked(k)' => Checked(k) \/ UnderCap(k)
    BY <1>5, LetThrough
  <2>3. /\ \A l \in Worker \ {k} : run'[l] = run[l]
        /\ \/ run'[k] = NotRunning
           \/ run'[k].w = run[k].w
    BY <1>5, Moves
  <2>4. \A l \in Worker \ {k} : /\ Pays(l)' => Pays(l)
                                /\ Checked(l)' => Checked(l)
    BY <2>3 DEF Pays, Checked, At
  <2>5. run'[k] = NotRunning => ~Pays(k)' /\ ~Checked(k)'
    BY DEF NotRunning, Pays, Checked, At
  <2>6. Pays(k) => Checked(k)
    BY DEF Checked
  <2>7. analyses'[w].created >= DayStart' => analyses[w].created >= DayStart
    BY <1>2, <1>3, <2>1
  <2> QED
    BY <2>1, <2>2, <2>3, <2>4, <2>5, <2>6, <2>7 DEF CallBilled, SpendBilled
<1>6. CASE (\E k \in Worker : StoreFails(k)) \/ Crash
  <2>1. analyses' = analyses
    BY <1>6 DEF StoreFails, Crash, store
  <2>2. \A l \in Worker : run'[l] = NotRunning \/ run'[l] = run[l]
    BY <1>1, <1>6 DEF StoreFails, Crash, Return
  <2>3. \A l \in Worker : run'[l] = NotRunning => ~Pays(l)' /\ ~Checked(l)'
    BY DEF NotRunning, Pays, Checked, At
  <2>4. \A l \in Worker : run'[l] = run[l] => /\ Pays(l)' => Pays(l)
                                              /\ Checked(l)' => Checked(l)
    BY DEF Pays, Checked, At
  <2> QED
    BY <1>2, <1>3, <2>1, <2>2, <2>3, <2>4 DEF CallBilled, SpendBilled
<1>7. CASE Tick \/ UNCHANGED vars
  <2>1. analyses' = analyses /\ run' = run
    BY <1>7 DEF Tick, vars, store
  <2> QED
    BY <1>2, <1>3, <2>1 DEF CallBilled, SpendBilled, Pays, Checked, At
<1> QED
  BY <1>4, <1>5, <1>6, <1>7 DEF Next

-----------------------------------------------------------------------------
(* The caps. *)

CallsOf(s) == {w \in Window : SystemOf[w] = s /\ CallBilled(w)}

Unsecured == {w \in Window : Lines[w] \cap Security = {}}
Spent == {w \in Unsecured : SpendBilled(w)}

CallsBounded ==
  SystemCap > 0 => \A s \in System :
    IsFiniteSet(CallsOf(s)) /\ Cardinality(CallsOf(s)) <= SystemCap + Racers

SpendBounded ==
  SpendCap > 0 => IsFiniteSet(Spent) /\ Cardinality(Spent) <= SpendCap + Racers

\* At the cap's check fewer calls than the cap are in the ledger, and what is
\* not in the ledger is in a worker's hands.
LEMMA StepKeepsCallsBounded ==
  ASSUME StoreTyped, RunsTyped, HeldOpen, Ledger, CallsBounded, [Next]_vars
  PROVE  CallsBounded'
<1> SUFFICES ASSUME SystemCap > 0, NEW s \in System
             PROVE  IsFiniteSet(CallsOf(s)') /\ Cardinality(CallsOf(s)') <= SystemCap + Racers
  BY DEF CallsBounded, Racers
<1>1. CASE CallsOf(s)' \subseteq CallsOf(s)
  <2>1. CallsOf(s)' \in SUBSET CallsOf(s) /\ IsFiniteSet(CallsOf(s))
    BY <1>1 DEF CallsBounded
  <2>2. IsFiniteSet(CallsOf(s)') /\ Cardinality(CallsOf(s)') <= Cardinality(CallsOf(s))
    BY <2>1, FS_Subset
  <2>3. Cardinality(CallsOf(s)') \in Nat /\ Cardinality(CallsOf(s)) \in Nat
    BY <2>1, <2>2, FS_CardinalityType
  <2>4. Racers \in Int /\ SystemCap \in Nat
    BY WorkersAssumption, LimitsAssumption, FS_CardinalityType DEF Racers
  <2> QED
    BY <2>2, <2>3, <2>4 DEF CallsBounded
<1>2. CASE ~(CallsOf(s)' \subseteq CallsOf(s))
  <2>1. PICK w \in Window : SystemOf[w] = s /\ CallBilled(w)' /\ ~CallBilled(w)
    BY <1>2 DEF CallsOf
  <2>2. PICK k \in Worker : UnderCap(k) /\ run[k].w = w
    BY <2>1, BilledAtCheck
  <2> DEFINE L == {v \in Window : /\ SystemOf[v] = s
                                  /\ analyses[v].present
                                  /\ analyses[v].created >= DayStart
                                  /\ analyses[v].called}
             f == [l \in Worker |-> run'[l].w]
  <2>3. SystemCallsSince(s, DayStart) < SystemCap
    BY <2>1, <2>2 DEF UnderCap, Owner
  <2>4. IsFiniteSet(L)
    <3>1. L \in SUBSET {v \in Window : analyses[v].present}
      OBVIOUS
    <3> QED
      BY <3>1, FS_Subset DEF Ledger
  <2>5. Cardinality(L) < SystemCap
    BY <2>3 DEF SystemCallsSince
  <2>6. clock' = clock /\ analyses' = analyses
    BY <2>2 DEF UnderCap, store
  <2>7. CallsOf(s)' \subseteq L \cup {f[l] : l \in Worker}
    <3>1. DayStart' = DayStart
      BY <2>6 DEF DayStart, DayOf
    <3>2. ASSUME NEW v \in CallsOf(s)'
          PROVE  v \in L \cup {f[l] : l \in Worker}
      <4>1. v \in Window /\ SystemOf[v] = s /\ CallBilled(v)'
        BY <3>2 DEF CallsOf
      <4>2. CASE analyses[v].completed /\ analyses[v].called
        BY <2>6, <3>1, <4>1, <4>2 DEF CallBilled, Ledger
      <4>3. CASE \E l \in Worker : run'[l].w = v
        BY <4>3
      <4> QED
        BY <2>6, <4>1, <4>2, <4>3 DEF CallBilled
    <3> QED
      BY <3>2
  <2>8. SystemCap \in Nat
    BY LimitsAssumption
  <2> HIDE DEF L, f
  <2> QED
    BY <2>4, <2>5, <2>7, <2>8, WithinRacers
<1> QED
  BY <1>1, <1>2

\* At the gate's vote on a window without a security line the spend counted
\* since the run's day began is below the cap, so today's is.
LEMMA StepKeepsSpendBounded ==
  ASSUME StoreTyped, RunsTyped, HeldOpen, Ledger, SpendBounded, [Next]_vars
  PROVE  SpendBounded'
<1> SUFFICES ASSUME SpendCap > 0
             PROVE  IsFiniteSet(Spent') /\ Cardinality(Spent') <= SpendCap + Racers
  BY DEF SpendBounded, Racers
<1>1. CASE Spent' \subseteq Spent
  <2>1. Spent' \in SUBSET Spent /\ IsFiniteSet(Spent)
    BY <1>1 DEF SpendBounded
  <2>2. IsFiniteSet(Spent') /\ Cardinality(Spent') <= Cardinality(Spent)
    BY <2>1, FS_Subset
  <2>3. Cardinality(Spent') \in Nat /\ Cardinality(Spent) \in Nat
    BY <2>1, <2>2, FS_CardinalityType
  <2>4. Racers \in Int /\ SpendCap \in Nat
    BY WorkersAssumption, LimitsAssumption, FS_CardinalityType DEF Racers
  <2> QED
    BY <2>2, <2>3, <2>4 DEF SpendBounded
<1>2. CASE ~(Spent' \subseteq Spent)
  <2>1. PICK w \in Unsecured : SpendBilled(w)' /\ ~SpendBilled(w)
    BY <1>2 DEF Spent, Unsecured
  <2>2. PICK k \in Worker : GateIn(k) /\ run[k].w = w
    BY <2>1, BilledAtCheck DEF Unsecured
  <2> DEFINE today == {v \in Window : /\ analyses[v].present
                                      /\ analyses[v].created >= DayStart
                                      /\ analyses[v].cost > 0}
             since == {v \in Window : /\ analyses[v].present
                                      /\ analyses[v].created >= run[k].day
                                      /\ analyses[v].cost > 0}
             f == [l \in Worker |-> run'[l].w]
  <2>3. clock' = clock /\ analyses' = analyses
    BY <2>2 DEF GateIn, store
  <2>4. Cardinality(since) < SpendCap
    <3>1. run[k].novel \cap Security = {}
      BY <2>1, <2>2 DEF GateIn, At, Ledger, RunLines, Unsecured
    <3>2. ~SecurityOnly(k)
      BY <2>2, <3>1 DEF GateIn, Call
    <3>3. ~(DailySpend(run[k].day) >= SpendCap)
      BY <3>2 DEF SecurityOnly
    <3>4. IsFiniteSet(since)
      <4>1. since \in SUBSET {v \in Window : analyses[v].present}
        OBVIOUS
      <4> QED
        BY <4>1, FS_Subset DEF Ledger
    <3>5. Cardinality(since) \in Nat /\ SpendCap \in Nat
      BY <3>4, FS_CardinalityType, LimitsAssumption
    <3> QED
      BY <3>3, <3>5 DEF DailySpend
  <2>5. today \in SUBSET since
    <3>1. run[k].day <= DayStart
      BY <2>2 DEF GateIn, At, Ledger
    <3>2. run[k].day \in Nat /\ analyses \in [Window -> AnalysisRow]
      BY DEF StoreTyped, RunsTyped, RunState
    <3>3. DayStart \in Nat
      BY DayStartGrows
    <3>4. \A v \in Window : analyses[v].created >= DayStart => analyses[v].created >= run[k].day
      BY <3>1, <3>2, <3>3 DEF AnalysisRow
    <3> QED
      BY <3>4
  <2>6. IsFiniteSet(today) /\ Cardinality(today) < SpendCap
    <3>1. since \in SUBSET {v \in Window : analyses[v].present}
      OBVIOUS
    <3>2. IsFiniteSet(since)
      BY <3>1, FS_Subset DEF Ledger
    <3>3. IsFiniteSet(today) /\ Cardinality(today) <= Cardinality(since)
      BY <2>5, <3>2, FS_Subset
    <3>4. Cardinality(today) \in Nat /\ Cardinality(since) \in Nat /\ SpendCap \in Nat
      BY <3>2, <3>3, FS_CardinalityType, LimitsAssumption
    <3> QED
      BY <2>4, <3>3, <3>4
  <2>7. Spent' \subseteq today \cup {f[l] : l \in Worker}
    <3>1. DayStart' = DayStart
      BY <2>3 DEF DayStart, DayOf
    <3>2. ASSUME NEW v \in Spent'
          PROVE  v \in today \cup {f[l] : l \in Worker}
      <4>1. v \in Window /\ SpendBilled(v)'
        BY <3>2 DEF Spent, Unsecured
      <4>2. CASE analyses[v].cost > 0
        BY <2>3, <3>1, <4>1, <4>2 DEF SpendBilled, Ledger
      <4>3. CASE \E l \in Worker : run'[l].w = v
        BY <4>3
      <4> QED
        BY <2>3, <4>1, <4>2, <4>3 DEF SpendBilled
    <3> QED
      BY <3>2
  <2>8. SpendCap \in Nat
    BY LimitsAssumption
  <2> HIDE DEF today, since, f
  <2> QED
    BY <2>6, <2>7, <2>8, WithinRacers
<1> QED
  BY <1>1, <1>2

\* The inductive invariant of the budget, over that of Analyzer.
BudgetInv == Ledger /\ CallsBounded /\ SpendBounded

\* An empty ledger and idle workers.
LEMMA BudgetInvHoldsAtStart == Init => BudgetInv
<1> SUFFICES ASSUME Init PROVE BudgetInv
  OBVIOUS
<1>1. \A w \in Window : /\ ~analyses[w].present /\ ~analyses[w].completed
                        /\ ~(analyses[w].cost > 0)
  BY DEF Init, NoAnalysis
<1>2. \A k \in Worker : ~Active(k) /\ ~At(k, "cap") /\ ~At(k, "spend") /\ ~Pays(k) /\ ~Checked(k)
  BY DEF Init, NotRunning, Active, At, Pays, Checked
<1>3. Ledger
  <2>1. {w \in Window : analyses[w].present} = {}
    BY <1>1
  <2> QED
    BY <1>1, <1>2, <2>1, FS_EmptySet DEF Ledger
<1>4. Spent = {} /\ \A s \in System : CallsOf(s) = {}
  BY <1>1, <1>2 DEF Spent, Unsecured, SpendBilled, CallsOf, CallBilled
<1>5. Racers \in Int /\ Racers >= -1 /\ SystemCap \in Nat /\ SpendCap \in Nat
  BY WorkersAssumption, LimitsAssumption, FS_CardinalityType DEF Racers
<1>6. CallsBounded /\ SpendBounded
  <2>1. IsFiniteSet({}) /\ Cardinality({}) = 0
    BY FS_EmptySet
  <2>2. SystemCap > 0 => 0 <= SystemCap + Racers
    BY <1>5
  <2>3. SpendCap > 0 => 0 <= SpendCap + Racers
    BY <1>5
  <2> QED
    BY <1>4, <2>1, <2>2, <2>3 DEF CallsBounded, SpendBounded
<1> QED
  BY <1>3, <1>6 DEF BudgetInv

\* The budget's invariant always holds.
LEMMA BudgetInvAlways == Spec => [](Inv /\ BudgetInv)
<1>1. Inv /\ HeldOpen /\ BudgetInv /\ [Next]_vars => BudgetInv'
  BY StepKeepsLedger, StepKeepsCallsBounded, StepKeepsSpendBounded DEF Inv, BudgetInv
<1> QED
  BY <1>1, BudgetInvHoldsAtStart, InvAlways, HeldOpenAlways, PTL DEF Spec

\* LLM_MAX_CALLS_PER_SYSTEM_PER_DAY: a day's windows completed with a call
\* exceed it by at most the workers that checked it together, for any cap, any
\* number of workers and whatever fails or crashes in between.
THEOREM CallCapHolds == Spec => []CompletedCallsWithinCap
<1>1. Inv /\ BudgetInv => CompletedCallsWithinCap
  <2> SUFFICES ASSUME Inv, BudgetInv, SystemCap > 0, NEW s \in System
               PROVE  Cardinality({w \in Window : /\ SystemOf[w] = s
                                                  /\ analyses[w].completed
                                                  /\ analyses[w].called
                                                  /\ analyses[w].created >= DayStart})
                        <= SystemCap + Racers
    BY DEF CompletedCallsWithinCap
  <2> DEFINE done == {w \in Window : /\ SystemOf[w] = s
                                     /\ analyses[w].completed
                                     /\ analyses[w].called
                                     /\ analyses[w].created >= DayStart}
  <2>1. done \in SUBSET CallsOf(s)
    BY DEF CallsOf, CallBilled
  <2>2. IsFiniteSet(CallsOf(s)) /\ Cardinality(CallsOf(s)) <= SystemCap + Racers
    BY DEF BudgetInv, CallsBounded
  <2>3. IsFiniteSet(done) /\ Cardinality(done) <= Cardinality(CallsOf(s))
    BY <2>1, <2>2, FS_Subset
  <2>4. Cardinality(done) \in Nat /\ Cardinality(CallsOf(s)) \in Nat
    BY <2>2, <2>3, FS_CardinalityType
  <2>5. Racers \in Int /\ SystemCap \in Nat
    BY WorkersAssumption, LimitsAssumption, FS_CardinalityType DEF Racers
  <2> QED
    BY <2>2, <2>3, <2>4, <2>5
<1> QED
  BY <1>1, BudgetInvAlways, PTL

\* LLM_DAILY_SPEND_CAP_USD: windows without a security line paid for in a day
\* exceed it by at most the workers that checked it together.
THEOREM SpendCapHolds == Spec => []SpendWithinCap
<1>1. Inv /\ BudgetInv => SpendWithinCap
  <2> SUFFICES ASSUME Inv, BudgetInv, SpendCap > 0
               PROVE  Cardinality({w \in Window : /\ Lines[w] \cap Security = {}
                                                  /\ analyses[w].cost > 0
                                                  /\ analyses[w].created >= DayStart})
                        <= SpendCap + Racers
    BY DEF SpendWithinCap
  <2> DEFINE paid == {w \in Window : /\ Lines[w] \cap Security = {}
                                     /\ analyses[w].cost > 0
                                     /\ analyses[w].created >= DayStart}
  <2>1. paid \in SUBSET Spent
    BY DEF Spent, Unsecured, SpendBilled
  <2>2. IsFiniteSet(Spent) /\ Cardinality(Spent) <= SpendCap + Racers
    BY DEF BudgetInv, SpendBounded
  <2>3. IsFiniteSet(paid) /\ Cardinality(paid) <= Cardinality(Spent)
    BY <2>1, <2>2, FS_Subset
  <2>4. Cardinality(paid) \in Nat /\ Cardinality(Spent) \in Nat
    BY <2>2, <2>3, FS_CardinalityType
  <2>5. Racers \in Int /\ SpendCap \in Nat
    BY WorkersAssumption, LimitsAssumption, FS_CardinalityType DEF Racers
  <2> QED
    BY <2>2, <2>3, <2>4, <2>5
<1> QED
  BY <1>1, BudgetInvAlways, PTL

-----------------------------------------------------------------------------
(* The findings.  Several runs may work on a system at once, each with the   *)
(* time it began; what holds them together is that no write is made past a   *)
(* run's deadline, and that STALE_AFTER is no less than two deadlines.       *)

\* A run keeps the time it began, and takes the time of its record from the
\* clock; it reads what is known after its refresh, and renders the prompt
\* after the gate's vote.
LEMMA RunTimes ==
  ASSUME RunsTyped, NEW k \in Worker, Proceed(k)
  PROVE  /\ \/ run'[k] = NotRunning
            \/ /\ run'[k].at = run[k].at
               /\ run'[k].recAt \in {run[k].recAt, clock}
         /\ At(k, "known")' => Refresh(k)
         /\ At(k, "open")' => GateIn(k)
<1>1. run[k] \in RunState /\ k \in DOMAIN run
  BY DEF RunsTyped
<1> USE DEF At
<1>2. CASE Refresh(k)
  <2> DEFINE r == [run[k] EXCEPT !.pc = "known"]
  <2>1. run'[k] = r
    BY <1>1, <1>2 DEF Refresh, Goto
  <2>2. r.pc = "known" /\ r.at = run[k].at /\ r.recAt = run[k].recAt
    BY <1>1 DEF RunState
  <2> HIDE DEF r
  <2> QED
    BY <2>1, <2>2, <1>2
<1>3. CASE GateIn(k)
  <2> DEFINE r == [run[k] EXCEPT !.pc = "open"]
  <2>1. run'[k] = r
    BY <1>1, <1>3 DEF GateIn, Goto
  <2>2. r.pc = "open" /\ r.at = run[k].at /\ r.recAt = run[k].recAt
    BY <1>1 DEF RunState
  <2> HIDE DEF r
  <2> QED
    BY <2>1, <2>2, <1>3
<1>4. CASE OpenFindings(k)
  <2> DEFINE r == [run[k] EXCEPT !.pc = "acquire"]
  <2>1. run'[k] = r
    BY <1>1, <1>4 DEF OpenFindings, Goto
  <2>2. r.pc = "acquire" /\ r.at = run[k].at /\ r.recAt = run[k].recAt
    BY <1>1 DEF RunState
  <2> HIDE DEF r
  <2> QED
    BY <2>1, <2>2, <1>4
<1>5. CASE Acquire(k)
  <2> DEFINE r == [run[k] EXCEPT !.pc = "llm"]
  <2>1. run'[k] = r
    BY <1>1, <1>5 DEF Acquire, Goto
  <2>2. r.pc = "llm" /\ r.at = run[k].at /\ r.recAt = run[k].recAt
    BY <1>1 DEF RunState
  <2> HIDE DEF r
  <2> QED
    BY <2>1, <2>2, <1>5
<1>6. CASE CallFails(k)
  <2> DEFINE r == [run[k] EXCEPT !.pc = "attempt"]
  <2>1. run'[k] = r
    BY <1>1, <1>6 DEF CallFails, Goto, EndCall
  <2>2. r.pc = "attempt" /\ r.at = run[k].at /\ r.recAt = run[k].recAt
    BY <1>1 DEF RunState
  <2> HIDE DEF r
  <2> QED
    BY <2>1, <2>2, <1>6
<1>7. CASE UpsertTemplates(k)
  <2> DEFINE r == [run[k] EXCEPT !.pc = "stale"]
  <2>1. run'[k] = r
    BY <1>1, <1>7 DEF UpsertTemplates, Goto
  <2>2. r.pc = "stale" /\ r.at = run[k].at /\ r.recAt = run[k].recAt
    BY <1>1 DEF RunState
  <2> HIDE DEF r
  <2> QED
    BY <2>1, <2>2, <1>7
<1>8. CASE MarkStaleFindings(k)
  <2> DEFINE r == [run[k] EXCEPT !.pc = "finalize"]
  <2>1. run'[k] = r
    BY <1>1, <1>8 DEF MarkStaleFindings, Goto
  <2>2. r.pc = "finalize" /\ r.at = run[k].at /\ r.recAt = run[k].recAt
    BY <1>1 DEF RunState
  <2> HIDE DEF r
  <2> QED
    BY <2>1, <2>2, <1>8
<1>9. CASE ReadKnown(k)
  <2> DEFINE r == [run[k] EXCEPT !.pc = "cap",
                        !.novel = Novel(RunLines(k), templates[Owner(k)], Start[run[k].w])]
  <2>1. run'[k] = r
    BY <1>1, <1>9 DEF ReadKnown
  <2>2. r.pc = "cap" /\ r.at = run[k].at /\ r.recAt = run[k].recAt
    BY <1>1 DEF RunState
  <2> HIDE DEF r
  <2> QED
    BY <2>1, <2>2
<1>10. CASE UnderCap(k)
  <2> DEFINE r == [run[k] EXCEPT !.pc = "spend", !.day = DayStart]
  <2>1. run'[k] = r
    BY <1>1, <1>10 DEF UnderCap
  <2>2. r.pc = "spend" /\ r.at = run[k].at /\ r.recAt = run[k].recAt
    BY <1>1 DEF RunState
  <2> HIDE DEF r
  <2> QED
    BY <2>1, <2>2
<1>11. CASE CallRejected(k)
  <2> DEFINE r == [run[k] EXCEPT !.pc = "close", !.outcome = "permanent"]
  <2>1. run'[k] = r
    BY <1>1, <1>11 DEF CallRejected, EndCall
  <2>2. r.pc = "close" /\ r.at = run[k].at /\ r.recAt = run[k].recAt
    BY <1>1 DEF RunState
  <2> HIDE DEF r
  <2> QED
    BY <2>1, <2>2
<1>12. CASE AnswerUnparsed(k)
  <2> DEFINE r == [run[k] EXCEPT !.pc = "close", !.outcome = "unparsed"]
  <2>1. run'[k] = r
    BY <1>1, <1>12 DEF AnswerUnparsed, EndCall
  <2>2. r.pc = "close" /\ r.at = run[k].at /\ r.recAt = run[k].recAt
    BY <1>1 DEF RunState
  <2> HIDE DEF r
  <2> QED
    BY <2>1, <2>2
<1>13. CASE ChooseEvidenceKey(k)
  <2> DEFINE r == [run[k] EXCEPT !.pc = "upsert", !.class = ChosenClass(Head(run[k].todo), classes)]
  <2>1. run'[k] = r
    BY <1>1, <1>13 DEF ChooseEvidenceKey
  <2>2. r.pc = "upsert" /\ r.at = run[k].at /\ r.recAt = run[k].recAt
    BY <1>1 DEF RunState
  <2> HIDE DEF r
  <2> QED
    BY <2>1, <2>2
<1>14. CASE Upsert(k)
  <2> DEFINE r == [run[k] EXCEPT !.pc = "choose", !.class = NoClass, !.todo = Tail(@)]
  <2>1. run'[k] = r
    BY <1>1, <1>14 DEF Upsert
  <2>2. r.pc = "choose" /\ r.at = run[k].at /\ r.recAt = run[k].recAt
    BY <1>1 DEF RunState
  <2> HIDE DEF r
  <2> QED
    BY <2>1, <2>2
<1>15. CASE Suppress(k)
  <2> DEFINE r == [run[k] EXCEPT !.pc = "templates", !.outcome = "suppressed", !.recAt = clock]
  <2>1. run'[k] = r
    BY <1>1, <1>15 DEF Suppress
  <2>2. r.pc = "templates" /\ r.at = run[k].at /\ r.recAt = clock
    BY <1>1 DEF RunState
  <2> HIDE DEF r
  <2> QED
    BY <2>1, <2>2
<1>16. CASE GateOut(k)
  <2> DEFINE r == [run[k] EXCEPT !.pc = "templates", !.outcome = "gated_out", !.recAt = clock]
  <2>1. run'[k] = r
    BY <1>1, <1>16 DEF GateOut
  <2>2. r.pc = "templates" /\ r.at = run[k].at /\ r.recAt = clock
    BY <1>1 DEF RunState
  <2> HIDE DEF r
  <2> QED
    BY <2>1, <2>2
<1>17. CASE FindingsStored(k)
  <2> DEFINE r == [run[k] EXCEPT !.pc = "templates", !.outcome = "analysed", !.recAt = clock]
  <2>1. run'[k] = r
    BY <1>1, <1>17 DEF FindingsStored
  <2>2. r.pc = "templates" /\ r.at = run[k].at /\ r.recAt = clock
    BY <1>1 DEF RunState
  <2> HIDE DEF r
  <2> QED
    BY <2>1, <2>2
<1>18. CASE AnswerParsed(k)
  <2>1. PICK found \in Answer(run[k].w) :
          run' = [run EXCEPT ![k].pc = "choose", ![k].todo = found]
    BY <1>18 DEF AnswerParsed
  <2> DEFINE r == [run[k] EXCEPT !.pc = "choose", !.todo = found]
  <2>2. run'[k] = r
    BY <1>1, <2>1
  <2>3. r.pc = "choose" /\ r.at = run[k].at /\ r.recAt = run[k].recAt
    BY <1>1 DEF RunState
  <2> HIDE DEF r
  <2> QED
    BY <2>2, <2>3
<1>19. CASE RecordAttempt(k) \/ CloseWindow(k) \/ Finalize(k) \/ Expire(k)
  <2>1. run'[k] = NotRunning
    BY <1>1, <1>19 DEF RecordAttempt, CloseWindow, Finalize, Expire, Return
  <2>2. NotRunning.pc = "idle"
    BY DEF NotRunning
  <2> QED
    BY <2>1, <2>2
<1> QED
  BY <1>2, <1>3, <1>4, <1>5, <1>6, <1>7, <1>8, <1>9, <1>10, <1>11, <1>12, <1>13, <1>14, <1>15, <1>16, <1>17, <1>18, <1>19 DEF Proceed

\* What a run's step does to a finding: the refresh sees it again, the answer
\* stores it, record may mark it stale, and no other step writes it.
LEMMA FindingWrites ==
  ASSUME StoreTyped, RunsTyped, NEW k \in Worker, Proceed(k),
         NEW s \in System, NEW c \in ClassKey
  PROVE  \/ /\ findings'[s][c] = findings[s][c]
            /\ heard'[s][c] = heard[s][c]
         \/ /\ Refresh(k) /\ s = Owner(k)
            /\ findings'[s][c] = RefreshFinding(findings[s][c], RunLines(k), run[k].at)
            /\ heard'[s][c] = IF findings[s][c].evidence \cap RunLines(k) # {}
                              THEN heard[s][c] \cup {run[k].at}
                              ELSE heard[s][c]
         \/ /\ Upsert(k) /\ s = Owner(k)
            /\ \E cited \in SUBSET Template :
                 findings'[s][c] = UpsertFinding(findings[s][c], cited, run[k].at)
            /\ heard'[s][c] = heard[s][c] \cup {run[k].at}
         \/ /\ MarkStaleFindings(k) /\ s = Owner(k)
            /\ findings'[s][c] = MarkStale(findings[s][c], run[k].recAt - StaleAfter)
            /\ heard'[s][c] = heard[s][c]
<1>1. Owner(k) \in System
  BY ProceedIsActive, RunOwns
<1>2. CASE Refresh(k)
  <2> DEFINE Seen(d) == RefreshFinding(findings[Owner(k)][d], RunLines(k), run[k].at)
             Heard(d) == IF findings[Owner(k)][d].evidence \cap RunLines(k) # {}
                         THEN heard[Owner(k)][d] \cup {run[k].at}
                         ELSE heard[Owner(k)][d]
  <2>1. /\ findings' = [findings EXCEPT ![Owner(k)] = [d \in ClassKey |-> Seen(d)]]
        /\ heard' = [heard EXCEPT ![Owner(k)] = [d \in ClassKey |-> Heard(d)]]
    BY <1>1, <1>2 DEF Refresh, StoreTyped
  <2>2. IF s = Owner(k)
        THEN findings'[s][c] = Seen(c) /\ heard'[s][c] = Heard(c)
        ELSE findings'[s][c] = findings[s][c] /\ heard'[s][c] = heard[s][c]
    <3> HIDE DEF Seen, Heard
    <3> QED
      BY <2>1 DEF StoreTyped
  <2> QED
    BY <1>2, <2>2
<1>3. CASE Upsert(k)
  <2> DEFINE cited == Head(run[k].todo)
             row == UpsertFinding(findings[Owner(k)][run[k].class], cited, run[k].at)
             times == heard[Owner(k)][run[k].class] \cup {run[k].at}
  <2>1. /\ findings' = [findings EXCEPT ![Owner(k)][run[k].class] = row]
        /\ heard' = [heard EXCEPT ![Owner(k)][run[k].class] = times]
    BY <1>3 DEF Upsert
  <2>2. cited \in SUBSET Template
    <3>1. run[k].todo \in Seq((SUBSET Template) \ {{}}) /\ run[k].todo # <<>>
      BY <1>3 DEF Upsert, RunsTyped, RunState
    <3> QED
      BY <3>1, RestOfAnswer
  <2>3. IF s = Owner(k) /\ c = run[k].class
        THEN findings'[s][c] = row /\ heard'[s][c] = times
        ELSE findings'[s][c] = findings[s][c] /\ heard'[s][c] = heard[s][c]
    <3> HIDE DEF row, times
    <3> QED
      BY <1>1, <2>1 DEF StoreTyped
  <2> QED
    BY <1>3, <2>2, <2>3
<1>4. CASE MarkStaleFindings(k)
  <2> DEFINE Seen(d) == MarkStale(findings[Owner(k)][d], run[k].recAt - StaleAfter)
  <2>1. /\ findings' = [findings EXCEPT ![Owner(k)] = [d \in ClassKey |-> Seen(d)]]
        /\ heard' = heard
    BY <1>1, <1>4 DEF MarkStaleFindings, StoreTyped, ghosts
  <2>2. findings'[s][c] = IF s = Owner(k) THEN Seen(c) ELSE findings[s][c]
    <3> HIDE DEF Seen
    <3> QED
      BY <2>1 DEF StoreTyped
  <2> QED
    BY <1>4, <2>1, <2>2
<1> QED
  BY <1>2, <1>3, <1>4
     DEF Proceed, store, ghosts, ReadKnown, Suppress, UnderCap, GateIn, GateOut,
     OpenFindings, Acquire, EndCall, CallFails, CallRejected, AnswerUnparsed,
     AnswerParsed, RecordAttempt, CloseWindow, ChooseEvidenceKey, FindingsStored,
     UpsertTemplates, Finalize, Expire

\* A run begins on w, now.
RunBegins(k, w) ==
  /\ ~Active(k)
  /\ run'[k] = [NotRunning EXCEPT !.pc = "refresh", !.w = w, !.at = clock]
  /\ \A l \in Worker \ {k} : run'[l] = run[l]
  /\ overlapped' = IF \E l \in Worker : Active(l) /\ Owner(l) = SystemOf[w]
                   THEN overlapped \cup {SystemOf[w]} ELSE overlapped
  /\ UNCHANGED <<clock, findings, heard>>

\* No run takes a step, though some may end, or time goes on.
RunsRest ==
  /\ \A k \in Worker : run'[k] = NotRunning \/ run'[k] = run[k]
  /\ clock' = clock \/ clock' = clock + 1
  /\ UNCHANGED <<findings, heard, overlapped>>

\* No step but a run's own writes a finding, and time only goes on.
LEMMA OtherSteps ==
  ASSUME RunsTyped, [Next]_vars
  PROVE  \/ \E k \in Worker : Proceed(k) /\ clock' = clock /\ overlapped' = overlapped
         \/ \E k \in Worker, w \in Window : RunBegins(k, w)
         \/ RunsRest
<1>1. ASSUME NEW k \in Worker, Proceed(k)
      PROVE  clock' = clock /\ overlapped' = overlapped
  BY <1>1 DEF ghosts, Proceed, Refresh, ReadKnown, Suppress, UnderCap, GateIn, GateOut,
     OpenFindings, Acquire, EndCall, CallFails, CallRejected, AnswerUnparsed,
     AnswerParsed, RecordAttempt, CloseWindow, ChooseEvidenceKey, Upsert,
     FindingsStored, UpsertTemplates, MarkStaleFindings, Finalize, Expire
<1>2. ASSUME NEW k \in Worker, NEW w \in Window, Begin(k, w)
      PROVE  RunBegins(k, w)
  <2> DEFINE r == [NotRunning EXCEPT !.pc = "refresh", !.w = w, !.at = clock]
  <2>1. /\ ~Active(k) /\ run' = [run EXCEPT ![k] = r]
        /\ overlapped' = IF \E l \in Worker : Active(l) /\ Owner(l) = SystemOf[w]
                         THEN overlapped \cup {SystemOf[w]} ELSE overlapped
        /\ UNCHANGED <<clock, findings, heard>>
    BY <1>2 DEF Begin, StartRun
  <2>2. run'[k] = r /\ \A l \in Worker \ {k} : run'[l] = run[l]
    <3> HIDE DEF r
    <3> QED
      BY <2>1 DEF RunsTyped
  <2> QED
    BY <2>1, <2>2 DEF RunBegins
<1>3. (\E k \in Worker : StoreFails(k)) \/ Crash => RunsRest
  BY DEF RunsRest, StoreFails, Crash, Return, store, ghosts, RunsTyped
<1>4. Tick \/ UNCHANGED vars => RunsRest
  BY DEF RunsRest, Tick, vars, store, ghosts
<1> QED
  BY <1>1, <1>2, <1>3, <1>4 DEF Next

\* No run has a time to come.
TimesPast == \A k \in Worker : run[k].at <= clock /\ run[k].recAt <= clock

\* Nor has a finding.  One that is not there cites nothing; a stale one was last
\* seen before STALE_AFTER; and last_seen, which a late answer may take back,
\* goes back by less than a run's deadline.
FindingsPast ==
  \A s \in System, c \in ClassKey :
    /\ findings[s][c].last <= clock
    /\ findings[s][c].status = "absent" => findings[s][c].evidence = {}
    /\ findings[s][c].status = "stale" => findings[s][c].last + StaleAfter < clock
    /\ \A t \in heard[s][c] : t <= findings[s][c].last + RunTimeout /\ t <= clock

\* Every step keeps the times of the runs in the past.
LEMMA StepKeepsTimesPast ==
  ASSUME StoreTyped, RunsTyped, TimesPast, [Next]_vars
  PROVE  TimesPast'
<1>1. /\ clock \in Nat
      /\ \A k \in Worker : run[k].at \in Nat /\ run[k].recAt \in Nat
  BY BoundsAssumption DEF StoreTyped, RunsTyped, RunState
<1>2. NotRunning.at = 0 /\ NotRunning.recAt = 0
  BY DEF NotRunning
<1>3. ASSUME NEW k \in Worker, Proceed(k), clock' = clock
      PROVE  TimesPast'
  <2>1. /\ \A l \in Worker \ {k} : run'[l] = run[l]
        /\ \/ run'[k] = NotRunning
           \/ run'[k].at = run[k].at /\ run'[k].recAt \in {run[k].recAt, clock}
    BY <1>3, Moves, RunTimes
  <2>2. \A l \in Worker : run[l].at <= clock /\ run[l].recAt <= clock
    BY DEF TimesPast
  <2>3. run'[k].at <= clock /\ run'[k].recAt <= clock
    BY <1>1, <1>2, <2>1, <2>2
  <2>4. \A l \in Worker : run'[l].at <= clock' /\ run'[l].recAt <= clock'
    BY <1>3, <2>1, <2>2, <2>3
  <2> QED
    BY <2>4 DEF TimesPast
<1>4. ASSUME NEW k \in Worker, NEW w \in Window, RunBegins(k, w)
      PROVE  TimesPast'
  <2>1. run'[k].at = clock /\ run'[k].recAt = 0
    BY <1>4 DEF RunBegins, NotRunning
  <2>2. clock' = clock /\ \A l \in Worker \ {k} : run'[l] = run[l]
    BY <1>4 DEF RunBegins
  <2> QED
    BY <1>1, <2>1, <2>2 DEF TimesPast
<1>5. CASE RunsRest
  BY <1>1, <1>2, <1>5 DEF RunsRest, TimesPast
<1> QED
  BY <1>3, <1>4, <1>5, OtherSteps

\* Every step keeps the times of the findings in the past, and apart by what
\* the deadline allows.
LEMMA StepKeepsFindingsPast ==
  ASSUME StoreTyped, RunsTyped, TimesPast, FindingsPast, [Next]_vars
  PROVE  FindingsPast'
<1>1. clock \in Nat /\ StaleAfter \in Nat /\ RunTimeout \in Nat
  BY BoundsAssumption, TimeoutAssumption DEF StoreTyped
<1> SUFFICES ASSUME NEW s \in System, NEW c \in ClassKey
             PROVE  /\ findings'[s][c].last <= clock'
                    /\ findings'[s][c].status = "absent" => findings'[s][c].evidence = {}
                    /\ findings'[s][c].status = "stale"
                         => findings'[s][c].last + StaleAfter < clock'
                    /\ \A t \in heard'[s][c] :
                         t <= findings'[s][c].last + RunTimeout /\ t <= clock'
  BY DEF FindingsPast
<1> DEFINE f == findings[s][c]
           times == heard[s][c]
           timesNow == heard'[s][c]
<1>2. /\ f \in FindingRow /\ f.last \in Int /\ times \subseteq Nat
      /\ f.last <= clock
      /\ f.status = "absent" => f.evidence = {}
      /\ f.status = "stale" => f.last + StaleAfter < clock
      /\ \A t \in times : t <= f.last + RunTimeout /\ t <= clock
  BY DEF StoreTyped, FindingsPast, FindingRow
<1>3. ASSUME UNCHANGED <<findings, heard>>, clock' = clock \/ clock' = clock + 1
      PROVE  FindingsPast'
  BY <1>1, <1>3 DEF FindingsPast, StoreTyped, FindingRow
<1>4. ASSUME NEW k \in Worker, Proceed(k), clock' = clock
      PROVE  /\ findings'[s][c].last <= clock
             /\ findings'[s][c].status = "absent" => findings'[s][c].evidence = {}
             /\ findings'[s][c].status = "stale"
                  => findings'[s][c].last + StaleAfter < clock
             /\ \A t \in timesNow : t <= findings'[s][c].last + RunTimeout /\ t <= clock
  <2> DEFINE at == run[k].at
             recAt == run[k].recAt
             lines == RunLines(k)
  <2>1. at \in Nat /\ recAt \in Nat /\ at <= clock /\ recAt <= clock
    BY DEF TimesPast, RunsTyped, RunState
  <2>2. CASE findings'[s][c] = f /\ timesNow = times
    BY <1>2, <2>2
  <2>3. CASE /\ findings'[s][c] = RefreshFinding(f, lines, at)
             /\ timesNow = IF f.evidence \cap lines # {} THEN times \cup {at} ELSE times
    <3> HIDE DEF f, times, timesNow, at, lines
    <3>1. CASE f.evidence \cap lines # {}
      <4>1. f.status # "absent"
        BY <1>2, <3>1
      <4>2. /\ findings'[s][c].status = "open"
            /\ findings'[s][c].last = IF f.last > at THEN f.last ELSE at
        BY <1>2, <2>3, <3>1, <4>1 DEF RefreshFinding, FindingRow
      <4>3. timesNow = times \cup {at}
        BY <2>3, <3>1
      <4>4. findings'[s][c].last \in Int /\ f.last <= findings'[s][c].last
            /\ at <= findings'[s][c].last /\ findings'[s][c].last <= clock
        BY <1>1, <1>2, <2>1, <4>2
      <4>5. \A t \in times : t \in Nat
        BY <1>2
      <4> QED
        BY <1>1, <1>2, <2>1, <4>2, <4>3, <4>4, <4>5
    <3>2. CASE ~(f.evidence \cap lines # {})
      BY <1>2, <2>3, <3>2 DEF RefreshFinding
    <3> QED
      BY <3>1, <3>2
  <2>4. ASSUME Upsert(k), NEW cited \in SUBSET Template,
               findings'[s][c] = UpsertFinding(f, cited, at),
               timesNow = times \cup {at}
        PROVE  /\ findings'[s][c].last <= clock
               /\ findings'[s][c].status = "open"
               /\ \A t \in timesNow : t <= findings'[s][c].last + RunTimeout /\ t <= clock
    <3>1. clock <= at + RunTimeout
      BY <1>1, <2>1, <2>4 DEF Upsert, Alive
    <3> HIDE DEF f, times, timesNow, at
    <3>2. findings'[s][c].status = "open" /\ findings'[s][c].last = at
      BY <2>4 DEF UpsertFinding
    <3>3. \A t \in times : t \in Nat
      BY <1>2
    <3> QED
      BY <1>1, <1>2, <2>1, <2>4, <3>1, <3>2, <3>3
  <2>5. CASE /\ findings'[s][c] = MarkStale(f, recAt - StaleAfter)
             /\ timesNow = times
    <3> HIDE DEF f, times, timesNow, recAt
    <3>1. CASE f.status = "open" /\ f.last < recAt - StaleAfter
      <4>1. /\ findings'[s][c].status = "stale" /\ findings'[s][c].last = f.last
        BY <1>2, <2>5, <3>1 DEF MarkStale, FindingRow
      <4> QED
        BY <1>1, <1>2, <2>1, <2>5, <3>1, <4>1
    <3>2. CASE ~(f.status = "open" /\ f.last < recAt - StaleAfter)
      BY <1>2, <2>5, <3>2 DEF MarkStale
    <3> QED
      BY <3>1, <3>2
  <2> QED
    <3> HIDE DEF f, times, timesNow
    <3> QED
      BY <1>4, <2>2, <2>3, <2>4, <2>5, FindingWrites DEF f, times, timesNow
<1>5. ASSUME NEW k \in Worker, NEW w \in Window, RunBegins(k, w)
      PROVE  FindingsPast'
  BY <1>3, <1>5 DEF RunBegins
<1>6. RunsRest => FindingsPast'
  BY <1>3 DEF RunsRest
<1>7. CASE FindingsPast'
  BY <1>7 DEF FindingsPast
<1>8. CASE \E k \in Worker : Proceed(k) /\ clock' = clock
  BY <1>4, <1>8
<1> QED
  BY <1>5, <1>6, <1>7, <1>8, OtherSteps

\* From its refresh to the prompt, a run whose deadline has not passed has every
\* finding with a line in its window open, and seen at most a deadline before
\* it began: too late for any record that may still mark findings stale.
Reopened ==
  \A k \in Worker : run[k].pc \in {"known", "cap", "spend", "open"} /\ Alive(k) =>
    \A c \in ClassKey :
      findings[Owner(k)][c].evidence \cap RunLines(k) # {}
        => /\ findings[Owner(k)][c].status = "open"
           /\ run[k].at <= findings[Owner(k)][c].last + RunTimeout

\* What one run's step does to a finding, the others' refresh survives.
LEMMA WriteKeepsOpen ==
  ASSUME StoreTyped, RunsTyped, TimesPast, FindingsPast,
         NEW k \in Worker, Proceed(k), NEW l \in Worker, Active(l), Alive(l),
         NEW c \in ClassKey,
         findings'[Owner(l)][c].evidence \cap RunLines(l) # {},
         findings[Owner(l)][c].evidence \cap RunLines(l) # {}
           => /\ findings[Owner(l)][c].status = "open"
              /\ run[l].at <= findings[Owner(l)][c].last + RunTimeout
  PROVE  /\ findings'[Owner(l)][c].status = "open"
         /\ run[l].at <= findings'[Owner(l)][c].last + RunTimeout
<1> DEFINE s == Owner(l)
           f == findings[s][c]
           g == findings'[s][c]
           since == run[l].at
           at == run[k].at
           recAt == run[k].recAt
<1>1. /\ clock \in Nat /\ StaleAfter \in Nat /\ RunTimeout \in Nat
      /\ 2 * RunTimeout <= StaleAfter
  BY BoundsAssumption, TimeoutAssumption DEF StoreTyped
<1>2. /\ since \in Nat /\ since <= clock /\ clock <= since + RunTimeout
      /\ at \in Nat /\ at <= clock /\ recAt \in Nat /\ recAt <= clock
  BY <1>1 DEF TimesPast, RunsTyped, RunState, Alive
<1>3. s \in System /\ f \in FindingRow
  BY RunOwns DEF StoreTyped
<1>4. CASE g = f
  BY <1>4
<1>5. CASE g = RefreshFinding(f, RunLines(k), at)
  <2> HIDE DEF f, g, s, since, at, recAt
  <2>1. g.evidence = f.evidence /\ (f.status = "open" => g.status = "open")
    BY <1>3, <1>5 DEF RefreshFinding, FindingRow
  <2>2. f.last \in Int /\ g.last \in Int /\ f.last <= g.last
    BY <1>2, <1>3, <1>5 DEF RefreshFinding, FindingRow
  <2> QED
    BY <1>1, <1>2, <2>1, <2>2 DEF f, g, s, since
<1>6. ASSUME Upsert(k), NEW cited, g = UpsertFinding(f, cited, at)
      PROVE  g.status = "open" /\ since <= g.last + RunTimeout
  <2>1. clock <= at + RunTimeout
    BY <1>1, <1>2, <1>6 DEF Upsert, Alive
  <2>2. g.status = "open" /\ g.last = at
    BY <1>6 DEF UpsertFinding
  <2> HIDE DEF g, since, at
  <2> QED
    BY <1>1, <1>2, <2>1, <2>2
<1>7. CASE g = MarkStale(f, recAt - StaleAfter)
  <2> HIDE DEF f, g, s, since, at, recAt
  <2>1. g.evidence = f.evidence
    BY <1>3, <1>7 DEF MarkStale, FindingRow
  <2>2. f.last \in Int
    BY <1>3 DEF FindingRow
  <2>3. f.status = "open" /\ since <= f.last + RunTimeout
    BY <2>1 DEF f, g, s, since
  <2>4. ~(f.last < recAt - StaleAfter)
    BY <1>1, <1>2, <2>2, <2>3
  <2>5. g = f
    BY <1>7, <2>4 DEF MarkStale
  <2> QED
    BY <2>3, <2>5 DEF f, g, s, since
<1> QED
  <2> HIDE DEF f, g, s, since, at, recAt
  <2>1. \/ g = f
        \/ g = RefreshFinding(f, RunLines(k), at)
        \/ Upsert(k) /\ \E cited \in SUBSET Template : g = UpsertFinding(f, cited, at)
        \/ g = MarkStale(f, recAt - StaleAfter)
    BY <1>3, FindingWrites DEF f, g, s, at, recAt
  <2> QED
    BY <1>4, <1>5, <1>6, <1>7, <2>1 DEF g, s, since

\* A run's own refresh opens every finding with a line in its window.
LEMMA RefreshOpens ==
  ASSUME StoreTyped, RunsTyped, FindingsPast, NEW k \in Worker, Refresh(k),
         NEW c \in ClassKey, findings'[Owner(k)][c].evidence \cap RunLines(k) # {}
  PROVE  /\ findings'[Owner(k)][c].status = "open"
         /\ run[k].at <= findings'[Owner(k)][c].last + RunTimeout
<1> DEFINE s == Owner(k)
           f == findings[s][c]
           at == run[k].at
           lines == RunLines(k)
           Seen(d) == RefreshFinding(findings[s][d], lines, at)
<1>1. Active(k) /\ RunTimeout \in Nat /\ at \in Nat
  BY TimeoutAssumption DEF Refresh, Active, At, RunsTyped, RunState
<1>2. s \in System /\ f \in FindingRow /\ (f.status = "absent" => f.evidence = {})
  BY <1>1, RunOwns DEF StoreTyped, FindingsPast
<1>3. findings'[s][c] = Seen(c)
  <2>1. findings' = [findings EXCEPT ![s] = [d \in ClassKey |-> Seen(d)]]
    BY <1>2 DEF Refresh, StoreTyped
  <2> HIDE DEF Seen
  <2> QED
    BY <1>2, <2>1 DEF StoreTyped
<1>4. f.evidence \cap lines # {}
  <2> HIDE DEF f, at, lines, s
  <2>1. findings'[s][c] = RefreshFinding(f, lines, at)
    BY <1>3 DEF f
  <2>2. findings'[s][c].evidence = f.evidence
    BY <1>2, <2>1 DEF RefreshFinding, FindingRow
  <2> QED
    BY <2>2 DEF s, lines
<1> HIDE DEF f, at, lines, s
<1>5. /\ findings'[s][c].status = "open"
      /\ findings'[s][c].last = IF f.last > at THEN f.last ELSE at
  BY <1>2, <1>3, <1>4 DEF RefreshFinding, FindingRow, f
<1>6. f.last \in Int
  BY <1>2 DEF FindingRow
<1> QED
  BY <1>1, <1>5, <1>6 DEF s, at

\* Every step keeps open what the runs have refreshed.
LEMMA StepKeepsReopened ==
  ASSUME StoreTyped, RunsTyped, TimesPast, FindingsPast, Reopened, [Next]_vars
  PROVE  Reopened'
<1>1. clock \in Nat /\ RunTimeout \in Nat /\ \A k \in Worker : run[k].at \in Nat
  BY BoundsAssumption, TimeoutAssumption DEF StoreTyped, RunsTyped, RunState
<1>2. ASSUME NEW l \in Worker, run'[l] = run[l], clock' = clock \/ clock' = clock + 1
      PROVE  /\ Owner(l)' = Owner(l) /\ RunLines(l)' = RunLines(l)
             /\ Alive(l)' => Alive(l)
  BY <1>1, <1>2 DEF Owner, RunLines, Alive
<1>3. ASSUME NEW k \in Worker, Proceed(k), clock' = clock, NEW l \in Worker,
             run'[l].pc \in {"known", "cap", "spend", "open"}, Alive(l)',
             NEW c \in ClassKey, findings'[Owner(l)'][c].evidence \cap RunLines(l)' # {}
      PROVE  /\ findings'[Owner(l)'][c].status = "open"
             /\ run'[l].at <= findings'[Owner(l)'][c].last + RunTimeout
  <2>1. /\ Owner(l)' = Owner(l) /\ RunLines(l)' = RunLines(l)
        /\ run'[l].at = run[l].at /\ Alive(l) /\ Active(l)
        /\ l = k \/ run'[l] = run[l]
    <3>1. CASE l # k
      BY <1>1, <1>3, <3>1, Moves DEF Owner, RunLines, Alive, Active
    <3>2. CASE l = k
      <4>1. run'[k].w = run[k].w /\ run'[k].at = run[k].at
        BY <1>3, <3>2, Moves, RunTimes DEF NotRunning
      <4> QED
        BY <1>1, <1>3, <3>2, <4>1, ProceedIsActive DEF Owner, RunLines, Alive
    <3> QED
      BY <3>1, <3>2
  <2>2. CASE Refresh(k) /\ l = k
    BY <1>3, <2>1, <2>2, RefreshOpens
  <2>3. CASE ~(Refresh(k) /\ l = k)
    <3>1. run[l].pc \in {"known", "cap", "spend", "open"}
      <4>1. CASE l # k
        BY <1>3, <2>1, <4>1
      <4>2. CASE l = k /\ ~Refresh(k)
        <5>1. ReadKnown(k) \/ UnderCap(k) \/ GateIn(k)
          BY <1>3, <4>2, Moves, RunTimes DEF At
        <5> QED
          BY <4>2, <5>1 DEF ReadKnown, UnderCap, GateIn, At
      <4> QED
        BY <2>3, <4>1, <4>2
    <3>2. findings[Owner(l)][c].evidence \cap RunLines(l) # {}
            => /\ findings[Owner(l)][c].status = "open"
               /\ run[l].at <= findings[Owner(l)][c].last + RunTimeout
      BY <2>1, <3>1 DEF Reopened
    <3> QED
      BY <1>3, <2>1, <3>2, WriteKeepsOpen
  <2> QED
    BY <2>2, <2>3
<1>4. ASSUME NEW l \in Worker, run'[l] = run[l], clock' = clock \/ clock' = clock + 1,
             findings' = findings,
             run'[l].pc \in {"known", "cap", "spend", "open"}, Alive(l)'
      PROVE  \A c \in ClassKey :
               findings'[Owner(l)'][c].evidence \cap RunLines(l)' # {}
                 => /\ findings'[Owner(l)'][c].status = "open"
                    /\ run'[l].at <= findings'[Owner(l)'][c].last + RunTimeout
  <2>1. Alive(l) /\ Owner(l)' = Owner(l) /\ RunLines(l)' = RunLines(l)
    BY <1>2, <1>4
  <2> QED
    BY <1>4, <2>1 DEF Reopened
<1>5. ASSUME NEW k \in Worker, NEW w \in Window, RunBegins(k, w)
      PROVE  Reopened'
  <2>1. run'[k].pc = "refresh"
    BY <1>5 DEF RunBegins, NotRunning
  <2>2. clock' = clock /\ findings' = findings /\ \A l \in Worker \ {k} : run'[l] = run[l]
    BY <1>5 DEF RunBegins
  <2> QED
    BY <1>4, <2>1, <2>2 DEF Reopened
<1>6. CASE RunsRest
  <2>1. NotRunning.pc = "idle"
    BY DEF NotRunning
  <2>2. /\ clock' = clock \/ clock' = clock + 1
        /\ findings' = findings
        /\ \A l \in Worker : run'[l] = NotRunning \/ run'[l] = run[l]
    BY <1>6 DEF RunsRest
  <2> QED
    BY <1>4, <2>1, <2>2 DEF Reopened
<1>7. CASE \E k \in Worker : Proceed(k) /\ clock' = clock
  BY <1>3, <1>7 DEF Reopened
<1> QED
  BY <1>5, <1>6, <1>7, OtherSteps

\* The findings' invariant, over that of Analyzer.
FindingsInv == TimesPast /\ FindingsPast /\ Reopened

LEMMA FindingsInvAlways == Spec => [](Inv /\ FindingsInv)
<1>1. Init /\ Inv => FindingsInv
  <2> SUFFICES ASSUME Init, Inv PROVE FindingsInv
    OBVIOUS
  <2>1. \A k \in Worker : run[k].at = 0 /\ run[k].recAt = 0 /\ run[k].pc = "idle"
    BY DEF Init, NotRunning
  <2>2. \A s \in System, c \in ClassKey :
          /\ findings[s][c].last = -1 /\ findings[s][c].status = "absent"
          /\ findings[s][c].evidence = {} /\ heard[s][c] = {}
    BY DEF Init, NoFinding, Never
  <2>3. clock = 0 /\ RunTimeout \in Nat
    BY TimeoutAssumption DEF Init
  <2> QED
    BY <2>1, <2>2, <2>3 DEF FindingsInv, TimesPast, FindingsPast, Reopened
<1>2. Inv /\ FindingsInv /\ [Next]_vars => FindingsInv'
  BY StepKeepsTimesPast, StepKeepsFindingsPast, StepKeepsReopened DEF Inv, FindingsInv
<1> QED
  BY <1>1, <1>2, InvAlways, PTL DEF Spec

\* The prompt's ALREADY KNOWN list misses no finding of a line in the window,
\* however many workers analyse windows of the same system: no record goes back
\* far enough to close what this run's refresh has opened.
THEOREM KnownListIsComplete == Spec => []KnownListComplete
<1>1. FindingsInv => KnownListComplete
  BY DEF FindingsInv, Reopened, KnownListComplete, At
<1> QED
  BY <1>1, FindingsInvAlways, PTL

-----------------------------------------------------------------------------
(* Counts and ages.  Overlapping runs of a system may store a finding out of  *)
(* order, count it twice and take its last_seen back (run recount); on every  *)
(* system whose runs have not overlapped they are exact, however many workers *)
(* there are and whatever they do meanwhile on the other systems.             *)

\* At most one run is on such a system, and its findings were last seen when
\* that run began or before.
InStep ==
  \A s \in System \ overlapped, k \in Worker :
    Active(k) /\ Owner(k) = s =>
      /\ \A l \in Worker : Active(l) /\ Owner(l) = s => k = l
      /\ \A c \in ClassKey : findings[s][c].last <= run[k].at

\* There, last_seen is the latest time that a run heard the finding.
LastIsHeard ==
  \A s \in System \ overlapped, c \in ClassKey :
    /\ findings[s][c].last \in heard[s][c] \cup {Never}
    /\ \A t \in heard[s][c] : t <= findings[s][c].last

\* What a run does to a finding it may see: it counts the finding if it has not
\* yet, and dates it to when it began.
LEMMA CountedAsHeard ==
  ASSUME NEW f \in FindingRow, NEW times \in SUBSET Nat, IsFiniteSet(times),
         NEW at \in Nat, f.last <= at, f.last \in times \cup {Never},
         \A t \in times : t <= f.last, f.count = Cardinality(times)
  PROVE  /\ Counted(f, at) = Cardinality(times \cup {at})
         /\ \A t \in times \cup {at} : t <= at
<1>1. f.last \in Int /\ f.count \in Nat /\ Never = -1
  BY DEF FindingRow, Never
<1>2. \A t \in times : t \in Nat
  OBVIOUS
<1>3. \A t \in times \cup {at} : t <= at
  BY <1>1, <1>2
<1>4. CASE f.last >= at
  <2>1. f.last = at
    BY <1>1, <1>4
  <2>2. at \in times
    BY <1>1, <2>1
  <2>3. times \cup {at} = times
    BY <2>2
  <2> QED
    BY <1>3, <1>4, <2>3 DEF Counted
<1>5. CASE ~(f.last >= at)
  <2>1. at \notin times
    BY <1>1, <1>2, <1>5
  <2>2. Cardinality(times \cup {at}) = Cardinality(times) + 1
    BY <2>1, FS_AddElement
  <2> QED
    BY <1>3, <1>5, <2>2 DEF Counted
<1> QED
  BY <1>4, <1>5

\* A run's step keeps count, last_seen and the times heard together on a system
\* whose runs have not overlapped, and leaves the other systems alone.
LEMMA SeenOnce ==
  ASSUME StoreTyped, RunsTyped, FindingsPast, InStep, LastIsHeard, CountIsExact,
         NEW k \in Worker, Proceed(k),
         NEW s \in System \ overlapped, NEW c \in ClassKey
  PROVE  /\ findings'[s][c].count = Cardinality(heard'[s][c])
         /\ findings'[s][c].last \in heard'[s][c] \cup {Never}
         /\ \A t \in heard'[s][c] : t <= findings'[s][c].last
         /\ IF s = Owner(k) THEN findings'[s][c].last <= run[k].at
                            ELSE findings'[s][c] = findings[s][c]
<1> DEFINE f == findings[s][c]
           g == findings'[s][c]
           times == heard[s][c]
           timesNow == heard'[s][c]
           at == run[k].at
<1>1. Active(k) /\ at \in Nat
  BY ProceedIsActive, RunOwns
<1>2. f \in FindingRow /\ times \in SUBSET Nat
  BY DEF StoreTyped
<1>3. IsFiniteSet(times)
  <2>1. clock \in Nat
    BY BoundsAssumption DEF StoreTyped
  <2>2. \A t \in times : t \in Nat /\ t <= clock
    BY <1>2 DEF FindingsPast
  <2>3. times \in SUBSET (0..clock)
    BY <2>1, <2>2
  <2> HIDE DEF times
  <2>4. IsFiniteSet(0..clock)
    BY <2>1, FS_Interval
  <2> QED
    BY <2>3, <2>4, FS_Subset
<1>4. /\ f.status = "absent" => f.evidence = {}
      /\ f.count = Cardinality(times)
      /\ f.last \in times \cup {Never} /\ \A t \in times : t <= f.last
  BY DEF FindingsPast, CountIsExact, LastIsHeard
<1>5. s = Owner(k) => f.last <= at
  BY <1>1 DEF InStep
<1> SUFFICES /\ g.count = Cardinality(timesNow)
             /\ g.last \in timesNow \cup {Never} /\ \A t \in timesNow : t <= g.last
             /\ IF s = Owner(k) THEN g.last <= at ELSE g = f
  OBVIOUS
<1>6. \/ g = f /\ timesNow = times
      \/ /\ s = Owner(k)
         /\ g = RefreshFinding(f, RunLines(k), at)
         /\ timesNow = IF f.evidence \cap RunLines(k) # {} THEN times \cup {at} ELSE times
      \/ /\ s = Owner(k)
         /\ \E cited \in SUBSET Template : g = UpsertFinding(f, cited, at)
         /\ timesNow = times \cup {at}
      \/ /\ s = Owner(k) /\ timesNow = times
         /\ g = MarkStale(f, run[k].recAt - StaleAfter)
  <2>1. s \in System
    OBVIOUS
  <2> QED
    BY <2>1, FindingWrites
<1> HIDE DEF f, g, times, timesNow, at
<1>7. CASE g = f /\ timesNow = times
  BY <1>4, <1>5, <1>7
<1>8. ASSUME s = Owner(k), g.last = at, g.count = Counted(f, at), timesNow = times \cup {at}
      PROVE  /\ g.count = Cardinality(timesNow)
             /\ g.last \in timesNow \cup {Never} /\ \A t \in timesNow : t <= g.last
             /\ g.last <= at
  <2>1. /\ Counted(f, at) = Cardinality(times \cup {at})
        /\ \A t \in times \cup {at} : t <= at
    BY <1>1, <1>2, <1>3, <1>4, <1>5, <1>8, CountedAsHeard
  <2>2. at <= at
    BY <1>1
  <2> QED
    BY <1>8, <2>1, <2>2
<1>9. CASE /\ s = Owner(k)
           /\ g = RefreshFinding(f, RunLines(k), at)
           /\ timesNow = IF f.evidence \cap RunLines(k) # {} THEN times \cup {at} ELSE times
  <2>1. CASE f.evidence \cap RunLines(k) # {}
    <3>1. /\ g.last = IF f.last > at THEN f.last ELSE at
          /\ g.count = Counted(f, at)
      BY <1>2, <1>4, <1>9, <2>1 DEF RefreshFinding, FindingRow
    <3>2. f.last \in Int /\ f.last <= at
      BY <1>2, <1>5, <1>9 DEF FindingRow
    <3>3. g.last = at
      BY <1>1, <3>1, <3>2
    <3> QED
      BY <1>8, <1>9, <2>1, <3>1, <3>3
  <2>2. CASE ~(f.evidence \cap RunLines(k) # {})
    BY <1>7, <1>9, <2>2 DEF RefreshFinding
  <2> QED
    BY <2>1, <2>2
<1>10. ASSUME s = Owner(k), NEW cited, g = UpsertFinding(f, cited, at),
              timesNow = times \cup {at}
       PROVE  /\ g.count = Cardinality(timesNow)
              /\ g.last \in timesNow \cup {Never} /\ \A t \in timesNow : t <= g.last
              /\ g.last <= at
  <2>1. g.last = at /\ g.count = Counted(f, at)
    BY <1>10 DEF UpsertFinding
  <2> QED
    BY <1>8, <1>10, <2>1
<1>11. CASE /\ s = Owner(k) /\ timesNow = times
            /\ g = MarkStale(f, run[k].recAt - StaleAfter)
  <2>1. g.last = f.last /\ g.count = f.count
    BY <1>2, <1>11 DEF MarkStale, FindingRow
  <2> QED
    BY <1>4, <1>5, <1>11, <2>1
<1> QED
  BY <1>6, <1>7, <1>9, <1>10, <1>11

\* Every step keeps the findings exact on the systems whose runs have not
\* overlapped, that step included.
LEMMA StepKeepsInStep ==
  ASSUME StoreTyped, RunsTyped, FindingsPast, InStep, LastIsHeard, CountIsExact, [Next]_vars
  PROVE  (InStep /\ LastIsHeard /\ CountIsExact)'
<1>1. ASSUME NEW k \in Worker, Proceed(k), overlapped' = overlapped
      PROVE  (InStep /\ LastIsHeard /\ CountIsExact)'
  <2>1. Active(k) /\ \A l \in Worker \ {k} : run'[l] = run[l]
    BY <1>1, ProceedIsActive, Moves
  <2>2. Active(k)' => run'[k].at = run[k].at /\ Owner(k)' = Owner(k)
    BY <1>1, Moves, RunTimes DEF NotRunning, Active, Owner
  <2>3. \A l \in Worker : Active(l)' => Active(l) /\ Owner(l)' = Owner(l)
                                        /\ run'[l].at = run[l].at
    BY <2>1, <2>2 DEF Active, Owner
  <2>4. (LastIsHeard /\ CountIsExact)'
    BY <1>1, SeenOnce DEF LastIsHeard, CountIsExact, Never
  <2>5. ASSUME NEW s \in System \ overlapped, NEW l \in Worker, Active(l)', Owner(l)' = s
        PROVE  /\ \A m \in Worker : Active(m)' /\ Owner(m)' = s => l = m
               /\ \A c \in ClassKey : findings'[s][c].last <= run'[l].at
    <3>1. Active(l) /\ Owner(l) = s /\ run'[l].at = run[l].at
      BY <2>3, <2>5
    <3>2. \A m \in Worker : Active(m) /\ Owner(m) = s => l = m
      BY <3>1 DEF InStep
    <3>3. \A c \in ClassKey : findings[s][c].last <= run[l].at
      BY <3>1 DEF InStep
    <3>4. \A c \in ClassKey : findings'[s][c].last <= run[l].at
      <4>1. CASE Owner(k) = s
        BY <1>1, <2>1, <3>2, <4>1, SeenOnce
      <4>2. CASE Owner(k) # s
        BY <1>1, <3>3, <4>2, SeenOnce
      <4> QED
        BY <4>1, <4>2
    <3> QED
      BY <2>3, <3>1, <3>2, <3>4
  <2>6. InStep'
    BY <1>1, <2>5 DEF InStep
  <2> QED
    BY <2>4, <2>6
<1>2. ASSUME NEW k \in Worker, NEW w \in Window, RunBegins(k, w)
      PROVE  (InStep /\ LastIsHeard /\ CountIsExact)'
  <2> DEFINE v == SystemOf[w]
  <2>1. /\ clock' = clock /\ findings' = findings /\ heard' = heard
        /\ overlapped' = IF \E l \in Worker : Active(l) /\ Owner(l) = v
                         THEN overlapped \cup {v} ELSE overlapped
        /\ \A l \in Worker \ {k} : run'[l] = run[l]
    BY <1>2 DEF RunBegins
  <2>2. overlapped \subseteq overlapped'
    BY <2>1
  <2>3. (LastIsHeard /\ CountIsExact)'
    BY <2>1, <2>2 DEF LastIsHeard, CountIsExact, Never
  <2>4. Owner(k)' = v /\ run'[k].at = clock
    BY <1>2 DEF RunBegins, NotRunning, Owner
  <2>5. \A l \in Worker \ {k} : Active(l)' = Active(l) /\ Owner(l)' = Owner(l)
                                /\ run'[l].at = run[l].at
    BY <2>1 DEF Active, Owner
  <2>6. ASSUME NEW s \in System \ overlapped', NEW l \in Worker, Active(l)', Owner(l)' = s
        PROVE  /\ \A m \in Worker : Active(m)' /\ Owner(m)' = s => l = m
               /\ \A c \in ClassKey : findings'[s][c].last <= run'[l].at
    <3>1. s \in System \ overlapped
      BY <2>2
    <3>2. CASE s = v
      <4>1. \A m \in Worker : Active(m) => Owner(m) # v
        <5> HIDE DEF v
        <5> QED
          BY <2>1, <2>6, <3>2
      <4>2. \A m \in Worker \ {k} : ~(Active(m)' /\ Owner(m)' = s)
        BY <2>5, <3>2, <4>1
      <4>3. l = k
        BY <2>6, <4>2
      <4>4. \A c \in ClassKey : findings[s][c].last <= clock
        BY <3>1 DEF FindingsPast
      <4> QED
        BY <2>1, <2>4, <4>2, <4>3, <4>4
    <3>3. CASE s # v
      <4>1. \A m \in Worker : Active(m)' /\ Owner(m)' = s
              => Active(m) /\ Owner(m) = s /\ run'[m].at = run[m].at
        BY <2>4, <2>5, <3>3
      <4>2. Active(l) /\ Owner(l) = s /\ run'[l].at = run[l].at
        BY <2>6, <4>1
      <4>3. /\ \A m \in Worker : Active(m) /\ Owner(m) = s => l = m
            /\ \A c \in ClassKey : findings[s][c].last <= run[l].at
        BY <3>1, <4>2 DEF InStep
      <4> QED
        BY <2>1, <4>1, <4>2, <4>3
    <3> QED
      BY <3>2, <3>3
  <2>7. InStep'
    BY <2>6 DEF InStep
  <2> QED
    BY <2>3, <2>7
<1>3. CASE RunsRest
  <2>1. /\ findings' = findings /\ heard' = heard /\ overlapped' = overlapped
        /\ \A l \in Worker : run'[l] = NotRunning \/ run'[l] = run[l]
    BY <1>3 DEF RunsRest
  <2>2. \A l \in Worker : Active(l)' => run'[l] = run[l] /\ Active(l) /\ Owner(l)' = Owner(l)
    BY <2>1 DEF Active, NotRunning, Owner
  <2>3. InStep'
    BY <2>1, <2>2 DEF InStep
  <2> QED
    BY <2>1, <2>3 DEF LastIsHeard, CountIsExact, Never
<1> QED
  BY <1>1, <1>2, <1>3, OtherSteps

LEMMA InStepAlways == Spec => [](Inv /\ FindingsInv /\ InStep /\ LastIsHeard /\ CountIsExact)
<1>1. Init => InStep /\ LastIsHeard /\ CountIsExact
  BY FS_EmptySet DEF Init, InStep, LastIsHeard, CountIsExact, NoFinding, NotRunning, Active
<1>2. Inv /\ FindingsInv /\ InStep /\ LastIsHeard /\ CountIsExact
        /\ [Next]_vars => (InStep /\ LastIsHeard /\ CountIsExact)'
  BY StepKeepsInStep DEF Inv, FindingsInv
<1> QED
  BY <1>1, <1>2, FindingsInvAlways, PTL DEF Spec

\* occurrence_count counts every run of Process that saw the finding, once, and
\* no other, on each system whose runs have not overlapped: refresh and the
\* answers of a run do not add up, and no retry, failure or crash loses one.
THEOREM CountedOncePerRun == Spec => []CountIsExact
  BY InStepAlways, PTL

\* No finding is aged out before its lines have been silent for STALE_AFTER,
\* short of a run's deadline on the systems whose runs have overlapped.
THEOREM StaleIsSilent == Spec => []StaleMeansSilent
<1>1. Inv /\ FindingsInv /\ LastIsHeard => StaleMeansSilent
  <2> SUFFICES ASSUME Inv, FindingsInv, LastIsHeard, NEW s \in System, NEW c \in ClassKey,
                      findings[s][c].status = "stale", NEW t \in heard[s][c]
               PROVE  t + StaleAfter < clock + (IF s \in overlapped THEN RunTimeout ELSE 0)
    BY DEF StaleMeansSilent
  <2>1. /\ clock \in Nat /\ StaleAfter \in Nat /\ RunTimeout \in Nat
        /\ findings[s][c].last \in Int /\ t \in Nat
    BY BoundsAssumption, TimeoutAssumption DEF Inv, StoreTyped, FindingRow
  <2>2. /\ findings[s][c].last + StaleAfter < clock
        /\ t <= findings[s][c].last + RunTimeout
        /\ s \notin overlapped => t <= findings[s][c].last
    BY DEF FindingsInv, FindingsPast, LastIsHeard
  <2> QED
    BY <2>1, <2>2
<1> QED
  BY <1>1, InStepAlways, PTL
=============================================================================
