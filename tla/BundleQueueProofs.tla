-------------------------- MODULE BundleQueueProofs --------------------------
(***************************************************************************)
(* Proofs about BundleQueue for any set of windows, requests and workers   *)
(* and any queue size: type correctness, exclusive ownership of a window,  *)
(* claims without a holder never exist, the drain, and the refinement of   *)
(* WindowLife.                                                             *)
(***************************************************************************)
EXTENDS BundleQueue, TLAPS

(* The assumptions on the constants are used throughout. *)
USE QueueSizeAssumption, MaxCrashesAssumption, NoWindowAssumption

-----------------------------------------------------------------------------
(* The buffer. *)

\* Sending to the channel adds one element at the end and moves no other.
LEMMA BufferSend ==
  ASSUME NEW s \in Seq(Window), NEW w \in Window
  PROVE  /\ Append(s, w) \in Seq(Window)
         /\ Len(Append(s, w)) = Len(s) + 1
         /\ \A i \in 1..Len(s) : Append(s, w)[i] = s[i]
         /\ Append(s, w)[Len(s) + 1] = w
  OBVIOUS

\* Receiving from the channel takes the oldest element and shifts the rest.
LEMMA BufferReceive ==
  ASSUME NEW s \in Seq(Window), s # <<>>
  PROVE  /\ Head(s) \in Window
         /\ Head(s) = s[1]
         /\ Len(s) \in Nat \ {0}
         /\ Tail(s) \in Seq(Window)
         /\ Len(Tail(s)) = Len(s) - 1
         /\ \A i \in 1..Len(Tail(s)) : Tail(s)[i] = s[i + 1]
  OBVIOUS

-----------------------------------------------------------------------------
(* Type correctness. *)

\* Every variable of the queue keeps its type and the buffer never exceeds
\* QUEUE_SIZE.
THEOREM TypeCorrect == Spec => []TypeOK
<1>1. Init => TypeOK
  <2> SUFFICES ASSUME Init PROVE TypeOK
    OBVIOUS
  <2>1. ch \in Seq(Window) /\ Len(ch) <= QueueSize
    BY DEF Init
  <2>2. crashes \in 0..MaxCrashes
    BY DEF Init
  <2>3. /\ reading \in [Request -> MaybeWindow]
        /\ sending \in [Request -> MaybeWindow]
        /\ \A r \in Request : reading[r] = NoWindow \/ sending[r] = NoWindow
    BY DEF Init, MaybeWindow
  <2>4. work \in [Worker -> MaybeWindow]
    BY DEF Init, MaybeWindow
  <2> QED
    BY <2>1, <2>2, <2>3, <2>4 DEF Init, TypeOK
<1>2. TypeOK /\ [Next]_vars => TypeOK'
  <2> SUFFICES ASSUME TypeOK, [Next]_vars PROVE TypeOK'
    OBVIOUS
  <2> USE DEF TypeOK, MaybeWindow
  <2>1. ASSUME NEW r \in Request, NEW w \in Window, Arrive(r, w) PROVE TypeOK'
    BY <2>1 DEF Arrive
  <2>2. ASSUME NEW r \in Request, PublishDuplicate(r) PROVE TypeOK'
    BY <2>2 DEF PublishDuplicate
  <2>3. ASSUME NEW r \in Request, PublishClaim(r) PROVE TypeOK'
    BY <2>3 DEF PublishClaim
  <2>4. ASSUME NEW r \in Request, PublishSend(r) PROVE TypeOK'
    BY <2>4 DEF PublishSend
  <2>5. ASSUME NEW r \in Request, PublishFull(r) PROVE TypeOK'
    BY <2>5 DEF PublishFull
  <2>6. ASSUME NEW r \in Request, PublishPanic(r) PROVE TypeOK'
    BY <2>6 DEF PublishPanic
  <2>7. ASSUME NEW k \in Worker, Take(k) PROVE TypeOK'
    BY <2>7, BufferReceive DEF Take
  <2>8. ASSUME NEW k \in Worker, Release(k) PROVE TypeOK'
    BY <2>8 DEF Release
  <2>9. ASSUME NEW k \in Worker, Exit(k) PROVE TypeOK'
    BY <2>9 DEF Exit
  <2>10. ASSUME Shutdown \/ Stop PROVE TypeOK'
    BY <2>10 DEF Shutdown, Stop
  <2>11. ASSUME Crash PROVE TypeOK'
    <3>1. ch' \in Seq(Window) /\ Len(ch') <= QueueSize
      BY <2>11 DEF Crash
    <3>2. crashes' \in 0..MaxCrashes
      BY <2>11 DEF Crash
    <3>3. /\ reading' \in [Request -> MaybeWindow]
          /\ sending' \in [Request -> MaybeWindow]
          /\ \A r \in Request : reading'[r] = NoWindow \/ sending'[r] = NoWindow
      BY <2>11 DEF Crash
    <3>4. work' \in [Worker -> MaybeWindow]
      BY <2>11 DEF Crash
    <3> QED
      BY <2>11, <3>1, <3>2, <3>3, <3>4 DEF Crash
  <2>12. CASE UNCHANGED vars
    BY <2>12 DEF vars
  <2> QED
    BY <2>1, <2>2, <2>3, <2>4, <2>5, <2>6, <2>7, <2>8, <2>9, <2>10, <2>11, <2>12
    DEF Next, PublishRest
<1> QED
  BY <1>1, <1>2, PTL DEF Spec

-----------------------------------------------------------------------------
(* Ownership.  OneHolder alone is not inductive: that a claimed window has   *)
(* no second holder follows from the claim being in inflight, so the two are *)
(* proved together.                                                          *)

Ownership == OneHolder /\ ClaimsAreHeld

\* The initial state has no claims and no holders.
LEMMA OwnershipInit == Init => Ownership
  BY DEF Init, Ownership, OneHolder, ClaimsAreHeld, Sending, Queued, Running

\* A step after which only window v has another stage is a move of v in
\* WindowLife.
LEMMA OnlyMoves ==
  ASSUME NEW v \in Window, NEW from, NEW to,
         StageOf(v) = from, StageOf(v)' = to,
         \A w \in Window : w # v => StageOf(w)' = StageOf(w)
  PROVE  Life!Move(v, from, to)
  BY DEF Life!Move

\* Claiming a window makes the request its only holder.
LEMMA ClaimKeepsOwnership ==
  ASSUME TypeOK, Ownership, NEW r \in Request, PublishClaim(r)
  PROVE  Ownership' /\ Life!Offer(reading[r])
<1>1. \A w \in Window : Sending(w)' <=> Sending(w) \/ w = reading[r]
  BY SMTT(30) DEF Ownership, ClaimsAreHeld, Sending, PublishClaim, TypeOK, MaybeWindow
<1>2. \A w \in Window : (Queued(w)' <=> Queued(w)) /\ (Running(w)' <=> Running(w))
  <2>1. ch' = ch /\ work' = work
    BY DEF PublishClaim
  <2> QED
    BY <2>1 DEF Queued, Running
<1>3. ClaimsAreHeld'
  BY <1>1, <1>2 DEF Ownership, ClaimsAreHeld, PublishClaim, TypeOK
<1>4. \A q, s \in Request : sending'[q] = sending'[s] /\ sending'[q] # NoWindow => q = s
  BY DEF PublishClaim, TypeOK, Ownership, OneHolder, ClaimsAreHeld, Sending, MaybeWindow
<1>5. OneHolder'
  BY <1>1, <1>2, <1>4 DEF Ownership, ClaimsAreHeld, OneHolder, PublishClaim
<1>11. Life!Offer(reading[r])
  <2>1. PICK v \in Window : v = reading[r]
    BY DEF PublishClaim, TypeOK, MaybeWindow
  <2>2. StageOf(v) = "free" /\ StageOf(v)' = "offered"
    BY <1>1, <2>1 DEF StageOf, PublishClaim, Ownership, ClaimsAreHeld
  <2>3. \A w \in Window : w # v => StageOf(w)' = StageOf(w)
    BY <1>1, <1>2, <2>1 DEF StageOf, PublishClaim
  <2> QED
    BY <2>1, <2>2, <2>3, OnlyMoves DEF Life!Offer
<1> QED
  BY <1>3, <1>5, <1>11 DEF Ownership

\* Buffering a window moves it from its request to the buffer.
LEMMA SendKeepsOwnership ==
  ASSUME TypeOK, Ownership, NEW r \in Request, PublishSend(r)
  PROVE  Ownership' /\ Life!Accept(sending[r])
<1>0. PICK v \in Window : v = sending[r]
  BY DEF PublishSend, TypeOK, MaybeWindow
<1>1. v \in Window /\ Sending(v) /\ v \in inflight
  BY <1>0 DEF PublishSend, TypeOK, MaybeWindow, Sending, Ownership, ClaimsAreHeld
<1>2. \A w \in Window : Sending(w)' <=> Sending(w) /\ w # v
  BY <1>0, <1>1 DEF PublishSend, TypeOK, MaybeWindow, Sending, Ownership, OneHolder
<1>3. /\ Len(ch') = Len(ch) + 1
      /\ \A i \in 1..Len(ch) : ch'[i] = ch[i]
      /\ ch'[Len(ch) + 1] = v
      /\ Len(ch) \in Nat
  BY <1>0, <1>1, BufferSend DEF PublishSend, TypeOK
<1>4. \A w \in Window : Queued(w)' <=> Queued(w) \/ w = v
  BY <1>0, <1>1, <1>3 DEF Queued
<1>5. \A w \in Window : Running(w)' <=> Running(w)
  BY <1>0 DEF PublishSend, Running
<1>6. ClaimsAreHeld'
  BY <1>0, <1>1, <1>2, <1>4, <1>5 DEF Ownership, ClaimsAreHeld, PublishSend
<1>7. \A i, j \in 1..Len(ch') : ch'[i] = ch'[j] => i = j
  BY <1>0, <1>1, <1>3 DEF Ownership, OneHolder, Queued
<1>8. \A q, s \in Request : sending'[q] = sending'[s] /\ sending'[q] # NoWindow => q = s
  BY <1>0 DEF PublishSend, TypeOK, Ownership, OneHolder
<1>9. OneHolder'
  BY <1>0, <1>1, <1>2, <1>4, <1>5, <1>7, <1>8 DEF Ownership, OneHolder, PublishSend
<1>11. Life!Accept(v)
  <2>1. StageOf(v) = "offered" /\ StageOf(v)' = "queued"
    BY <1>0, <1>1, <1>2, <1>4, <1>5 DEF StageOf, PublishSend
  <2>2. \A w \in Window : w # v => StageOf(w)' = StageOf(w)
    BY <1>0, <1>1, <1>2, <1>4, <1>5 DEF StageOf, PublishSend
  <2> QED
    BY <1>0, <1>1, <2>1, <2>2, OnlyMoves DEF Life!Accept
<1> QED
  BY <1>0, <1>6, <1>9, <1>11 DEF Ownership

\* A request that finds the buffer full, or the channel closed, stops holding
\* its window; the claim is dropped in the first case, orphaned in the second.
LEMMA EndOfSendKeepsOwnership ==
  ASSUME TypeOK, Ownership, NEW r \in Request, PublishFull(r) \/ PublishPanic(r)
  PROVE  Ownership' /\ (Life!Refuse(sending[r]) \/ Life!Orphan(sending[r]))
<1>0. PICK v \in Window : v = sending[r]
  BY DEF PublishFull, PublishPanic, TypeOK, MaybeWindow
<1>1. v \in Window /\ Sending(v) /\ v \in inflight
  BY <1>0 DEF PublishFull, PublishPanic, TypeOK, MaybeWindow, Sending, Ownership, ClaimsAreHeld
<1>2. \A w \in Window : Sending(w)' <=> Sending(w) /\ w # v
  BY <1>0, <1>1 DEF PublishFull, PublishPanic, TypeOK, MaybeWindow, Sending, Ownership, OneHolder
<1>3. \A w \in Window : (Queued(w)' <=> Queued(w)) /\ (Running(w)' <=> Running(w))
  BY <1>0 DEF PublishFull, PublishPanic, Queued, Running
<1>4. ~Queued(v) /\ ~Running(v) /\ v \notin orphaned
  BY <1>0, <1>1 DEF Ownership, OneHolder
<1>5. ClaimsAreHeld'
  BY <1>0, <1>1, <1>2, <1>3, <1>4 DEF Ownership, ClaimsAreHeld, PublishFull, PublishPanic
<1>6. \A q, s \in Request : sending'[q] = sending'[s] /\ sending'[q] # NoWindow => q = s
  BY <1>0 DEF PublishFull, PublishPanic, TypeOK, Ownership, OneHolder
<1>7. OneHolder'
  BY <1>0, <1>1, <1>2, <1>3, <1>4, <1>6 DEF Ownership, OneHolder, PublishFull, PublishPanic
<1>8. \A w \in Window : w # v => StageOf(w)' = StageOf(w)
  BY <1>0, <1>1, <1>2, <1>3 DEF StageOf, PublishFull, PublishPanic
<1>9. ASSUME PublishFull(r) PROVE Life!Refuse(v)
  <2>1. StageOf(v) = "offered" /\ StageOf(v)' = "free"
    BY <1>0, <1>1, <1>2, <1>3, <1>4, <1>9 DEF StageOf, PublishFull
  <2> QED
    BY <1>0, <1>1, <1>8, <2>1, OnlyMoves DEF Life!Refuse
<1>10. ASSUME PublishPanic(r) PROVE Life!Orphan(v)
  <2>1. StageOf(v) = "offered" /\ StageOf(v)' = "orphaned"
    BY <1>0, <1>1, <1>2, <1>3, <1>4, <1>10 DEF StageOf, PublishPanic
  <2> QED
    BY <1>0, <1>1, <1>8, <2>1, OnlyMoves DEF Life!Orphan
<1> QED
  BY <1>0, <1>5, <1>7, <1>9, <1>10 DEF Ownership

\* A worker takes the oldest window out of the buffer and becomes its holder.
LEMMA TakeKeepsOwnership ==
  ASSUME TypeOK, Ownership, NEW k \in Worker, Take(k)
  PROVE  Ownership' /\ Life!Run(Head(ch))
<1>0. PICK v \in Window : v = Head(ch)
  BY BufferReceive DEF Take, TypeOK
<1>1. /\ v \in Window
      /\ v = ch[1]
      /\ Len(ch) \in Nat \ {0}
      /\ Len(ch') = Len(ch) - 1
      /\ \A i \in 1..Len(ch') : ch'[i] = ch[i + 1]
  BY <1>0, BufferReceive DEF Take, TypeOK
<1>2. Queued(v)
  BY <1>0, <1>1 DEF Queued
<1>3. \A i, j \in 1..Len(ch) : ch[i] = ch[j] => i = j
  BY <1>0 DEF Ownership, OneHolder
<1>4. \A w \in Window : Queued(w)' <=> Queued(w) /\ w # v
  <2> SUFFICES ASSUME NEW w \in Window PROVE Queued(w)' <=> Queued(w) /\ w # v
    OBVIOUS
  <2>1. ASSUME NEW i \in 1..Len(ch'), ch'[i] = w PROVE Queued(w) /\ w # v
    <3>1. i + 1 \in 1..Len(ch) /\ ch[i + 1] = w /\ 1 \in 1..Len(ch)
      BY <1>0, <1>1, <2>1
    <3> QED
      BY <1>0, <1>1, <1>3, <3>1 DEF Queued
  <2>2. ASSUME NEW i \in 1..Len(ch), ch[i] = w, w # v PROVE Queued(w)'
    <3>1. i - 1 \in 1..Len(ch') /\ ch'[i - 1] = w
      BY <1>0, <1>1, <2>2
    <3> QED
      BY <1>0, <3>1 DEF Queued
  <2> QED
    BY <1>0, <2>1, <2>2 DEF Queued
<1>5. \A w \in Window : Running(w)' <=> Running(w) \/ w = v
  BY <1>0, <1>1 DEF Take, TypeOK, Running
<1>6. \A w \in Window : Sending(w)' <=> Sending(w)
  BY <1>0 DEF Take, Sending
<1>7. ClaimsAreHeld'
  BY <1>0, <1>1, <1>2, <1>4, <1>5, <1>6 DEF Ownership, ClaimsAreHeld, Take
<1>8. \A i, j \in 1..Len(ch') : ch'[i] = ch'[j] => i = j
  BY <1>0, <1>1, <1>3
<1>9. \A j, l \in Worker : work'[j] = work'[l] /\ work'[j] # NoWindow => j = l
  BY <1>0, <1>1, <1>2 DEF Take, TypeOK, Ownership, OneHolder, Running
<1>10. OneHolder'
  BY <1>0, <1>1, <1>2, <1>4, <1>5, <1>6, <1>8, <1>9 DEF Ownership, OneHolder, Take
<1>11. Life!Run(v)
  <2>1. StageOf(v) = "queued" /\ StageOf(v)' = "running"
    BY <1>0, <1>1, <1>2, <1>4, <1>5, <1>6 DEF StageOf, Take, Ownership, OneHolder
  <2>2. \A w \in Window : w # v => StageOf(w)' = StageOf(w)
    BY <1>0, <1>1, <1>2, <1>4, <1>5, <1>6 DEF StageOf, Take, Ownership, OneHolder
  <2> QED
    BY <1>0, <1>1, <2>1, <2>2, OnlyMoves DEF Life!Run
<1> QED
  BY <1>0, <1>7, <1>10, <1>11 DEF Ownership

\* When the handler returns, the window's only holder and its claim go
\* together.
LEMMA ReleaseKeepsOwnership ==
  ASSUME TypeOK, Ownership, NEW k \in Worker, Release(k)
  PROVE  Ownership' /\ Life!Retire(work[k])
<1>0. PICK v \in Window : v = work[k]
  BY DEF Release, TypeOK, MaybeWindow
<1>1. v \in Window /\ Running(v) /\ v \in inflight
  BY <1>0 DEF Release, TypeOK, MaybeWindow, Running, Ownership, ClaimsAreHeld
<1>2. ~Queued(v) /\ ~Sending(v) /\ v \notin orphaned
  BY <1>0, <1>1 DEF Ownership, OneHolder
<1>3. \A w \in Window : Running(w)' <=> Running(w) /\ w # v
  BY <1>0, <1>1 DEF Release, TypeOK, MaybeWindow, Running, Ownership, OneHolder
<1>4. \A w \in Window : (Queued(w)' <=> Queued(w)) /\ (Sending(w)' <=> Sending(w))
  BY <1>0 DEF Release, Queued, Sending
<1>5. ClaimsAreHeld'
  BY <1>0, <1>1, <1>2, <1>3, <1>4 DEF Ownership, ClaimsAreHeld, Release
<1>6. \A j, l \in Worker : work'[j] = work'[l] /\ work'[j] # NoWindow => j = l
  BY <1>0 DEF Release, TypeOK, Ownership, OneHolder
<1>7. OneHolder'
  BY <1>0, <1>1, <1>2, <1>3, <1>4, <1>6 DEF Ownership, OneHolder, Release
<1>11. Life!Retire(v)
  <2>1. StageOf(v) = "running" /\ StageOf(v)' = "free"
    BY <1>0, <1>1, <1>2, <1>3, <1>4 DEF StageOf, Release
  <2>2. \A w \in Window : w # v => StageOf(w)' = StageOf(w)
    BY <1>0, <1>1, <1>2, <1>3, <1>4 DEF StageOf, Release
  <2> QED
    BY <1>0, <1>1, <2>1, <2>2, OnlyMoves DEF Life!Retire
<1> QED
  BY <1>0, <1>5, <1>7, <1>11 DEF Ownership

\* The other steps move no window.
LEMMA OtherStepsKeepOwnership ==
  ASSUME Ownership, UNCHANGED <<inflight, ch, sending, work, orphaned>>
  PROVE  Ownership' /\ (\A w \in Window : StageOf(w)' = StageOf(w))
  BY DEF Ownership, OneHolder, ClaimsAreHeld, Sending, Queued, Running, StageOf

\* A restarted process claims and holds nothing.
LEMMA CrashKeepsOwnership ==
  ASSUME Crash
  PROVE  Ownership' /\ (\A w \in Window : StageOf(w)' = "free")
  BY DEF Crash, Ownership, OneHolder, ClaimsAreHeld, Sending, Queued, Running, StageOf

\* Every step keeps the ownership invariant.
LEMMA OwnershipStep == TypeOK /\ Ownership /\ [Next]_vars => Ownership'
<1> SUFFICES ASSUME TypeOK, Ownership, [Next]_vars PROVE Ownership'
  OBVIOUS
<1>1. ASSUME NEW r \in Request, NEW w \in Window, Arrive(r, w) PROVE Ownership'
  BY <1>1, OtherStepsKeepOwnership DEF Arrive
<1>2. ASSUME NEW r \in Request, PublishDuplicate(r) PROVE Ownership'
  BY <1>2, OtherStepsKeepOwnership DEF PublishDuplicate
<1>3. ASSUME NEW r \in Request, PublishClaim(r) PROVE Ownership'
  BY <1>3, ClaimKeepsOwnership
<1>4. ASSUME NEW r \in Request, PublishRest(r) PROVE Ownership'
  BY <1>4, SendKeepsOwnership, EndOfSendKeepsOwnership DEF PublishRest
<1>5. ASSUME NEW k \in Worker, Take(k) PROVE Ownership'
  BY <1>5, TakeKeepsOwnership
<1>6. ASSUME NEW k \in Worker, Release(k) PROVE Ownership'
  BY <1>6, ReleaseKeepsOwnership
<1>7. ASSUME NEW k \in Worker, Exit(k) PROVE Ownership'
  BY <1>7, OtherStepsKeepOwnership DEF Exit
<1>8. ASSUME Shutdown \/ Stop PROVE Ownership'
  BY <1>8, OtherStepsKeepOwnership DEF Shutdown, Stop
<1>9. CASE Crash
  BY <1>9, CrashKeepsOwnership
<1>10. CASE UNCHANGED vars
  BY <1>10, OtherStepsKeepOwnership DEF vars
<1> QED
  BY <1>1, <1>2, <1>3, <1>4, <1>5, <1>6, <1>7, <1>8, <1>9, <1>10 DEF Next

\* A window has at most one holder (request in Publish, buffer place, worker)
\* at any time: a resend never starts a second analysis of a window.
THEOREM OneHolderAlways == Spec => []OneHolder
<1>1. Ownership => OneHolder
  BY DEF Ownership
<1> QED
  BY <1>1, TypeCorrect, OwnershipInit, OwnershipStep, PTL DEF Spec

\* A window is claimed exactly while something holds it: no claim leaks, so
\* no resend is answered "already in flight" for a window nobody has.
THEOREM ClaimsAreHeldAlways == Spec => []ClaimsAreHeld
<1>1. Ownership => ClaimsAreHeld
  BY DEF Ownership
<1> QED
  BY <1>1, TypeCorrect, OwnershipInit, OwnershipStep, PTL DEF Spec

-----------------------------------------------------------------------------
(* The drain. *)

\* A claim is orphaned only after Stop, and a worker returns only when the
\* closed channel is empty: Stop never leaves an acknowledged bundle behind.
THEOREM DrainedBeforeExitAlways == Spec => []DrainedBeforeExit
<1>1. Init => DrainedBeforeExit
  BY DEF Init, DrainedBeforeExit
<1>2. TypeOK /\ DrainedBeforeExit /\ [Next]_vars => DrainedBeforeExit'
  <2> SUFFICES ASSUME TypeOK, DrainedBeforeExit, [Next]_vars
               PROVE  DrainedBeforeExit'
    OBVIOUS
  <2>1. ASSUME NEW r \in Request, NEW w \in Window, Arrive(r, w)
        PROVE DrainedBeforeExit'
    BY <2>1 DEF Arrive, DrainedBeforeExit
  <2>2. ASSUME NEW r \in Request,
               PublishDuplicate(r) \/ PublishClaim(r) \/ PublishRest(r)
        PROVE DrainedBeforeExit'
    BY <2>2 DEF PublishDuplicate, PublishClaim, PublishRest, PublishSend,
                PublishFull, PublishPanic, DrainedBeforeExit
  <2>3. ASSUME NEW k \in Worker, Take(k) PROVE DrainedBeforeExit'
    BY <2>3 DEF Take, DrainedBeforeExit, TypeOK
  <2>4. ASSUME NEW k \in Worker, Release(k) PROVE DrainedBeforeExit'
    BY <2>4 DEF Release, DrainedBeforeExit, TypeOK
  <2>5. ASSUME NEW k \in Worker, Exit(k) PROVE DrainedBeforeExit'
    BY <2>5 DEF Exit, DrainedBeforeExit, TypeOK
  <2>6. ASSUME Shutdown \/ Stop PROVE DrainedBeforeExit'
    BY <2>6 DEF Shutdown, Stop, DrainedBeforeExit
  <2>7. CASE Crash
    BY <2>7 DEF Crash, DrainedBeforeExit
  <2>8. CASE UNCHANGED vars
    BY <2>8 DEF vars, DrainedBeforeExit
  <2> QED
    BY <2>1, <2>2, <2>3, <2>4, <2>5, <2>6, <2>7, <2>8 DEF Next
<1> QED
  BY <1>1, <1>2, TypeCorrect, PTL DEF Spec

-----------------------------------------------------------------------------
(* The refinement of WindowLife. *)

\* Every step of the queue is a move of one window in WindowLife, a restart,
\* or no move at all.
LEMMA LifeStep ==
  TypeOK /\ Ownership /\ [Next]_vars => [Life!Next]_([w \in Window |-> StageOf(w)])
<1> SUFFICES ASSUME TypeOK, Ownership, [Next]_vars
             PROVE  \/ Life!Next
                    \/ \A w \in Window : StageOf(w)' = StageOf(w)
  OBVIOUS
<1>1. ASSUME NEW r \in Request, NEW w \in Window, Arrive(r, w)
      PROVE  \A x \in Window : StageOf(x)' = StageOf(x)
  BY <1>1, OtherStepsKeepOwnership DEF Arrive
<1>2. ASSUME NEW r \in Request, PublishDuplicate(r)
      PROVE  \A x \in Window : StageOf(x)' = StageOf(x)
  BY <1>2, OtherStepsKeepOwnership DEF PublishDuplicate
<1>3. ASSUME NEW r \in Request, PublishClaim(r) PROVE Life!Next
  <2>1. reading[r] \in Window
    BY <1>3 DEF PublishClaim, TypeOK, MaybeWindow
  <2> QED
    BY <1>3, <2>1, ClaimKeepsOwnership DEF Life!Next
<1>4. ASSUME NEW r \in Request, PublishRest(r) PROVE Life!Next
  <2>1. sending[r] \in Window
    BY <1>4 DEF PublishRest, PublishSend, PublishFull, PublishPanic, TypeOK, MaybeWindow
  <2> QED
    BY <1>4, <2>1, SendKeepsOwnership, EndOfSendKeepsOwnership DEF PublishRest, Life!Next
<1>5. ASSUME NEW k \in Worker, Take(k) PROVE Life!Next
  <2>1. Head(ch) \in Window
    BY <1>5, BufferReceive DEF Take, TypeOK
  <2> QED
    BY <1>5, <2>1, TakeKeepsOwnership DEF Life!Next
<1>6. ASSUME NEW k \in Worker, Release(k) PROVE Life!Next
  <2>1. work[k] \in Window
    BY <1>6 DEF Release, TypeOK, MaybeWindow
  <2> QED
    BY <1>6, <2>1, ReleaseKeepsOwnership DEF Life!Next
<1>7. ASSUME (\E k \in Worker : Exit(k)) \/ Shutdown \/ Stop \/ UNCHANGED vars
      PROVE  \A x \in Window : StageOf(x)' = StageOf(x)
  BY <1>7, OtherStepsKeepOwnership DEF Exit, Shutdown, Stop, vars
<1>8. ASSUME Crash PROVE Life!Next
  BY <1>8, CrashKeepsOwnership DEF Life!Next, Life!Restart
<1> QED
  BY <1>1, <1>2, <1>3, <1>4, <1>5, <1>6, <1>7, <1>8 DEF Next

\* The queue implements WindowLife: whatever the number of requests, workers
\* and windows, a window goes through claim, buffer and worker in that order.
THEOREM ImplementsWindowLife == Spec => LifeSpec
<1>1. Init => Life!Init
  BY DEF Init, Life!Init, StageOf, Sending, Queued, Running
<1> QED
  BY <1>1, LifeStep, TypeCorrect, OwnershipInit, OwnershipStep, PTL
  DEF Spec, LifeSpec, Life!Spec
=============================================================================
