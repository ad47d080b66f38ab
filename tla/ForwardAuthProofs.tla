-------------------------- MODULE ForwardAuthProofs --------------------------
(***************************************************************************)
(* Proofs about ForwardAuth for any requests, questions, capacities and    *)
(* times to live: type correctness, that a reply is always a verdict the   *)
(* validator has held, that a superseded verdict never surfaces, that a    *)
(* cached one is never older than its time to live and one timeout, and    *)
(* that rejections never push an allowed system out.                       *)
(***************************************************************************)
EXTENDS ForwardAuth, FiniteSetTheorems, TLAPS

-----------------------------------------------------------------------------
(* What the operations of a tier do. *)

\* A tier at rest: within its capacity, with an entry for the keys it holds
\* and no others.
TierOK(tier, max) ==
  /\ tier \in Tier(max)
  /\ \A k \in Question : Present(tier, k) <=> tier.entry[k] \in Entry

\* A read moves keys about in the list and changes nothing else.
LEMMA TouchKeepsEntries ==
  ASSUME NEW max \in Nat \ {0}, NEW tier, TierOK(tier, max), NEW k \in Question
  PROVE  /\ TierOK(Touch(tier, k), max)
         /\ Touch(tier, k).entry = tier.entry
         /\ \A q \in Question : Present(Touch(tier, k), q) <=> Present(tier, q)
<1>1. CASE ~Present(tier, k)
  BY <1>1 DEF Touch
<1>2. CASE Present(tier, k)
  <2> DEFINE moved == FrontPlace(tier.place, k)
  <2>1. tier.place \in [Question -> 0..max] /\ tier.entry \in [Question -> Entry \cup {NoEntry}]
    BY DEF TierOK, Tier
  <2>2. moved \in [Question -> 0..max]
        /\ \A q \in Question : moved[q] > 0 <=> tier.place[q] > 0
    BY <1>2, <2>1 DEF FrontPlace, Present
  <2>3. Touch(tier, k) = [tier EXCEPT !.place = moved]
    BY <1>2 DEF Touch
  <2>4. Touch(tier, k).place = moved /\ Touch(tier, k).entry = tier.entry
        /\ Touch(tier, k) \in Tier(max)
    <3> HIDE DEF moved
    <3> QED
      BY <2>2, <2>3 DEF TierOK, Tier
  <2> QED
    <3> HIDE DEF moved
    <3> QED
      BY <2>2, <2>4 DEF TierOK, Present
<1> QED
  BY <1>1, <1>2

\* A removal takes one key away and changes the entry of no other.
LEMMA RemoveTakesOne ==
  ASSUME NEW max \in Nat \ {0}, NEW tier, TierOK(tier, max), NEW k \in Question
  PROVE  /\ TierOK(Remove(tier, k), max)
         /\ ~Present(Remove(tier, k), k)
         /\ \A q \in Question \ {k} :
              /\ Remove(tier, k).entry[q] = tier.entry[q]
              /\ Present(Remove(tier, k), q) <=> Present(tier, q)
<1>1. CASE ~Present(tier, k)
  BY <1>1 DEF Remove
<1>2. CASE Present(tier, k)
  <2> DEFINE places == [j \in Question |-> IF j = k THEN 0
                          ELSE IF tier.place[j] > tier.place[k]
                               THEN tier.place[j] - 1 ELSE tier.place[j]]
             entries == [tier.entry EXCEPT ![k] = NoEntry]
  <2>1. tier.place \in [Question -> 0..max] /\ tier.entry \in [Question -> Entry \cup {NoEntry}]
    BY DEF TierOK, Tier
  <2>2. /\ places \in [Question -> 0..max]
        /\ places[k] = 0
        /\ \A q \in Question \ {k} : places[q] > 0 <=> tier.place[q] > 0
    BY <1>2, <2>1 DEF Present
  <2>3. /\ entries \in [Question -> Entry \cup {NoEntry}]
        /\ entries[k] \notin Entry
        /\ \A q \in Question \ {k} : entries[q] = tier.entry[q]
    BY <2>1, NothingAssumption DEF Entry
  <2>4. Remove(tier, k) = [place |-> places, entry |-> entries]
    BY <1>2 DEF Remove
  <2> QED
    <3> HIDE DEF places, entries
    <3> QED
      BY <2>2, <2>3, <2>4 DEF TierOK, Tier, Present
<1> QED
  BY <1>1, <1>2

\* A write leaves its key at the front with its entry, and no other key has an
\* entry it had not.
LEMMA PutPutsOne ==
  ASSUME NEW max \in Nat \ {0}, NEW tier, TierOK(tier, max), NEW k \in Question,
         NEW e \in Entry
  PROVE  /\ TierOK(Put(tier, k, e, max), max)
         /\ Present(Put(tier, k, e, max), k)
         /\ Put(tier, k, e, max).entry[k] = e
         /\ \A q \in Question \ {k} : Present(Put(tier, k, e, max), q) =>
              Present(tier, q) /\ Put(tier, k, e, max).entry[q] = tier.entry[q]
<1> DEFINE moved == FrontPlace(tier.place, k)
           filed == [tier.entry EXCEPT ![k] = e]
           kept == [j \in Question |-> IF moved[j] > max THEN 0 ELSE moved[j]]
           left == [j \in Question |-> IF moved[j] > max THEN NoEntry ELSE filed[j]]
<1>1. tier.place \in [Question -> 0..max] /\ tier.entry \in [Question -> Entry \cup {NoEntry}]
  BY DEF TierOK, Tier
<1>2. /\ moved \in [Question -> 0..(max + 1)]
      /\ moved[k] = 1
      /\ \A q \in Question \ {k} : moved[q] > 0 <=> tier.place[q] > 0
  BY <1>1 DEF FrontPlace
<1>3. /\ filed \in [Question -> Entry \cup {NoEntry}]
      /\ filed[k] = e
      /\ \A q \in Question \ {k} : filed[q] = tier.entry[q]
  BY <1>1
<1>4. Put(tier, k, e, max) = [place |-> kept, entry |-> left]
  BY DEF Put, Evict
<1>5. /\ kept \in [Question -> 0..max] /\ left \in [Question -> Entry \cup {NoEntry}]
      /\ kept[k] > 0 /\ left[k] = e
      /\ \A q \in Question : left[q] = IF moved[q] > max THEN NoEntry ELSE filed[q]
      /\ \A q \in Question \ {k} : kept[q] > 0 => tier.place[q] > 0 /\ left[q] = tier.entry[q]
      /\ \A q \in Question : ~(kept[q] > 0) => moved[q] > max \/ moved[q] = 0
  <2> HIDE DEF moved, filed
  <2> QED
    BY <1>2, <1>3
<1>6. \A q \in Question : kept[q] > 0 <=> left[q] \in Entry
  <2> HIDE DEF moved, filed, kept, left
  <2>1. NoEntry \notin Entry
    BY NothingAssumption DEF Entry
  <2>2. \A q \in Question : tier.place[q] > 0 <=> tier.entry[q] \in Entry
    BY DEF TierOK, Present
  <2> QED
    BY <2>1, <2>2, <1>1, <1>2, <1>3, <1>5
<1> QED
  <2> HIDE DEF moved, filed, kept, left
  <2> QED
    BY <1>4, <1>5, <1>6 DEF TierOK, Tier, Present

-----------------------------------------------------------------------------
(* The invariant. *)

Tiers == TierOK(pos, MaxPositive) /\ TierOK(neg, MaxNegative)

\* The rest of TypeOK.
Types ==
  /\ clock \in 0..MaxClock
  /\ truth \in [Question -> Verdict]
  /\ req \in [Request -> RequestState]
  /\ changes \in 0..MaxChanges
  /\ restarts \in 0..MaxRestarts
  /\ held \in [Question -> [Verdict -> Int]]
  /\ last \in [Question -> Verdict \cup {"none"}]
  /\ others \in [Question -> SUBSET Question]

\* The verdict of the moment is held now, and none will have been later.
HeldNow ==
  \A q \in Question : held[q][truth[q]] = clock /\ \A v \in Verdict : held[q][v] <= clock

\* A call upstream has not lasted longer than its timeout.
CallBounded(r) ==
  req[r].pc \in {"calling", "answered"} =>
    req[r].since <= clock /\ clock <= req[r].since + Timeout

\* What the validator answered, it held while it was asked; what a request is
\* told, it held once.
AnswerHeld(r) ==
  LET state == req[r] IN
  /\ state.pc # "idle" => state.asks \in Question
  /\ state.pc = "answered" =>
       /\ state.outcome \in Verdict \cup {"unavailable"}
       /\ state.outcome \in Verdict => held[state.asks][state.outcome] >= state.since
  /\ state.pc = "done" =>
       /\ state.outcome \in Verdict \cup {"unavailable"}
       /\ state.outcome \in Verdict => held[state.asks][state.outcome] >= 0

\* An entry is of a verdict held no longer ago than a timeout before it was
\* stored.
EntryHeld(q, e) ==
  /\ held[q][e.verdict] >= 0
  /\ e.expires <= held[q][e.verdict] + TTLOf(e.verdict) + Timeout

\* The first tier holds what was last found valid, the second what was last
\* found not to be: no question is in both.
EntryLast(q) ==
  /\ Present(pos, q) =>
       pos.entry[q].verdict = "valid" /\ last[q] = "valid" /\ EntryHeld(q, pos.entry[q])
  /\ Present(neg, q) =>
       /\ neg.entry[q].verdict = last[q] /\ last[q] \in Verdict \ {"valid"}
       /\ EntryHeld(q, neg.entry[q])

Requests == \A r \in Request : CallBounded(r) /\ AnswerHeld(r)
Entries == \A q \in Question : EntryLast(q)

AuthInv == Types /\ Tiers /\ HeldNow /\ Requests /\ Entries

-----------------------------------------------------------------------------
(* The invariant gives the properties. *)

LEMMA EntriesTyped ==
  ASSUME AuthInv, NEW q \in Question, Found(q)
  PROVE  /\ Cached(q) \in Entry
         /\ Cached(q).verdict \in Verdict
         /\ Cached(q).verdict = last[q]
         /\ EntryHeld(q, Cached(q))
<1>1. EntryLast(q)
  BY DEF AuthInv, Entries
<1>2. CASE Present(pos, q)
  <2>1. Cached(q) = pos.entry[q] /\ pos.entry[q] \in Entry
    BY <1>2 DEF Cached, AuthInv, Tiers, TierOK
  <2> QED
    BY <1>1, <1>2, <2>1 DEF EntryLast, Entry
<1>3. CASE ~Present(pos, q)
  <2>1. Cached(q) = neg.entry[q] /\ neg.entry[q] \in Entry /\ Present(neg, q)
    BY <1>3 DEF Cached, Found, AuthInv, Tiers, TierOK
  <2> QED
    BY <1>1, <2>1 DEF EntryLast, Entry
<1> QED
  BY <1>2, <1>3

LEMMA TTLIsATime ==
  \A v \in Verdict : TTLOf(v) \in Nat
BY LimitsAssumption DEF TTLOf

LEMMA AuthInvIsEnough ==
  AuthInv => /\ TypeOK
             /\ RepliesAreVerdicts
             /\ CachedVerdictsRecent
             /\ LastVerdictFound
<1> SUFFICES ASSUME AuthInv
             PROVE  TypeOK /\ RepliesAreVerdicts /\ CachedVerdictsRecent /\ LastVerdictFound
  OBVIOUS
<1>1. TypeOK
  BY DEF AuthInv, Types, Tiers, TierOK, TypeOK
<1>2. RepliesAreVerdicts
  <2> SUFFICES ASSUME NEW r \in Request, req[r].pc = "done", req[r].outcome # "unavailable"
               PROVE  held[req[r].asks][req[r].outcome] >= 0
    BY DEF RepliesAreVerdicts
  <2> QED
    BY DEF AuthInv, Requests, AnswerHeld
<1>3. CachedVerdictsRecent
  <2> SUFFICES ASSUME NEW q \in Question, Fresh(q)
               PROVE  clock < held[q][Cached(q).verdict] + TTLOf(Cached(q).verdict) + Timeout
    BY DEF CachedVerdictsRecent
  <2>1. Found(q) /\ clock < Cached(q).expires
    BY DEF Fresh
  <2>2. Cached(q).expires <= held[q][Cached(q).verdict] + TTLOf(Cached(q).verdict) + Timeout
        /\ Cached(q).verdict \in Verdict /\ Cached(q).expires \in Nat
    BY <2>1, EntriesTyped DEF EntryHeld, Entry
  <2>3. held[q][Cached(q).verdict] \in Int /\ TTLOf(Cached(q).verdict) \in Nat /\ clock \in Nat
    BY <2>2, TTLIsATime DEF AuthInv, Types
  <2> QED
    BY <2>1, <2>2, <2>3, LimitsAssumption
<1>4. LastVerdictFound
  BY EntriesTyped DEF LastVerdictFound
<1> QED
  BY <1>1, <1>2, <1>3, <1>4

-----------------------------------------------------------------------------
(* The steps. *)

\* authd starts with nothing cached and nothing asked.
LEMMA EmptyTierOK ==
  ASSUME NEW max \in Nat \ {0}
  PROVE  TierOK(EmptyTier, max) /\ \A q \in Question : ~Present(EmptyTier, q)
BY NothingAssumption DEF TierOK, EmptyTier, Tier, Present, Entry

LEMMA AuthInvInit == Init => AuthInv
<1> SUFFICES ASSUME Init PROVE AuthInv
  OBVIOUS
<1> USE DEF Init
<1>1. Types
  BY QuestionsAssumption, BoundsAssumption
     DEF Types, Idle, RequestState, Outcome, Verdict
<1>2. Tiers /\ Entries
  BY EmptyTierOK, LimitsAssumption DEF Tiers, Entries, EntryLast
<1>3. HeldNow
  BY QuestionsAssumption DEF HeldNow, Verdict
<1>4. Requests
  BY DEF Requests, CallBounded, AnswerHeld, Idle
<1> QED
  BY <1>1, <1>2, <1>3, <1>4 DEF AuthInv

\* A look in the cache.
LEMMA GetKeeps ==
  ASSUME AuthInv, NEW k \in Question, Get(k), UNCHANGED <<held, last>>
  PROVE  Tiers' /\ Entries'
<1>1. TierOK(pos', MaxPositive) /\ pos'.entry = pos.entry
      /\ \A q \in Question : Present(pos', q) <=> Present(pos, q)
  BY TouchKeepsEntries, LimitsAssumption DEF AuthInv, Tiers, Get
<1>2. TierOK(neg', MaxNegative) /\ neg'.entry = neg.entry
      /\ \A q \in Question : Present(neg', q) <=> Present(neg, q)
  BY TouchKeepsEntries, LimitsAssumption DEF AuthInv, Tiers, Get
<1>3. \A q \in Question : EntryLast(q)'
  BY <1>1, <1>2 DEF AuthInv, Entries, EntryLast, EntryHeld
<1> QED
  BY <1>1, <1>2, <1>3 DEF Tiers, Entries

LEMMA UsesTyped ==
  ASSUME AuthInv, NEW k \in Question, Used(k) \/ UNCHANGED others
  PROVE  others' \in [Question -> SUBSET Question]
BY DEF AuthInv, Types, Used

\* One request moves on and the rest of the world stands still.
LEMMA OneRequestMoves ==
  ASSUME AuthInv, NEW r \in Request, UNCHANGED <<clock, held>>,
         NEW n \in RequestState, req' = [req EXCEPT ![r] = n],
         CallBounded(r)', AnswerHeld(r)'
  PROVE  req' \in [Request -> RequestState] /\ Requests'
<1>1. req' \in [Request -> RequestState]
  BY DEF AuthInv, Types
<1>2. ASSUME NEW x \in Request PROVE (CallBounded(x) /\ AnswerHeld(x))'
  <2>1. CASE x = r
    BY <2>1
  <2>2. CASE x # r
    <3>1. req'[x] = req[x] /\ CallBounded(x) /\ AnswerHeld(x)
      BY <2>2 DEF AuthInv, Requests, Types
    <3> QED
      BY <3>1 DEF CallBounded, AnswerHeld
  <2> QED
    BY <2>1, <2>2
<1> QED
  BY <1>1, <1>2 DEF Requests

\* As the validator's record grows, what was held stays held.
LEMMA HeldGrows ==
  ASSUME AuthInv, UNCHANGED <<cache, req, last>>,
         held' \in [Question -> [Verdict -> Int]],
         \A q \in Question, v \in Verdict : held'[q][v] >= held[q][v]
  PROVE  Entries' /\ \A r \in Request : AnswerHeld(r)'
<1> USE DEF AuthInv, Types
<1>1. ASSUME NEW q \in Question, NEW e \in Entry, e.verdict \in Verdict, EntryHeld(q, e)
      PROVE  EntryHeld(q, e)'
  <2>1. held[q][e.verdict] \in Int /\ held'[q][e.verdict] \in Int
        /\ held'[q][e.verdict] >= held[q][e.verdict]
    BY <1>1
  <2>2. TTLOf(e.verdict) \in Nat /\ e.expires \in Nat /\ Timeout \in Nat
    BY <1>1, TTLIsATime, LimitsAssumption DEF Entry
  <2> QED
    BY <1>1, <2>1, <2>2 DEF EntryHeld, TTLOf
<1>2. ASSUME NEW q \in Question PROVE EntryLast(q)'
  <2>1. EntryLast(q)
    BY DEF Entries
  <2>2. Present(pos, q) => pos.entry[q] \in Entry /\ pos.entry[q].verdict \in Verdict
    BY DEF Tiers, TierOK, Entry
  <2>3. Present(neg, q) => neg.entry[q] \in Entry /\ neg.entry[q].verdict \in Verdict
    BY DEF Tiers, TierOK, Entry
  <2> QED
    BY <1>1, <2>1, <2>2, <2>3 DEF EntryLast, cache
<1>3. ASSUME NEW r \in Request PROVE AnswerHeld(r)'
  <2>1. AnswerHeld(r) /\ req[r] \in RequestState
    BY DEF Requests
  <2>2. ASSUME req[r].asks \in Question, req[r].outcome \in Verdict
        PROVE  /\ held[req[r].asks][req[r].outcome] \in Int
               /\ held'[req[r].asks][req[r].outcome] \in Int
               /\ held'[req[r].asks][req[r].outcome] >= held[req[r].asks][req[r].outcome]
    BY <2>2
  <2>3. req[r].since \in Int
    BY <2>1 DEF RequestState
  <2> QED
    BY <2>1, <2>2, <2>3 DEF AnswerHeld
<1> QED
  BY <1>2, <1>3 DEF Entries

\* A look in the cache answers, or the call upstream begins.
LEMMA LookUpKeeps ==
  ASSUME AuthInv, NEW r \in Request, NEW q \in Question, Hit(r, q) \/ Miss(r, q)
  PROVE  AuthInv'
<1> USE DEF CacheKey
<1>1. Tiers' /\ Entries'
  BY GetKeeps DEF Hit, Miss
<1>2. others' \in [Question -> SUBSET Question]
  BY UsesTyped DEF Hit, Miss, GetUses
<1>3. clock \in Nat /\ clock <= clock + Timeout
  BY LimitsAssumption DEF AuthInv, Types
<1>4. CASE Hit(r, q)
  <2> DEFINE n == [Idle EXCEPT !.pc = "done", !.asks = q, !.outcome = Cached(q).verdict]
  <2>1. Found(q)
    BY <1>4 DEF Hit, Fresh
  <2>2. Cached(q).verdict \in Verdict /\ held[q][Cached(q).verdict] >= 0
    BY <2>1, EntriesTyped DEF EntryHeld
  <2>3. n \in RequestState /\ n.pc = "done" /\ n.asks = q /\ n.outcome = Cached(q).verdict
    BY <2>2 DEF Idle, RequestState, Outcome
  <2>4. req' = [req EXCEPT ![r] = n] /\ UNCHANGED <<clock, held>>
    BY <1>4 DEF Hit
  <2>5. req'[r] = n
    BY <2>4 DEF AuthInv, Types
  <2>6. CallBounded(r)' /\ AnswerHeld(r)'
    <3> HIDE DEF n
    <3> QED
      BY <2>2, <2>3, <2>4, <2>5 DEF CallBounded, AnswerHeld
  <2>7. req' \in [Request -> RequestState] /\ Requests'
    <3> HIDE DEF n
    <3> QED
      BY <2>3, <2>4, <2>6, OneRequestMoves
  <2> QED
    BY <1>1, <1>2, <1>4, <2>7 DEF AuthInv, Types, HeldNow, Hit
<1>5. CASE Miss(r, q)
  <2> DEFINE n == [Idle EXCEPT !.pc = "calling", !.asks = q, !.since = clock]
  <2>1. n \in RequestState /\ n.pc = "calling" /\ n.asks = q /\ n.since = clock
    BY <1>3 DEF Idle, RequestState, Outcome
  <2>2. req' = [req EXCEPT ![r] = n] /\ UNCHANGED <<clock, held>>
    BY <1>5 DEF Miss
  <2>3. req'[r] = n
    BY <2>2 DEF AuthInv, Types
  <2>4. CallBounded(r)' /\ AnswerHeld(r)'
    <3> HIDE DEF n
    <3> QED
      BY <1>3, <2>1, <2>2, <2>3 DEF CallBounded, AnswerHeld
  <2>5. req' \in [Request -> RequestState] /\ Requests'
    <3> HIDE DEF n
    <3> QED
      BY <2>1, <2>2, <2>4, OneRequestMoves
  <2> QED
    BY <1>1, <1>2, <1>5, <2>5 DEF AuthInv, Types, HeldNow, Miss
<1> QED
  BY <1>4, <1>5

\* The validator answers, or does not.
LEMMA AnswerKeeps ==
  ASSUME AuthInv, NEW r \in Request, Judge(r) \/ Unreachable(r)
  PROVE  AuthInv'
<1> DEFINE q == req[r].asks
           answer == IF Judge(r) THEN truth[q] ELSE "unavailable"
           n == [req[r] EXCEPT !.pc = "answered", !.outcome = answer]
<1>1. req[r].pc = "calling" /\ req' = [req EXCEPT ![r] = n]
      /\ UNCHANGED <<clock, truth, cache, changes, restarts, ghosts>>
  BY DEF Judge, Unreachable, AuthInv, Types, RequestState
<1>2. req[r] \in RequestState /\ q \in Question /\ CallBounded(r)
  BY <1>1 DEF AuthInv, Types, Requests, AnswerHeld
<1>3. /\ answer \in Verdict \cup {"unavailable"}
      /\ answer \in Verdict => held[q][answer] = clock
  BY <1>2 DEF AuthInv, Types, HeldNow, Verdict
<1>4. /\ n \in RequestState /\ n.pc = "answered" /\ n.asks = q /\ n.outcome = answer
      /\ n.since = req[r].since /\ n.since <= clock /\ clock <= n.since + Timeout
  <2> HIDE DEF answer
  <2> QED
    BY <1>1, <1>2, <1>3 DEF RequestState, Outcome, CallBounded
<1>5. req'[r] = n
  BY <1>1 DEF AuthInv, Types
<1>6. CallBounded(r)' /\ AnswerHeld(r)'
  <2> HIDE DEF n, answer
  <2> QED
    BY <1>1, <1>2, <1>3, <1>4, <1>5 DEF CallBounded, AnswerHeld, ghosts, RequestState
<1>7. req' \in [Request -> RequestState] /\ Requests'
  <2> HIDE DEF n, answer
  <2> QED
    BY <1>1, <1>4, <1>6, OneRequestMoves DEF ghosts
<1>8. Tiers' /\ Entries'
  BY <1>1 DEF AuthInv, Tiers, Entries, EntryLast, EntryHeld, cache, ghosts
<1> QED
  BY <1>1, <1>7, <1>8 DEF AuthInv, Types, HeldNow, cache, ghosts

\* An outage: what the cache has is replayed.
LEMMA FallbackKeeps ==
  ASSUME AuthInv, NEW r \in Request, Fallback(r)
  PROVE  AuthInv'
<1> USE DEF CacheKey
<1> DEFINE q == req[r].asks
           told == IF Found(q) THEN Cached(q).verdict ELSE "unavailable"
           n == [req[r] EXCEPT !.pc = "done", !.outcome = told]
<1>1. req[r].pc = "answered" /\ req' = [req EXCEPT ![r] = n] /\ Get(q) /\ GetUses(q)
      /\ UNCHANGED <<clock, truth, changes, restarts, held, last>>
  BY DEF Fallback, AuthInv, Types, RequestState
<1>2. req[r] \in RequestState /\ q \in Question
  BY <1>1 DEF AuthInv, Types, Requests, AnswerHeld
<1>3. told \in Verdict \cup {"unavailable"} /\ (told \in Verdict => held[q][told] >= 0)
  BY <1>2, EntriesTyped DEF EntryHeld, Verdict
<1>4. n \in RequestState /\ n.pc = "done" /\ n.asks = q /\ n.outcome = told
  <2> HIDE DEF told
  <2> QED
    BY <1>2, <1>3 DEF RequestState, Outcome
<1>5. req'[r] = n
  BY <1>1 DEF AuthInv, Types
<1>6. CallBounded(r)' /\ AnswerHeld(r)'
  <2> HIDE DEF n, told
  <2> QED
    BY <1>1, <1>2, <1>3, <1>4, <1>5 DEF CallBounded, AnswerHeld
<1>7. req' \in [Request -> RequestState] /\ Requests'
  <2> HIDE DEF n, told
  <2> QED
    BY <1>1, <1>4, <1>6, OneRequestMoves
<1>8. Tiers' /\ Entries'
  BY <1>1, <1>2, GetKeeps
<1>9. others' \in [Question -> SUBSET Question]
  BY <1>1, <1>2, UsesTyped DEF GetUses
<1> QED
  BY <1>1, <1>7, <1>8, <1>9 DEF AuthInv, Types, HeldNow

\* An answer is stored: the question is in the tier of the answer, and there
\* only.
LEMMA StoreKeepsEntries ==
  ASSUME AuthInv, NEW k \in Question, NEW v \in Verdict, SetEntry(k, v),
         last' = [last EXCEPT ![k] = v], UNCHANGED held,
         held[k][v] >= 0, clock <= held[k][v] + Timeout
  PROVE  Tiers' /\ Entries'
<1> DEFINE e == [verdict |-> v, expires |-> clock + TTLOf(v)]
<1>1. clock \in Nat /\ TTLOf(v) \in Nat /\ Timeout \in Nat /\ held[k][v] \in Int
  BY TTLIsATime, LimitsAssumption DEF AuthInv, Types
<1>2. /\ e \in Entry /\ e.verdict = v
      /\ held'[k][v] >= 0 /\ e.expires <= held'[k][v] + TTLOf(v) + Timeout
  BY <1>1 DEF Entry
<1>3. last' \in [Question -> Verdict \cup {"none"}] /\ last'[k] = v
      /\ \A q \in Question \ {k} : last'[q] = last[q]
  BY DEF AuthInv, Types
<1>4. TierOK(pos, MaxPositive) /\ TierOK(neg, MaxNegative)
      /\ MaxPositive \in Nat \ {0} /\ MaxNegative \in Nat \ {0}
  BY LimitsAssumption DEF AuthInv, Tiers
<1>5. CASE v = "valid"
  <2>1. neg' = Remove(neg, k) /\ pos' = Put(pos, k, e, MaxPositive)
    BY <1>5 DEF SetEntry, TTLOf
  <2>2. TierOK(pos', MaxPositive) /\ pos'.entry[k] = e
        /\ \A q \in Question \ {k} : Present(pos', q) =>
             Present(pos, q) /\ pos'.entry[q] = pos.entry[q]
    <3> HIDE DEF e
    <3> QED
      BY <1>2, <1>4, <2>1, PutPutsOne
  <2>3. TierOK(neg', MaxNegative) /\ ~Present(neg', k)
        /\ \A q \in Question \ {k} :
             neg'.entry[q] = neg.entry[q] /\ (Present(neg', q) <=> Present(neg, q))
    BY <1>4, <2>1, RemoveTakesOne
  <2>4. EntryLast(k)'
    <3> HIDE DEF e
    <3> QED
      BY <1>2, <1>3, <1>5, <2>2, <2>3 DEF EntryLast, EntryHeld, TTLOf
  <2>5. ASSUME NEW q \in Question \ {k} PROVE EntryLast(q)'
    BY <1>3, <2>2, <2>3 DEF AuthInv, Entries, EntryLast, EntryHeld
  <2> QED
    BY <2>2, <2>3, <2>4, <2>5 DEF Tiers, Entries
<1>6. CASE v # "valid"
  <2>1. pos' = Remove(pos, k) /\ neg' = Put(neg, k, e, MaxNegative)
    BY <1>6 DEF SetEntry, TTLOf
  <2>2. TierOK(neg', MaxNegative) /\ neg'.entry[k] = e
        /\ \A q \in Question \ {k} : Present(neg', q) =>
             Present(neg, q) /\ neg'.entry[q] = neg.entry[q]
    <3> HIDE DEF e
    <3> QED
      BY <1>2, <1>4, <2>1, PutPutsOne
  <2>3. TierOK(pos', MaxPositive) /\ ~Present(pos', k)
        /\ \A q \in Question \ {k} :
             pos'.entry[q] = pos.entry[q] /\ (Present(pos', q) <=> Present(pos, q))
    BY <1>4, <2>1, RemoveTakesOne
  <2>4. EntryLast(k)'
    <3> HIDE DEF e
    <3> QED
      BY <1>2, <1>3, <1>6, <2>2, <2>3 DEF EntryLast, EntryHeld, TTLOf
  <2>5. ASSUME NEW q \in Question \ {k} PROVE EntryLast(q)'
    BY <1>3, <2>2, <2>3 DEF AuthInv, Entries, EntryLast, EntryHeld
  <2> QED
    BY <2>2, <2>3, <2>4, <2>5 DEF Tiers, Entries
<1> QED
  BY <1>5, <1>6

LEMMA StoreKeeps ==
  ASSUME AuthInv, NEW r \in Request, Store(r)
  PROVE  AuthInv'
<1> USE DEF CacheKey
<1> DEFINE q == req[r].asks
           v == req[r].outcome
           n == [req[r] EXCEPT !.pc = "done"]
<1>1. /\ req[r].pc = "answered" /\ v # "unavailable" /\ SetEntry(q, v)
      /\ last' = [last EXCEPT ![q] = v] /\ (Used(q) \/ UNCHANGED others)
      /\ req' = [req EXCEPT ![r] = n]
      /\ UNCHANGED <<clock, truth, changes, restarts, held>>
  BY DEF Store, AuthInv, Types, RequestState
<1>2. /\ req[r] \in RequestState /\ q \in Question /\ v \in Verdict
      /\ held[q][v] >= req[r].since /\ CallBounded(r)
  BY <1>1 DEF AuthInv, Types, Requests, AnswerHeld
<1>3. /\ held[q][v] \in Int /\ req[r].since \in Nat /\ clock \in Nat
      /\ clock <= req[r].since + Timeout /\ Timeout \in Nat
  BY <1>1, <1>2, LimitsAssumption DEF AuthInv, Types, RequestState, CallBounded
<1>4. held[q][v] >= 0 /\ clock <= held[q][v] + Timeout
  BY <1>2, <1>3
<1>5. Tiers' /\ Entries'
  BY <1>1, <1>2, <1>4, StoreKeepsEntries
<1>6. n \in RequestState /\ n.pc = "done" /\ n.asks = q /\ n.outcome = v
  BY <1>2 DEF RequestState, Outcome
<1>7. req'[r] = n
  BY <1>1 DEF AuthInv, Types
<1>8. CallBounded(r)' /\ AnswerHeld(r)'
  <2> HIDE DEF n
  <2> QED
    BY <1>1, <1>2, <1>4, <1>6, <1>7 DEF CallBounded, AnswerHeld
<1>9. req' \in [Request -> RequestState] /\ Requests'
  <2> HIDE DEF n
  <2> QED
    BY <1>1, <1>6, <1>8, OneRequestMoves
<1>10. others' \in [Question -> SUBSET Question]
  BY <1>1, <1>2, UsesTyped
<1>11. last' \in [Question -> Verdict \cup {"none"}]
  BY <1>1, <1>2 DEF AuthInv, Types
<1> QED
  BY <1>1, <1>5, <1>9, <1>10, <1>11 DEF AuthInv, Types, HeldNow

LEMMA ReplyKeeps ==
  ASSUME AuthInv, NEW r \in Request, Reply(r)
  PROVE  AuthInv'
<1>1. Idle \in RequestState
  BY DEF Idle, RequestState, Outcome
<1>2. req' = [req EXCEPT ![r] = Idle]
      /\ UNCHANGED <<clock, truth, cache, changes, restarts, ghosts>>
  BY DEF Reply
<1>3. CallBounded(r)' /\ AnswerHeld(r)'
  BY <1>2 DEF CallBounded, AnswerHeld, Idle, AuthInv, Types
<1>4. req' \in [Request -> RequestState] /\ Requests'
  BY <1>1, <1>2, <1>3, OneRequestMoves DEF ghosts
<1>5. Tiers' /\ Entries'
  BY <1>2 DEF AuthInv, Tiers, Entries, EntryLast, EntryHeld, cache, ghosts
<1> QED
  BY <1>2, <1>4, <1>5 DEF AuthInv, Types, HeldNow, cache, ghosts

-----------------------------------------------------------------------------
(* The world's steps. *)

LEMMA ChangeMindKeeps ==
  ASSUME AuthInv, NEW q \in Question, NEW v \in Verdict, ChangeMind(q, v)
  PROVE  AuthInv'
<1> USE DEF ChangeMind, AuthInv, Types
<1>1. held' \in [Question -> [Verdict -> Int]]
  OBVIOUS
<1>2. \A p \in Question, u \in Verdict : held'[p][u] >= held[p][u]
  BY DEF HeldNow
<1>3. Entries' /\ \A r \in Request : AnswerHeld(r)'
  BY <1>1, <1>2, HeldGrows
<1>4. Requests'
  BY <1>3 DEF Requests, CallBounded
<1>5. HeldNow'
  BY <1>1 DEF HeldNow
<1>6. Tiers'
  BY DEF Tiers, cache
<1>7. truth' \in [Question -> Verdict] /\ changes' \in 0..MaxChanges
  BY BoundsAssumption
<1> QED
  BY <1>1, <1>3, <1>4, <1>5, <1>6, <1>7

LEMMA TickKeeps ==
  ASSUME AuthInv, Tick
  PROVE  AuthInv'
<1> USE DEF Tick, AuthInv, Types
<1>1. held' \in [Question -> [Verdict -> Int]]
  OBVIOUS
<1>2. \A p \in Question, u \in Verdict : held'[p][u] >= held[p][u]
  BY DEF HeldNow
<1>3. Entries' /\ \A r \in Request : AnswerHeld(r)'
  BY <1>1, <1>2, HeldGrows
<1>4. \A r \in Request : CallBounded(r)'
  <2> SUFFICES ASSUME NEW r \in Request PROVE CallBounded(r)'
    OBVIOUS
  <2>1. CallBounded(r) /\ req[r].since \in Nat /\ Timeout \in Nat
    BY LimitsAssumption DEF Requests, RequestState
  <2> QED
    BY <2>1 DEF CallBounded
<1>5. HeldNow'
  BY <1>1 DEF HeldNow
<1>6. Tiers'
  BY DEF Tiers, cache
<1>7. clock' \in 0..MaxClock
  BY BoundsAssumption
<1> QED
  BY <1>1, <1>3, <1>4, <1>5, <1>6, <1>7 DEF Requests

LEMMA RestartKeeps ==
  ASSUME AuthInv, Restart
  PROVE  AuthInv'
<1> USE DEF Restart
<1>1. Tiers' /\ Entries'
  BY EmptyTierOK, LimitsAssumption DEF Tiers, Entries, EntryLast
<1>2. Idle \in RequestState
  BY DEF Idle, RequestState, Outcome
<1>3. Requests'
  BY DEF Requests, CallBounded, AnswerHeld, Idle
<1>4. restarts' \in 0..MaxRestarts
  BY BoundsAssumption DEF AuthInv, Types
<1> QED
  BY <1>1, <1>2, <1>3, <1>4 DEF AuthInv, Types, HeldNow

LEMMA StutterKeeps ==
  ASSUME AuthInv, UNCHANGED vars
  PROVE  AuthInv'
BY DEF AuthInv, Types, Tiers, HeldNow, Requests, CallBounded, AnswerHeld, Entries,
       EntryLast, EntryHeld, vars, cache, ghosts

LEMMA AuthInvInductive == AuthInv /\ [Next]_vars => AuthInv'
<1> SUFFICES ASSUME AuthInv, [Next]_vars PROVE AuthInv'
  OBVIOUS
<1>1. ASSUME NEW r \in Request, NEW q \in Question, Hit(r, q) \/ Miss(r, q)
      PROVE  AuthInv'
  BY <1>1, LookUpKeeps
<1>2. ASSUME NEW r \in Request, Proceed(r) PROVE AuthInv'
  BY <1>2, AnswerKeeps, StoreKeeps, FallbackKeeps, ReplyKeeps DEF Proceed
<1>3. ASSUME NEW q \in Question, NEW v \in Verdict, ChangeMind(q, v) PROVE AuthInv'
  BY <1>3, ChangeMindKeeps
<1>4. CASE UNCHANGED vars
  BY <1>4, StutterKeeps
<1> QED
  BY <1>1, <1>2, <1>3, <1>4, TickKeeps, RestartKeeps DEF Next

LEMMA AuthInvAlways == Spec => []AuthInv
BY AuthInvInit, AuthInvInductive, PTL DEF Spec

-----------------------------------------------------------------------------
(* The theorems. *)

\* Type correctness: the tiers stay within their capacities.
THEOREM AuthTypeCorrect == Spec => []TypeOK
BY AuthInvAlways, AuthInvIsEnough, PTL

\* Whatever a request is told, the validator has held on that credential for
\* that service.
THEOREM RepliesAreAlwaysVerdicts == Spec => []RepliesAreVerdicts
BY AuthInvAlways, AuthInvIsEnough, PTL

\* A cached verdict is withdrawn a time to live and a timeout after the
\* validator last held it.
THEOREM CachedVerdictsAlwaysRecent == Spec => []CachedVerdictsRecent
BY AuthInvAlways, AuthInvIsEnough, PTL

\* A superseded verdict never surfaces from the other tier.
THEOREM LastVerdictAlwaysFound == Spec => []LastVerdictFound
BY AuthInvAlways, AuthInvIsEnough, PTL

-----------------------------------------------------------------------------
(* The bound on evictions. *)

\* The places ahead of q are all taken by questions of a set.
Behind(place, q, set) ==
  /\ place[q] > 0
  /\ \A n \in 1..(place[q] - 1) : \E j \in set : place[j] = n

\* An allowed question is in its tier behind the others used since it was, or
\* these others are as many as the tier has room for.
HasRoom(q) ==
  last[q] = "valid" =>
    Behind(pos.place, q, others[q]) \/ Cardinality(others[q]) >= MaxPositive

Room == \A q \in Question : HasRoom(q)

\* A key that comes to the front is the one more that q may be behind.
LEMMA FrontPlaceBehind ==
  ASSUME NEW max \in Nat, NEW place \in [Question -> 0..max], NEW k \in Question,
         NEW q \in Question \ {k}, NEW set \in SUBSET Question, Behind(place, q, set)
  PROVE  Behind(FrontPlace(place, k), q, set \cup {k})
<1> DEFINE moved == FrontPlace(place, k)
<1>1. /\ moved[k] = 1
      /\ \A j \in Question \ {k} : moved[j] =
           IF place[j] > 0 /\ (place[k] = 0 \/ place[j] < place[k]) THEN place[j] + 1
           ELSE place[j]
  BY DEF FrontPlace
<1>2. /\ \A j \in Question : place[j] \in Nat
      /\ place[q] > 0
      /\ \A n \in 1..(place[q] - 1) : \E j \in set : place[j] = n
  BY DEF Behind
<1> HIDE DEF moved
<1>3. ASSUME NEW n \in 1..(moved[q] - 1)
      PROVE  \E j \in set \cup {k} : moved[j] = n
  <2>1. CASE n = 1
    BY <1>1, <2>1
  <2>2. CASE n > 1 /\ (moved[q] = place[q] + 1 \/ n <= place[k])
    <3>1. n - 1 \in 1..(place[q] - 1)
      BY <1>1, <1>2, <2>2
    <3>2. PICK j \in set : place[j] = n - 1
      BY <1>2, <3>1
    <3>3. j # k /\ (place[k] = 0 \/ place[j] < place[k])
      BY <1>1, <1>2, <2>2, <3>1, <3>2
    <3>4. moved[j] = n
      BY <1>1, <1>2, <2>2, <3>2, <3>3
    <3> QED
      BY <3>4
  <2>3. CASE moved[q] = place[q] /\ n > place[k]
    <3>1. PICK j \in set : place[j] = n
      BY <1>2, <2>3
    <3>2. j # k /\ place[k] > 0
      BY <1>1, <1>2, <2>3, <3>1
    <3>3. moved[j] = n
      BY <1>1, <1>2, <2>3, <3>1, <3>2
    <3> QED
      BY <3>3
  <2> QED
    BY <1>1, <1>2, <2>1, <2>2, <2>3
<1>4. moved[q] > 0
  BY <1>1, <1>2
<1> QED
  BY <1>3, <1>4 DEF Behind, moved

\* Whoever is pushed past the end of the tier has as many others ahead.
LEMMA PushedOutByMany ==
  ASSUME NEW max \in Nat, NEW place \in [Question -> Nat], NEW q \in Question,
         NEW set \in SUBSET Question, Behind(place, q, set), place[q] > max
  PROVE  Cardinality(set) >= max
<1> DEFINE at == [n \in 1..max |-> CHOOSE j \in set : place[j] = n]
<1>1. \A n \in 1..max : at[n] \in set /\ place[at[n]] = n
  BY DEF Behind
<1>2. at \in Injection(1..max, set)
  BY <1>1 DEF Injection, IsInjective
<1>3. IsFiniteSet(set)
  BY QuestionsAssumption, FS_Subset
<1>4. Cardinality(1..max) <= Cardinality(set)
  <2> HIDE DEF at
  <2> QED
    BY <1>2, <1>3, FS_Injection
<1> QED
  BY <1>3, <1>4, FS_Interval, FS_CardinalityType

\* Uses of others only ever add up.
LEMMA OthersAddUp ==
  ASSUME NEW few \in SUBSET Question, NEW many \in SUBSET Question, few \subseteq many
  PROVE  Cardinality(few) >= MaxPositive => Cardinality(many) >= MaxPositive
<1>1. IsFiniteSet(few) /\ IsFiniteSet(many)
  BY QuestionsAssumption, FS_Subset
<1>2. Cardinality(few) <= Cardinality(many)
  BY <1>1, FS_Subset
<1> QED
  BY <1>1, <1>2, FS_CardinalityType, LimitsAssumption

\* A look in the cache.
LEMMA GetKeepsRoom ==
  ASSUME AuthInv, Room, NEW k \in Question, Get(k), GetUses(k), UNCHANGED last
  PROVE  Room'
<1>1. CASE ~Present(pos, k)
  BY <1>1 DEF Get, GetUses, Touch, Room, HasRoom, Behind
<1>2. CASE Present(pos, k)
  <2>1. pos.place \in [Question -> 0..MaxPositive] /\ MaxPositive \in Nat
    BY LimitsAssumption DEF AuthInv, Tiers, TierOK, Tier
  <2>2. pos'.place = FrontPlace(pos.place, k)
    BY <1>2 DEF Get, Touch, AuthInv, Tiers, TierOK, Tier
  <2>3. \A q \in Question : others'[q] =
          IF q = k \/ last[q] # "valid" THEN {} ELSE others[q] \cup {k}
    BY <1>2 DEF GetUses, Used
  <2>4. ASSUME NEW q \in Question, last'[q] = "valid", q # k
        PROVE  Behind(pos'.place, q, others'[q]) \/ Cardinality(others'[q]) >= MaxPositive
    <3>1. others'[q] = others[q] \cup {k} /\ others[q] \in SUBSET Question
      BY <2>3, <2>4 DEF AuthInv, Types
    <3>2. CASE Behind(pos.place, q, others[q])
      BY <2>1, <2>2, <2>4, <3>1, <3>2, FrontPlaceBehind
    <3>3. CASE Cardinality(others[q]) >= MaxPositive
      BY <3>1, <3>3, OthersAddUp
    <3> QED
      BY <2>4, <3>2, <3>3 DEF Room, HasRoom
  <2>5. Behind(pos'.place, k, others'[k])
    <3>1. pos'.place[k] = 1
      BY <2>2 DEF FrontPlace
    <3> QED
      BY <3>1 DEF Behind
  <2> QED
    BY <2>4, <2>5 DEF Room, HasRoom
<1> QED
  BY <1>1, <1>2

\* A valid answer is stored.
LEMMA AllowedStoredKeepsRoom ==
  ASSUME AuthInv, Room, NEW k \in Question, SetEntry(k, "valid"), Used(k),
         last' = [last EXCEPT ![k] = "valid"]
  PROVE  Room'
<1> DEFINE moved == FrontPlace(pos.place, k)
           kept == [j \in Question |-> IF moved[j] > MaxPositive THEN 0 ELSE moved[j]]
<1>1. pos.place \in [Question -> 0..MaxPositive] /\ MaxPositive \in Nat \ {0}
  BY LimitsAssumption DEF AuthInv, Tiers, TierOK, Tier
<1>2. pos'.place = kept
  BY DEF SetEntry, Put, Evict
<1>3. moved \in [Question -> Nat] /\ moved[k] = 1
  BY <1>1 DEF FrontPlace
<1>4. \A q \in Question : others'[q] =
        IF q = k \/ last[q] # "valid" THEN {} ELSE others[q] \cup {k}
  BY DEF Used
<1>5. last' \in [Question -> Verdict \cup {"none"}] /\ \A q \in Question \ {k} : last'[q] = last[q]
  BY DEF AuthInv, Types, Verdict
<1>6. ASSUME NEW q \in Question \ {k}, last'[q] = "valid"
      PROVE  Behind(kept, q, others'[q]) \/ Cardinality(others'[q]) >= MaxPositive
  <2>1. others'[q] = others[q] \cup {k} /\ others[q] \in SUBSET Question /\ last[q] = "valid"
    BY <1>4, <1>5, <1>6 DEF AuthInv, Types
  <2>2. CASE Behind(pos.place, q, others[q])
    <3>1. Behind(moved, q, others'[q])
      BY <1>1, <2>1, <2>2, FrontPlaceBehind
    <3> HIDE DEF moved
    <3>2. CASE moved[q] > MaxPositive
      BY <1>1, <1>3, <2>1, <3>1, <3>2, PushedOutByMany
    <3>3. CASE ~(moved[q] > MaxPositive)
      <4>1. kept[q] = moved[q] /\ moved[q] > 0
        BY <3>1, <3>3 DEF Behind
      <4>2. ASSUME NEW n \in 1..(moved[q] - 1)
            PROVE  \E j \in others'[q] : kept[j] = n
        <5>1. PICK j \in others'[q] : moved[j] = n
          BY <3>1 DEF Behind
        <5>2. j \in Question /\ ~(n > MaxPositive)
          BY <1>1, <1>3, <2>1, <3>3
        <5>3. kept[j] = n
          BY <5>1, <5>2
        <5> QED
          BY <5>3
      <4> QED
        BY <4>1, <4>2 DEF Behind
    <3> QED
      BY <3>2, <3>3
  <2>3. CASE Cardinality(others[q]) >= MaxPositive
    BY <2>1, <2>3, OthersAddUp
  <2> QED
    BY <2>1, <2>2, <2>3 DEF Room, HasRoom
<1>7. Behind(kept, k, others'[k])
  <2>1. kept[k] = 1
    <3> HIDE DEF moved
    <3> QED
      BY <1>1, <1>3
  <2> QED
    BY <2>1 DEF Behind
<1> QED
  <2> HIDE DEF kept
  <2> QED
    BY <1>2, <1>6, <1>7 DEF Room, HasRoom

\* A rejection is stored: its question leaves the tier and those behind it
\* come forward.
LEMMA RejectionKeepsRoom ==
  ASSUME AuthInv, Room, NEW k \in Question, NEW v \in Verdict \ {"valid"},
         SetEntry(k, v), UNCHANGED others, last' = [last EXCEPT ![k] = v]
  PROVE  Room'
<1>1. pos.place \in [Question -> 0..MaxPositive] /\ MaxPositive \in Nat
  BY LimitsAssumption DEF AuthInv, Tiers, TierOK, Tier
<1>2. pos' = Remove(pos, k)
  BY DEF SetEntry
<1>3. last'[k] # "valid" /\ \A q \in Question \ {k} : last'[q] = last[q]
  BY DEF AuthInv, Types
<1>4. CASE ~Present(pos, k)
  BY <1>2, <1>3, <1>4 DEF Remove, Room, HasRoom, Behind
<1>5. CASE Present(pos, k)
  <2>1. \A j \in Question : pos'.place[j] =
          IF j = k THEN 0
          ELSE IF pos.place[j] > pos.place[k] THEN pos.place[j] - 1 ELSE pos.place[j]
    BY <1>2, <1>5 DEF Remove
  <2>2. ASSUME NEW q \in Question \ {k}, Behind(pos.place, q, others[q])
        PROVE  Behind(pos'.place, q, others[q])
    <3>1. /\ others[q] \in SUBSET Question /\ pos.place[q] > 0 /\ pos.place[k] > 0
          /\ \A n \in 1..(pos.place[q] - 1) : \E j \in others[q] : pos.place[j] = n
      BY <1>5, <2>2 DEF Behind, AuthInv, Types, Present
    <3>2. pos'.place[q] > 0
      BY <1>1, <2>1, <3>1
    <3>3. ASSUME NEW n \in 1..(pos'.place[q] - 1), n < pos.place[k]
          PROVE  \E j \in others[q] : pos'.place[j] = n
      <4>1. n \in 1..(pos.place[q] - 1)
        BY <1>1, <2>1, <3>1
      <4>2. PICK j \in others[q] : pos.place[j] = n
        BY <3>1, <4>1
      <4> QED
        BY <1>1, <2>1, <3>1, <3>3, <4>2
    <3>4. ASSUME NEW n \in 1..(pos'.place[q] - 1), ~(n < pos.place[k])
          PROVE  \E j \in others[q] : pos'.place[j] = n
      <4>1. n + 1 \in 1..(pos.place[q] - 1)
        BY <1>1, <2>1, <3>1, <3>4
      <4>2. PICK j \in others[q] : pos.place[j] = n + 1
        BY <3>1, <4>1
      <4> QED
        BY <1>1, <2>1, <3>1, <3>4, <4>2
    <3> QED
      BY <3>2, <3>3, <3>4 DEF Behind
  <2> QED
    BY <1>3, <2>2 DEF Room, HasRoom
<1> QED
  BY <1>4, <1>5

LEMMA RoomInductive == AuthInv /\ Room /\ [Next]_vars => Room'
<1> SUFFICES ASSUME AuthInv, Room, [Next]_vars PROVE Room'
  OBVIOUS
<1>1. ASSUME NEW r \in Request, NEW q \in Question, Hit(r, q) \/ Miss(r, q)
      PROVE  Room'
  BY <1>1, GetKeepsRoom DEF Hit, Miss, CacheKey
<1>2. ASSUME NEW r \in Request, Fallback(r) PROVE Room'
  <2>1. req[r].asks \in Question
    BY <1>2 DEF Fallback, AuthInv, Requests, AnswerHeld
  <2> QED
    BY <1>2, <2>1, GetKeepsRoom DEF Fallback, CacheKey
<1>3. ASSUME NEW r \in Request, Store(r) PROVE Room'
  <2>1. req[r].asks \in Question /\ req[r].outcome \in Verdict
    BY <1>3 DEF Store, AuthInv, Requests, AnswerHeld
  <2>2. CASE req[r].outcome = "valid"
    BY <1>3, <2>1, <2>2, AllowedStoredKeepsRoom DEF Store, CacheKey
  <2>3. CASE req[r].outcome # "valid"
    BY <1>3, <2>1, <2>3, RejectionKeepsRoom DEF Store, CacheKey
  <2> QED
    BY <2>2, <2>3
<1>4. CASE UNCHANGED <<pos, last, others>>
  BY <1>4 DEF Room, HasRoom, Behind
<1>5. CASE Restart
  BY <1>5 DEF Restart, Room, HasRoom
<1> QED
  BY <1>1, <1>2, <1>3, <1>4, <1>5
     DEF Next, Proceed, Judge, Unreachable, Reply, ChangeMind, Tick, cache, ghosts, vars

\* However many wrong credentials arrive, a system found valid is known to the
\* cache unless as many other valid ones as it has room for were used since.
THEOREM AllowedAlwaysOutlastFlood == Spec => []AllowedOutlastFlood
<1>1. Init => Room
  BY DEF Init, Room, HasRoom
<1>2. Room => AllowedOutlastFlood
  BY DEF Room, HasRoom, AllowedOutlastFlood, Behind, Present
<1> QED
  BY <1>1, <1>2, AuthInvAlways, RoomInductive, PTL DEF Spec
=============================================================================
