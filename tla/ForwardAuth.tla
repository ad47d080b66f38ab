----------------------------- MODULE ForwardAuth -----------------------------
(***************************************************************************)
(* internal/platform/auth behind cmd/authd: concurrent requests validate   *)
(* credentials against a remote validator through one cache of verdicts.   *)
(*                                                                         *)
(* Validate looks up, calls upstream and stores in three separate steps;   *)
(* only the cache has a lock.  The validator may change its mind between   *)
(* any two of them, and may be out of reach.                               *)
(*                                                                         *)
(* Malformed headers and service names are answered before any of this and *)
(* touch no state, so a request here carries a well-formed credential.     *)
(***************************************************************************)
EXTENDS Integers, FiniteSets

CONSTANTS
  Request,      \* request goroutines of authd
  Service,      \* "" and the entitlements: the paths under the validator
  Credential,   \* system_id:secret pairs that edges send
  Question,     \* the <<service, credential>> that requests ask about
  Initially,    \* Initially[q]: the validator's first mind on q
  PositiveTTL, NegativeTTL,   \* in ticks
  MaxPositive, MaxNegative,   \* capacities of the two tiers
  Timeout,      \* AUTH_TIMEOUT, in ticks
  MaxClock,     \* bound: last tick
  MaxChanges,   \* bound: times the validator changes its mind
  MaxRestarts,  \* bound: restarts of authd
  NoEntry,      \* no cached verdict
  NoQuestion    \* what an idle request asks

Verdict == {"valid", "invalid", "forbidden"}

\* Mutation of CacheKey: keyed on the credential alone.
CacheKeyOfCredential(q) == CHOOSE p \in Question : p[2] = q[2]

\* cacheKey: the HMAC stands for the service and the credential together.
CacheKey(q) == q

ASSUME LimitsAssumption ==
  /\ PositiveTTL \in Nat /\ NegativeTTL \in Nat
  /\ MaxPositive \in Nat \ {0} /\ MaxNegative \in Nat \ {0}
  /\ Timeout \in Nat
ASSUME BoundsAssumption ==
  /\ MaxClock \in Nat
  /\ MaxChanges \in Nat
  /\ MaxRestarts \in Nat
ASSUME NothingAssumption == NoQuestion \notin Question /\ NoEntry \notin
  [verdict : Verdict, expires : Nat]
ASSUME QuestionsAssumption ==
  /\ Question \subseteq Service \X Credential
  /\ IsFiniteSet(Question)
  /\ Initially \in [Question -> Verdict]

INSTANCE LRU WITH Key <- Question

VARIABLES
  clock,
  truth,        \* truth[q]: what the validator would answer now
  pos, neg,     \* cache.pos and cache.neg
  req,          \* req[r]: where request r is in Validate
  changes,      \* ghost: changes of mind so far (bounded)
  restarts,     \* ghost: restarts so far (bounded)
  held,         \* ghost: held[q][v], the last tick at which truth[q] was v
  last,         \* ghost: last[q], the verdict stored last for q
  others        \* ghost: others[q], the questions answered positively, from
                \*        the cache or not, since q last was

cache == <<pos, neg>>
ghosts == <<held, last, others>>
vars == <<clock, truth, cache, req, changes, restarts, ghosts>>

-----------------------------------------------------------------------------
\* asks: the question; since: when the call upstream began; outcome: the
\* validator's answer, then the reply.
Idle == [pc |-> "idle", asks |-> NoQuestion, since |-> 0, outcome |-> "none"]

Outcome == Verdict \cup {"unavailable", "none"}

RequestState ==
  [pc : {"idle", "calling", "answered", "done"}, asks : Question \cup {NoQuestion},
   since : Nat, outcome : Outcome]

Entry == [verdict : Verdict, expires : Nat]

\* authd knows nothing when it starts.
Init ==
  /\ clock = 0
  /\ truth = Initially
  /\ pos = EmptyTier
  /\ neg = EmptyTier
  /\ req = [r \in Request |-> Idle]
  /\ changes = 0
  /\ restarts = 0
  /\ held = [q \in Question |-> [v \in Verdict |-> IF truth[q] = v THEN 0 ELSE -1]]
  /\ last = [q \in Question |-> "none"]
  /\ others = [q \in Question |-> {}]

Found(k) == Present(pos, k) \/ Present(neg, k)

Cached(k) == IF Present(pos, k) THEN pos.entry[k] ELSE neg.entry[k]

\* Mutation of Fresh: an entry is still good at its expiry.
FreshAtExpiry(k) == Found(k) /\ clock <= Cached(k).expires

Fresh(k) == Found(k) /\ clock < Cached(k).expires

\* What get does to the tiers: the second is not looked at when the first
\* answers.
Get(k) ==
  /\ pos' = Touch(pos, k)
  /\ neg' = IF Present(pos, k) THEN neg ELSE Touch(neg, k)

\* Ghost: k is used in the positive tier.
Used(k) ==
  others' = [j \in Question |-> IF j = k \/ last[j] # "valid" THEN {}
                                ELSE others[j] \cup {k}]

GetUses(k) == IF Present(pos, k) THEN Used(k) ELSE UNCHANGED others

-----------------------------------------------------------------------------
(* Validate. *)

\* A fresh verdict answers.  (setLimits, before it, shrinks tiers whose
\* capacities never change.)
Hit(r, q) ==
  LET k == CacheKey(q) IN
  /\ req[r].pc = "idle"
  /\ Fresh(k)
  /\ Get(k) /\ GetUses(k)
  /\ req' = [req EXCEPT ![r] = [Idle EXCEPT !.pc = "done", !.asks = q,
                                !.outcome = Cached(k).verdict]]
  /\ UNCHANGED <<clock, truth, changes, restarts, held, last>>

\* Nothing, or an expired verdict: the validator is called.
Miss(r, q) ==
  LET k == CacheKey(q) IN
  /\ req[r].pc = "idle"
  /\ ~Fresh(k)
  /\ Get(k) /\ GetUses(k)
  /\ req' = [req EXCEPT ![r] = [Idle EXCEPT !.pc = "calling", !.asks = q,
                                !.since = clock]]
  /\ UNCHANGED <<clock, truth, changes, restarts, held, last>>

\* The validator decides (200, 401 or 403).
Judge(r) ==
  /\ req[r].pc = "calling"
  /\ req' = [req EXCEPT ![r].pc = "answered", ![r].outcome = truth[req[r].asks]]
  /\ UNCHANGED <<clock, truth, cache, changes, restarts, ghosts>>

\* A transport error, a timeout or any other status.
Unreachable(r) ==
  /\ req[r].pc = "calling"
  /\ req' = [req EXCEPT ![r].pc = "answered", ![r].outcome = "unavailable"]
  /\ UNCHANGED <<clock, truth, cache, changes, restarts, ghosts>>

\* Mutation of SetEntry: the other tier keeps what it had.
SetEntryInOneTier(k, v) ==
  IF v = "valid"
  THEN /\ pos' = Put(pos, k, [verdict |-> v, expires |-> clock + PositiveTTL], MaxPositive)
       /\ UNCHANGED neg
  ELSE /\ neg' = Put(neg, k, [verdict |-> v, expires |-> clock + NegativeTTL], MaxNegative)
       /\ UNCHANGED pos

\* cache.set, with the time to live of the verdict.
SetEntry(k, v) ==
  IF v = "valid"
  THEN /\ neg' = Remove(neg, k)
       /\ pos' = Put(pos, k, [verdict |-> v, expires |-> clock + PositiveTTL], MaxPositive)
  ELSE /\ pos' = Remove(pos, k)
       /\ neg' = Put(neg, k, [verdict |-> v, expires |-> clock + NegativeTTL], MaxNegative)

\* The verdict is stored, over a newer one if there is one, and replied.
Store(r) ==
  LET k == CacheKey(req[r].asks)
      v == req[r].outcome
  IN
  /\ req[r].pc = "answered"
  /\ v # "unavailable"
  /\ SetEntry(k, v)
  /\ last' = [last EXCEPT ![k] = v]
  /\ IF v = "valid" THEN Used(k) ELSE UNCHANGED others
  /\ req' = [req EXCEPT ![r].pc = "done"]
  /\ UNCHANGED <<clock, truth, changes, restarts, held>>

\* Stale beats unavailable: what the cache has now is replayed.
Fallback(r) ==
  LET k == CacheKey(req[r].asks) IN
  /\ req[r].pc = "answered"
  /\ req[r].outcome = "unavailable"
  /\ Get(k) /\ GetUses(k)
  /\ req' = [req EXCEPT ![r].pc = "done",
               ![r].outcome = IF Found(k) THEN Cached(k).verdict ELSE "unavailable"]
  /\ UNCHANGED <<clock, truth, changes, restarts, held, last>>

\* validate (cmd/authd) turns the outcome into 200, 401, 403 or 503.
Reply(r) ==
  /\ req[r].pc = "done"
  /\ req' = [req EXCEPT ![r] = Idle]
  /\ UNCHANGED <<clock, truth, cache, changes, restarts, ghosts>>

-----------------------------------------------------------------------------
(* The world. *)

\* The validator is external: a credential is rotated, a subscription ends,
\* an entitlement is bought.
ChangeMind(q, v) ==
  /\ changes < MaxChanges
  /\ truth[q] # v
  /\ truth' = [truth EXCEPT ![q] = v]
  /\ held' = [held EXCEPT ![q][v] = clock]
  /\ changes' = changes + 1
  /\ UNCHANGED <<clock, cache, req, restarts, last, others>>

\* The HTTP client bounds a call; what Validate does after it takes no time.
Tick ==
  /\ clock < MaxClock
  /\ \A r \in Request :
       req[r].pc \in {"calling", "answered"} => clock < req[r].since + Timeout
  /\ clock' = clock + 1
  /\ held' = [q \in Question |-> [held[q] EXCEPT ![truth[q]] = clock + 1]]
  /\ UNCHANGED <<truth, cache, req, changes, restarts, last, others>>

\* authd is restarted: the cache is in memory only.
Restart ==
  /\ restarts < MaxRestarts
  /\ restarts' = restarts + 1
  /\ pos' = EmptyTier
  /\ neg' = EmptyTier
  /\ req' = [r \in Request |-> Idle]
  /\ last' = [q \in Question |-> "none"]
  /\ others' = [q \in Question |-> {}]
  /\ UNCHANGED <<clock, truth, changes, held>>

\* One more step of a request already begun.
Proceed(r) ==
  \/ Judge(r)
  \/ Unreachable(r)
  \/ Store(r)
  \/ Fallback(r)
  \/ Reply(r)

Next ==
  \/ \E r \in Request, q \in Question : Hit(r, q)
  \/ \E r \in Request, q \in Question : Miss(r, q)
  \/ \E r \in Request : Proceed(r)
  \/ \E q \in Question, v \in Verdict : ChangeMind(q, v)
  \/ Tick
  \/ Restart

Spec == Init /\ [][Next]_vars

-----------------------------------------------------------------------------
(* Properties. *)

Tier(max) ==
  [place : [Question -> 0..max], entry : [Question -> Entry \cup {NoEntry}]]

TypeOK ==
  /\ clock \in 0..MaxClock
  /\ truth \in [Question -> Verdict]
  /\ pos \in Tier(MaxPositive)
  /\ neg \in Tier(MaxNegative)
  /\ req \in [Request -> RequestState]
  /\ changes \in 0..MaxChanges
  /\ restarts \in 0..MaxRestarts
  /\ held \in [Question -> [Verdict -> Int]]
  /\ last \in [Question -> Verdict \cup {"none"}]
  /\ others \in [Question -> SUBSET Question]

\* A verdict a request is told, by the validator, the cache or the outage
\* fallback, is one the validator has held on that credential for that very
\* service: no entitlement is answered from another service's entry, and an
\* outage is never reported as a rejection.
RepliesAreVerdicts ==
  \A r \in Request :
    req[r].pc = "done" /\ req[r].outcome # "unavailable"
      => held[req[r].asks][req[r].outcome] >= 0

\* While the validator answers, a verdict it no longer holds is told for less
\* than its time to live and one upstream timeout: however late a slow answer
\* is stored, and over whatever newer one.  (A reply waits for nothing, so it
\* is judged when it is made: at a hit.)
TTLOf(v) == IF v = "valid" THEN PositiveTTL ELSE NegativeTTL

CachedVerdictsRecent ==
  \A q \in Question : Fresh(q) =>
    clock < held[q][Cached(q).verdict] + TTLOf(Cached(q).verdict) + Timeout

\* A system whose credential was last found valid is known to the cache,
\* however many wrong credentials arrive: only MaxPositive other valid ones,
\* all used since it last was, can push it out.
AllowedOutlastFlood ==
  \A q \in Question :
    last[q] = "valid" => Present(pos, q) \/ Cardinality(others[q]) >= MaxPositive

\* What the cache answers is the verdict stored last: a superseded one never
\* surfaces from the other tier.
LastVerdictFound ==
  \A q \in Question : Found(q) => Cached(q).verdict = last[q]
=============================================================================
