------------------------------ MODULE Consensus ------------------------------
(***************************************************************************)
(* threatd: reports of banned addresses go through a bounded queue into    *)
(* the store, a periodic pass promotes the addresses that enough systems   *)
(* agree about, and the feed is what the last successful pass left.        *)
(*                                                                         *)
(* Reports, queue workers, the pass and the operators run concurrently.    *)
(* Every call on the store is one step, so the others run between two      *)
(* steps of a pass, and any of them may fail there.  The pass is the only  *)
(* writer of the blocklist: its reads of it and the write that follows are *)
(* one step.                                                               *)
(***************************************************************************)
EXTENDS Allowlist

CONSTANTS
  Address,      \* public addresses that may be reported
  Batches,      \* the sets of them that a report may name
  Covers,       \* Covers[c]: the addresses inside CIDR c
  MaxInFlight,  \* batches accepted and not yet stored: the queue's size, and
                \* one in the hands of each worker
  MinSystemsFloor,  \* the fewest systems that may make an agreement: 3
  MinSystems, Window, TTL, MaxEntries, Retention, AskRetention,
  Skew,         \* maxClockSkew: a reporter's clock may be this far ahead
  MaxClock,     \* bound: last tick
  MaxCalls      \* bound: reports, requests and decisions, all together

\* What validateConfig refuses to start without.  (How often a pass runs, at
\* least once a window, is left open: the properties hold for any pace.)
ValidConfig ==
  /\ MinSystemsFloor \in Nat \ {0} /\ MinSystems \in Nat /\ MinSystems >= MinSystemsFloor
  /\ MaxEntries \in Nat \ {0}
  /\ MaxInFlight \in Nat \ {0} /\ MaxPerSystem \in Nat \ {0}
  /\ Window \in Nat \ {0} /\ TTL \in Nat /\ Retention \in Nat /\ AskRetention \in Nat \ {0}
  /\ Window <= TTL /\ Window <= Retention
ASSUME ConfigAssumption == ValidConfig
ASSUME WorldAssumption ==
  /\ Skew \in Nat
  /\ Batches \subseteq SUBSET Address
  /\ Covers \in [Cidr -> SUBSET Address]
  /\ IsFiniteSet(System) /\ IsFiniteSet(Address) /\ IsFiniteSet(Cidr)
  /\ MaxClock \in Nat /\ MaxCalls \in Nat

VARIABLES
  clock,
  inFlight,   \* ingestq: the batches queued, or in the hands of a worker
  events,     \* threat_events
  blocklist,  \* threat_blocklist: when a listed address was last seen; its
              \* row expires TTL later
  tables,     \* the allowlist tables
  pass,       \* where Runner.Run is
  feed,       \* the snapshot
  stored,     \* ghost: every event that was ever in the store
  calls       \* ghost: reports, requests and decisions so far (bounded)

ingest == <<inFlight, events, stored>>
vars == <<clock, ingest, blocklist, tables, pass, feed, calls>>

Event == [system : System, address : Address, at : 0..(MaxClock + Skew)]
Work == SUBSET Event
NoRow == -1     \* an address that is not listed
NotReady == [ready |-> FALSE, entries |-> {}]

\* agreed[a]: when the systems that agree about a saw it last;
\* exempt: what the allowlist read covers; spared: ghost, the addresses
\* exempted since before the pass began.
NoPass ==
  [pc |-> "idle", now |-> 0, agreed |-> [a \in Address |-> NoRow], exempt |-> {},
   spared |-> {}]

ExemptAddresses(t) == UNION {Covers[c] : c \in t.entries}

Init ==
  /\ clock = 0
  /\ inFlight = {}
  /\ events = {}
  /\ blocklist = [a \in Address |-> NoRow]
  /\ tables = EmptyTables
  /\ pass = NoPass
  /\ feed = NotReady
  /\ stored = {}
  /\ calls = 0

\* One more thing that a client or an operator does.
Call == calls < MaxCalls /\ calls' = calls + 1

-----------------------------------------------------------------------------
(* Ingest. *)

\* observedAt: a time too far ahead is taken for now, one past the retention
\* is dropped.
Credible(raw) == raw > clock + Skew \/ raw >= clock - Retention
ObservedAt(raw) == IF raw > clock + Skew THEN clock ELSE raw

\* Sanitize: one event for each address, under the system's own identity.
\* What it drops leaves nothing but a count.
Sanitized(s, addresses, raw) ==
  {[system |-> s, address |-> a, at |-> ObservedAt(raw)] : a \in addresses}

\* handleEvents: a system reports bans, all decided at one time by its clock.
\* A report that finds the queue full is answered 503: the system retries.
Report(s, addresses, raw) ==
  /\ Credible(raw)
  /\ Cardinality(inFlight) < MaxInFlight
  /\ Call
  /\ inFlight' = inFlight \cup {Sanitized(s, addresses, raw)}
  /\ UNCHANGED <<clock, events, stored, blocklist, tables, pass, feed>>

\* NewConsumer: the whole batch in one transaction; an event that is there
\* already is left alone.  The count of the day, after it, may fail unseen.
Insert(batch) ==
  /\ batch \in inFlight
  /\ inFlight' = inFlight \ {batch}
  /\ events' = events \cup batch
  /\ stored' = stored \cup batch
  /\ UNCHANGED <<clock, blocklist, tables, pass, feed, calls>>

\* An insert that fails, times out or panics: the batch is dropped.
InsertFails(batch) ==
  /\ batch \in inFlight
  /\ inFlight' = inFlight \ {batch}
  /\ UNCHANGED <<clock, events, stored, blocklist, tables, pass, feed, calls>>

-----------------------------------------------------------------------------
(* The pass. *)

\* Mutation of Agreeing: sightings are counted, not the systems that saw.
AgreeingSightings(a, since) ==
  {e \in events : e.address = a /\ e.at >= since}

\* The systems that reported an address since then, under any scenario.
Agreeing(a, since) ==
  {s \in System : \E e \in events : e.system = s /\ e.address = a /\ e.at >= since}

Latest(a, since) ==
  LET times == {e.at : e \in {f \in events : f.address = a /\ f.at >= since}}
  IN  CHOOSE t \in times : \A u \in times : u <= t

\* Mutation of LastSeen: some sighting in the window, not the last.
LastSeenFirst(a, since) ==
  LET times == {e.at : e \in {f \in events : f.address = a /\ f.at >= since}}
      first == CHOOSE t \in times : \A u \in times : t <= u
  IN  IF first > clock THEN clock ELSE first

\* Mutation of LastSeen: the reporter's clock is believed.
LastSeenUnclamped(a, since) == Latest(a, since)

\* promote clamps it: a sighting dated ahead of the clock counts as of now.
LastSeen(a, since) ==
  IF Latest(a, since) > clock THEN clock ELSE Latest(a, since)

\* ConsensusCandidates, and the fold of them that promote makes.
Candidates ==
  LET since == clock - Window IN
  /\ pass.pc = "idle"
  /\ pass' = [NoPass EXCEPT
       !.pc = "allowlist",
       !.now = clock,
       !.agreed = [a \in Address |->
          IF Cardinality(Agreeing(a, since)) >= MinSystems THEN LastSeen(a, since) ELSE NoRow],
       !.spared = ExemptAddresses(tables)]
  /\ UNCHANGED <<clock, ingest, blocklist, tables, feed, calls>>

\* ThreatAllowlist
ReadAllowlist ==
  /\ pass.pc = "allowlist"
  /\ pass' = [pass EXCEPT !.pc = "promote", !.exempt = ExemptAddresses(tables)]
  /\ UNCHANGED <<clock, ingest, blocklist, tables, feed, calls>>

\* promote: agreed about, and not exempt as of the read.
Promoted(a) == pass.agreed[a] # NoRow /\ a \notin pass.exempt

\* UpsertBlocklistEntries: new, or refreshed.
Promote ==
  /\ pass.pc = "promote"
  /\ blocklist' = [a \in Address |-> IF Promoted(a) THEN pass.agreed[a] ELSE blocklist[a]]
  /\ pass' = [pass EXCEPT !.pc = "expire", !.agreed = NoPass.agreed]
  /\ UNCHANGED <<clock, ingest, tables, feed, calls>>

Live(a) == blocklist[a] # NoRow /\ blocklist[a] + TTL > pass.now

\* ExpireBlocklist
Expire ==
  /\ pass.pc = "expire"
  /\ blocklist' = [a \in Address |-> IF Live(a) THEN blocklist[a] ELSE NoRow]
  /\ pass' = [pass EXCEPT !.pc = "unlist"]
  /\ UNCHANGED <<clock, ingest, tables, feed, calls>>

\* Mutation of Unlist: keyed on the addresses that are candidates.
UnlistCandidates ==
  /\ pass.pc = "unlist"
  /\ blocklist' = [a \in Address |->
       IF Live(a) /\ a \in pass.exempt /\ Agreeing(a, pass.now - Window) # {}
       THEN NoRow ELSE blocklist[a]]
  /\ pass' = [pass EXCEPT !.pc = "prune", !.exempt = {}]
  /\ UNCHANGED <<clock, ingest, tables, feed, calls>>

\* DeleteBlocklistEntries
Delisted(addresses) == [a \in Address |-> IF a \in addresses THEN NoRow ELSE blocklist[a]]

\* unlist: of all that is listed, what the allowlist now covers goes.
Unlist ==
  /\ pass.pc = "unlist"
  /\ blocklist' = Delisted({a \in pass.exempt : Live(a)})
  /\ pass' = [pass EXCEPT !.pc = "prune", !.exempt = {}]
  /\ UNCHANGED <<clock, ingest, tables, feed, calls>>

\* PruneThreatEvents
EventsPruned == {e \in events : e.at >= pass.now - Retention}

\* The housekeeping, on tables that share nothing.  A prune that fails is only
\* logged.
Prune ==
  /\ pass.pc = "prune"
  /\ events' = EventsPruned
  /\ tables' = AsksPruned(tables, pass.now - AskRetention)
  /\ pass' = [pass EXCEPT !.pc = "publish"]
  /\ UNCHANGED <<clock, inFlight, stored, blocklist, feed, calls>>

PruneFails ==
  /\ pass.pc = "prune"
  /\ events' \in {events, EventsPruned}
  /\ tables' \in {tables, AsksPruned(tables, pass.now - AskRetention)}
  /\ pass' = [pass EXCEPT !.pc = "publish"]
  /\ UNCHANGED <<clock, inFlight, stored, blocklist, feed, calls>>

\* ListBlocklist and Generate: the most recently seen, as many as the cap has
\* room for, replace the whole feed.  Ties are broken by address, any of them
\* here.
Publish ==
  LET live == {a \in Address : Live(a)} IN
  /\ pass.pc = "publish"
  /\ \E kept \in SUBSET live :
       /\ Cardinality(kept) = IF Cardinality(live) > MaxEntries THEN MaxEntries
                              ELSE Cardinality(live)
       /\ \A a \in kept, b \in live \ kept : blocklist[b] <= blocklist[a]
       /\ feed' = [ready |-> TRUE, entries |-> kept]
  /\ pass' = NoPass
  /\ UNCHANGED <<clock, ingest, blocklist, tables, calls>>

\* Any other store error ends the pass; what it wrote stays.
PassFails ==
  /\ pass.pc \notin {"idle", "prune"}
  /\ pass' = NoPass
  /\ UNCHANGED <<clock, ingest, blocklist, tables, feed, calls>>

PassStep ==
  \/ Candidates \/ ReadAllowlist \/ Promote \/ Expire
  \/ Unlist \/ Prune \/ Publish

-----------------------------------------------------------------------------
(* Clients and operators; a call of theirs that fails changes nothing. *)

\* handleAllowlistRequest
Ask(s, c) ==
  /\ Call
  /\ tables' = Asked(tables, c, s, clock)
  /\ UNCHANGED <<clock, ingest, blocklist, pass, feed>>

\* The four forms of the operator UI.
Decide(c) ==
  /\ Call
  /\ tables' \in {Added(tables, c), Removed(tables, c), Approved(tables, c),
                  Rejected(tables, c)}
  /\ pass' = [pass EXCEPT !.spared = @ \cap ExemptAddresses(tables')]
  /\ UNCHANGED <<clock, ingest, blocklist, feed>>

-----------------------------------------------------------------------------
(* The process and the clock. *)

\* threatd dies, or is stopped once the queue is drained: the tables are all
\* that is left, and the feed is refused until a pass succeeds.
Restart ==
  /\ inFlight' = {}
  /\ pass' = NoPass
  /\ feed' = NotReady
  /\ UNCHANGED <<clock, events, stored, blocklist, tables, calls>>

Tick ==
  /\ clock < MaxClock
  /\ clock' = clock + 1
  /\ UNCHANGED <<ingest, blocklist, tables, pass, feed, calls>>

Next ==
  \/ \E s \in System, addresses \in Batches, raw \in 0..(MaxClock + Skew + 1) :
       Report(s, addresses, raw)
  \/ \E batch \in inFlight : Insert(batch) \/ InsertFails(batch)
  \/ PassStep
  \/ PruneFails \/ PassFails
  \/ \E s \in System, c \in Cidr : Ask(s, c)
  \/ \E c \in Cidr : Decide(c)
  \/ Restart
  \/ Tick

Spec == Init /\ [][Next]_vars

-----------------------------------------------------------------------------
(* Properties. *)

PassState ==
  [pc : {"idle", "allowlist", "promote", "expire", "unlist", "prune", "publish"},
   now : 0..MaxClock, agreed : [Address -> NoRow..MaxClock],
   exempt : SUBSET Address, spared : SUBSET Address]

FeedState ==
  [ready : BOOLEAN, entries : SUBSET Address]

\* Rows are dated by the clock, never ahead of it by a reporter's.
TypeOK ==
  /\ clock \in 0..MaxClock
  /\ inFlight \subseteq Work /\ Cardinality(inFlight) <= MaxInFlight
  /\ events \in Work /\ stored \in Work
  /\ blocklist \in [Address -> NoRow..MaxClock]
  /\ tables \in Tables(0..MaxClock)
  /\ pass \in PassState
  /\ feed \in FeedState
  /\ calls \in 0..MaxCalls

\* An address that a pass publishes was agreed about, less than a time to live
\* before, by MinSystems systems that each reported it within the window: one
\* system that reports it twice, or again after a restart, or with a clock that
\* is ahead, is one system and gains no time.
AgreedAt(a, day) ==
  /\ Cardinality({s \in System : \E e \in stored :
       e.system = s /\ e.address = a /\ e.at >= day - Window}) >= MinSystems
  /\ \E e \in stored : e.address = a /\ e.at >= day

AgreedByDistinctSystems ==
  [][Publish => \A a \in feed'.entries :
       \E day \in 0..pass.now : pass.now < day + TTL /\ AgreedAt(a, day)]_vars

\* An address exempted before a pass began, and still so, is not in the feed
\* that pass publishes: not when it is no candidate any more, nor when the
\* steps of the pass fall between the operator's and other passes failed.
ExemptHeldBack ==
  [][Publish => feed'.entries \cap pass.spared = {}]_vars

\* A refresh never shortens a listing: not when reports come late or out of
\* order, when older events were pruned, or when the window moved on.
RefreshNeverShortens ==
  [][\A a \in Address : blocklist[a] # NoRow /\ blocklist'[a] # NoRow =>
       blocklist'[a] >= blocklist[a]]_vars

\* The trail alone says which exemptions there are and how each request was
\* last decided.
AuditExplains ==
  \A c \in Cidr :
    /\ (c \in tables.entries)
         <=> LastAction(tables, c, {"upsert", "approved", "delete"}) \in {"upsert", "approved"}
    /\ tables.reviews[c] = LastAction(tables, c, {"approved", "rejected"})
=============================================================================
