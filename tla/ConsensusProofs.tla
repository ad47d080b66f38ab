--------------------------- MODULE ConsensusProofs ---------------------------
(***************************************************************************)
(* Proofs about Consensus for any systems, addresses, CIDRs, windows and   *)
(* caps: type correctness, that what is published was agreed about by      *)
(* distinct systems, that an exempt address is held back, that a refresh   *)
(* never shortens a listing, and that the audit trail explains the tables. *)
(***************************************************************************)
EXTENDS Consensus, Extremes

-----------------------------------------------------------------------------
(* Sightings. *)

\* Latest is the time of a sighting, and no sighting since is later.
LEMMA LatestIsLast ==
  ASSUME events \in Work, NEW a \in Address, NEW since \in Int,
         Agreeing(a, since) # {}
  PROVE  /\ Latest(a, since) \in Nat
         /\ \E e \in events : e.address = a /\ e.at >= since /\ e.at = Latest(a, since)
         /\ \A e \in events : e.address = a /\ e.at >= since => e.at <= Latest(a, since)
<1> DEFINE seen == {f \in events : f.address = a /\ f.at >= since}
           times == {e.at : e \in seen}
<1>1. MaxClock + Skew \in Nat
  BY WorldAssumption
<1>2. times \in SUBSET (0..(MaxClock + Skew)) /\ times # {}
  BY DEF Agreeing, Work, Event
<1>3. \E t \in times : \A u \in times : u <= t
  <2> HIDE DEF times
  <2> QED
    BY <1>1, <1>2, LargestExists
<1>4. Latest(a, since) = CHOOSE t \in times : \A u \in times : u <= t
  BY DEF Latest
<1>5. Latest(a, since) \in times /\ \A u \in times : u <= Latest(a, since)
  <2> HIDE DEF times
  <2> QED
    BY <1>3, <1>4
<1> QED
  BY <1>2, <1>5

\* Enough systems are at least one.
LEMMA EnoughSystemsSaw ==
  ASSUME NEW a \in Address, NEW since \in Int, Cardinality(Agreeing(a, since)) >= MinSystems
  PROVE  Agreeing(a, since) # {}
BY FS_EmptySet, ConfigAssumption DEF ValidConfig

-----------------------------------------------------------------------------
(* The audit trail. *)

AllTimes == 0..MaxClock

\* The trail ends with what was done last; before it, it is as it was.
LEMMA LastActionAppended ==
  ASSUME NEW t \in Tables(AllTimes), NEW c \in Cidr, NEW d \in Cidr,
         NEW action \in {"upsert", "delete", "approved", "rejected"}, NEW kinds
  PROVE  LastAction(Audited(t, c, action), d, kinds) =
           IF c = d /\ action \in kinds THEN action ELSE LastAction(t, d, kinds)
<1> DEFINE old == t.audit
           line == [cidr |-> c, action |-> action]
           new == Append(old, line)
           Mine(audit) == {i \in DOMAIN audit : audit[i].cidr = d /\ audit[i].action \in kinds}
           Last(audit) == CHOOSE i \in Mine(audit) : \A j \in Mine(audit) : j <= i
<1>1. old \in Seq([cidr : Cidr, action : {"upsert", "delete", "approved", "rejected"}])
  BY DEF Tables
<1>2. Audited(t, c, action).audit = new
  BY DEF Audited, Tables
<1>3. /\ Len(old) \in Nat /\ DOMAIN old = 1..Len(old) /\ DOMAIN new = 1..(Len(old) + 1)
      /\ new[Len(old) + 1] = line
      /\ \A i \in 1..Len(old) : new[i] = old[i]
  BY <1>1
<1>4. /\ LastAction(Audited(t, c, action), d, kinds) =
           IF Mine(new) = {} THEN "none" ELSE new[Last(new)].action
      /\ LastAction(t, d, kinds) = IF Mine(old) = {} THEN "none" ELSE old[Last(old)].action
  BY <1>2 DEF LastAction
<1>5. CASE c = d /\ action \in kinds
  <2>1. Len(old) + 1 \in Mine(new) /\ \A j \in Mine(new) : j <= Len(old) + 1
    BY <1>3, <1>5
  <2>2. Last(new) = Len(old) + 1
    <3>1. \A i \in Mine(new) : i \in Nat
      BY <1>3
    <3> HIDE DEF Mine, new
    <3> QED
      BY <1>3, <2>1, <3>1
  <2>3. new[Last(new)].action = action /\ Mine(new) # {}
    <3>1. line.action = action
      OBVIOUS
    <3> HIDE DEF Mine, Last, line, new
    <3> QED
      BY <1>3, <2>1, <2>2, <3>1
  <2> QED
    <3> HIDE DEF Mine, Last, old, new
    <3> QED
      BY <1>4, <1>5, <2>3
<1>6. CASE ~(c = d /\ action \in kinds)
  <2>1. Mine(new) = Mine(old)
    BY <1>3, <1>6
  <2>2. CASE Mine(old) = {}
    BY <1>4, <1>6, <2>1, <2>2
  <2>3. CASE Mine(old) # {}
    <3>1. Mine(old) \in SUBSET (0..Len(old))
      BY <1>3
    <3>2. \E i \in Mine(old) : \A j \in Mine(old) : j <= i
      <4> HIDE DEF Mine, old
      <4> QED
        BY <1>3, <2>3, <3>1, LargestExists
    <3>3. Last(old) \in Mine(old) /\ Last(new) = Last(old)
      <4> HIDE DEF Mine, old, new
      <4> QED
        BY <2>1, <3>2
    <3>4. new[Last(new)] = old[Last(old)]
      BY <1>3, <3>3
    <3> QED
      <4> HIDE DEF Mine, Last, old, new
      <4> QED
        BY <1>4, <1>6, <2>1, <2>3, <3>4
  <2> QED
    BY <2>2, <2>3
<1> QED
  BY <1>5, <1>6

\* What AuditExplains says of the tables.
Explains(t) ==
  \A c \in Cidr :
    /\ (c \in t.entries)
         <=> LastAction(t, c, {"upsert", "approved", "delete"}) \in {"upsert", "approved"}
    /\ t.reviews[c] = LastAction(t, c, {"approved", "rejected"})

\* What an action of the trail does to the entries and to the decisions.
Matches(t, x, c, action) ==
  /\ x.audit = t.audit
  /\ x.entries = CASE action \in {"upsert", "approved"} -> t.entries \cup {c}
                   [] action = "delete" -> t.entries \ {c}
                   [] OTHER -> t.entries
  /\ \A d \in Cidr : x.reviews[d] =
       IF d = c /\ action \in {"approved", "rejected"} THEN action ELSE t.reviews[d]

\* A write is explained when its line is appended in the same transaction.
LEMMA WriteExplained ==
  ASSUME NEW t \in Tables(AllTimes), NEW x \in Tables(AllTimes), Explains(t),
         NEW c \in Cidr, NEW action \in {"upsert", "delete", "approved", "rejected"},
         Matches(t, x, c, action)
  PROVE  /\ Audited(x, c, action) \in Tables(AllTimes)
         /\ Explains(Audited(x, c, action))
         /\ Audited(x, c, action).entries = x.entries
<1> DEFINE y == Audited(x, c, action)
<1>1. /\ y.entries = x.entries /\ y.reviews = x.reviews
      /\ y \in Tables(AllTimes)
  <2> DEFINE Line == [cidr : Cidr, action : {"upsert", "delete", "approved", "rejected"}]
             line == [cidr |-> c, action |-> action]
  <2>1. x.audit \in Seq(Line) /\ line \in Line
    BY DEF Tables
  <2>2. Append(x.audit, line) \in Seq(Line)
    <3> HIDE DEF Line, line
    <3> QED
      BY <2>1
  <2>3. y = [x EXCEPT !.audit = Append(x.audit, line)]
    BY DEF Audited
  <2> HIDE DEF line, y
  <2> QED
    BY <2>2, <2>3 DEF Tables
<1>2. ASSUME NEW d \in Cidr, NEW kinds
      PROVE  LastAction(y, d, kinds) =
               IF c = d /\ action \in kinds THEN action ELSE LastAction(t, d, kinds)
  <2>1. LastAction(x, d, kinds) = LastAction(t, d, kinds)
    BY DEF LastAction, Matches
  <2> QED
    BY <2>1, LastActionAppended
<1>3. ASSUME NEW d \in Cidr
      PROVE  /\ (d \in y.entries)
                  <=> LastAction(y, d, {"upsert", "approved", "delete"})
                        \in {"upsert", "approved"}
             /\ y.reviews[d] = LastAction(y, d, {"approved", "rejected"})
  <2>1. /\ (d \in t.entries)
             <=> LastAction(t, d, {"upsert", "approved", "delete"}) \in {"upsert", "approved"}
        /\ t.reviews[d] = LastAction(t, d, {"approved", "rejected"})
    BY DEF Explains
  <2> HIDE DEF y
  <2> QED
    BY <1>1, <1>2, <2>1 DEF Matches
<1> QED
  BY <1>1, <1>3 DEF Explains

\* No request is decided by being made, refreshed or pruned.
LEMMA AsksExplained ==
  ASSUME NEW t \in Tables(AllTimes), Explains(t), NEW c \in Cidr, NEW s \in System,
         NEW now \in AllTimes, NEW x,
         x = Asked(t, c, s, now) \/ \E olderThan \in Int : x = AsksPruned(t, olderThan)
  PROVE  x \in Tables(AllTimes) /\ Explains(x) /\ x.entries = t.entries
<1>1. x \in Tables(AllTimes) /\ x.entries = t.entries /\ x.reviews = t.reviews
      /\ x.audit = t.audit
  BY DEF Asked, AsksPruned, Tables
<1>2. \A d \in Cidr, kinds \in SUBSET {"upsert", "delete", "approved", "rejected"} :
        LastAction(x, d, kinds) = LastAction(t, d, kinds)
  BY <1>1 DEF LastAction
<1> QED
  BY <1>1, <1>2 DEF Explains

\* Every form of the operator UI is explained.
LEMMA DecisionsExplained ==
  ASSUME NEW t \in Tables(AllTimes), Explains(t), NEW c \in Cidr,
         NEW x \in {Added(t, c), Removed(t, c), Approved(t, c), Rejected(t, c)}
  PROVE  x \in Tables(AllTimes) /\ Explains(x)
<1>1. CASE x = Added(t, c)
  <2> DEFINE w == [t EXCEPT !.entries = @ \cup {c}]
  <2>1. w \in Tables(AllTimes) /\ Matches(t, w, c, "upsert")
    BY DEF Tables, Matches
  <2> HIDE DEF w
  <2>2. x = Audited(w, c, "upsert")
    BY <1>1 DEF Added, w
  <2> QED
    BY <2>1, <2>2, WriteExplained
<1>2. CASE x = Removed(t, c) /\ c \in t.entries
  <2> DEFINE w == [t EXCEPT !.entries = @ \ {c}]
  <2>1. w \in Tables(AllTimes) /\ Matches(t, w, c, "delete")
    BY DEF Tables, Matches
  <2> HIDE DEF w
  <2>2. x = Audited(w, c, "delete")
    BY <1>2 DEF Removed, w
  <2> QED
    BY <2>1, <2>2, WriteExplained
<1>3. CASE x = Removed(t, c) /\ c \notin t.entries
  BY <1>3 DEF Removed
<1>4. CASE x = Approved(t, c)
  <2> DEFINE w == [t EXCEPT !.entries = @ \cup {c}, !.reviews[c] = "approved",
                            !.asks = {a \in @ : a.cidr # c}]
  <2>1. w \in Tables(AllTimes) /\ Matches(t, w, c, "approved")
    BY DEF Tables, Matches
  <2>2. w = [[t EXCEPT !.entries = @ \cup {c}] EXCEPT
              !.reviews[c] = "approved", !.asks = {a \in @ : a.cidr # c}]
    BY DEF Tables
  <2> HIDE DEF w
  <2>3. x = Audited(w, c, "approved")
    BY <1>4, <2>2 DEF Approved, Decided
  <2> QED
    BY <2>1, <2>3, WriteExplained
<1>5. CASE x = Rejected(t, c)
  <2> DEFINE w == [t EXCEPT !.reviews[c] = "rejected", !.asks = {a \in @ : a.cidr # c}]
  <2>1. w \in Tables(AllTimes) /\ Matches(t, w, c, "rejected")
    BY DEF Tables, Matches
  <2> HIDE DEF w
  <2>2. x = Audited(w, c, "rejected")
    BY <1>5 DEF Rejected, Decided, w
  <2> QED
    BY <2>1, <2>2, WriteExplained
<1> QED
  BY <1>1, <1>2, <1>3, <1>4, <1>5

-----------------------------------------------------------------------------
(* The invariant. *)

Types ==
  /\ clock \in 0..MaxClock
  /\ inFlight \subseteq Work /\ IsFiniteSet(inFlight)
  /\ Cardinality(inFlight) <= MaxInFlight
  /\ events \in Work /\ stored \in Work /\ events \subseteq stored
  /\ blocklist \in [Address -> NoRow..MaxClock]
  /\ tables \in Tables(AllTimes)
  /\ pass \in PassState
  /\ feed \in FeedState
  /\ calls \in 0..MaxCalls

\* Nothing is dated ahead of the clock, nor of the pass that wrote it.
Dated ==
  /\ pass.now <= clock
  /\ \A a \in Address :
       /\ blocklist[a] <= clock
       /\ pass.agreed[a] <= pass.now
       /\ pass.pc # "idle" => blocklist[a] <= pass.now

\* Some sighting in the store is as late.
Sighted(a, day) == \E e \in events : e.address = a /\ e.at >= day

\* What is listed was agreed about; its last sighting is still stored, or lies
\* outside any window to come.
ListedKnown(a) ==
  blocklist[a] # NoRow =>
    /\ AgreedAt(a, blocklist[a])
    /\ Sighted(a, blocklist[a]) \/ blocklist[a] < clock - Window

\* What a pass found is no earlier than what is listed, until it is written.
FoundKnown(a) ==
  pass.agreed[a] # NoRow =>
    /\ pass.pc \in {"allowlist", "promote"}
    /\ AgreedAt(a, pass.agreed[a]) /\ Sighted(a, pass.agreed[a])
    /\ blocklist[a] <= pass.agreed[a]

Known == \A a \in Address : ListedKnown(a) /\ FoundKnown(a)

\* An exemption that holds since before the pass is read by it, and unlisted.
Sparing ==
  /\ pass.spared \subseteq ExemptAddresses(tables)
  /\ pass.pc \in {"promote", "expire", "unlist"} => pass.spared \subseteq pass.exempt
  /\ pass.pc \in {"prune", "publish"} => \A a \in pass.spared : ~Live(a)

ConsensusInv == Types /\ Dated /\ Known /\ Sparing /\ Explains(tables)

\* What was agreed about stays so: no report is forgotten.
LEMMA AgreedForever ==
  ASSUME NEW a \in Address, NEW day \in Int, AgreedAt(a, day), stored \subseteq stored'
  PROVE  AgreedAt(a, day)'
<1> DEFINE before == {s \in System : \E e \in stored :
                        e.system = s /\ e.address = a /\ e.at >= day - Window}
           after == {s \in System : \E e \in stored' :
                       e.system = s /\ e.address = a /\ e.at >= day - Window}
<1>1. before \subseteq after /\ before \in SUBSET System /\ after \in SUBSET System
  OBVIOUS
<1>2. IsFiniteSet(before) /\ IsFiniteSet(after)
  <2> HIDE DEF before, after
  <2> QED
    BY <1>1, WorldAssumption, FS_Subset
<1>3. Cardinality(before) <= Cardinality(after)
        /\ Cardinality(before) \in Nat /\ Cardinality(after) \in Nat
  <2> HIDE DEF before, after
  <2> QED
    BY <1>1, <1>2, FS_Subset, FS_CardinalityType
<1>4. Cardinality(before) >= MinSystems
  BY DEF AgreedAt
<1>5. Cardinality(after) >= MinSystems
  <2> HIDE DEF before, after
  <2> QED
    BY <1>3, <1>4, ConfigAssumption DEF ValidConfig
<1>6. (\E e \in stored : e.address = a /\ e.at >= day)'
  BY DEF AgreedAt
<1> QED
  BY <1>5, <1>6 DEF AgreedAt

\* Enough systems that saw an address in the window are agreed at its last
\* sighting, which is no earlier than its listing.
LEMMA CandidateKnown ==
  ASSUME ConsensusInv, NEW a \in Address,
         Cardinality(Agreeing(a, clock - Window)) >= MinSystems
  PROVE  LET day == LastSeen(a, clock - Window) IN
         /\ day \in 0..clock
         /\ AgreedAt(a, day) /\ Sighted(a, day)
         /\ blocklist[a] <= day
<1> DEFINE since == clock - Window
           day == LastSeen(a, since)
           seen == {s \in System : \E e \in stored :
                      e.system = s /\ e.address = a /\ e.at >= day - Window}
<1> USE DEF ConsensusInv, Types
<1>1. clock \in Nat /\ Window \in Nat \ {0} /\ since \in Int
  BY ConfigAssumption DEF ValidConfig
<1>2. /\ Latest(a, since) \in Nat
      /\ \E e \in events : e.address = a /\ e.at >= since /\ e.at = Latest(a, since)
      /\ \A e \in events : e.address = a /\ e.at >= since => e.at <= Latest(a, since)
  BY <1>1, EnoughSystemsSaw, LatestIsLast
<1>3. /\ day \in 0..clock /\ day <= Latest(a, since)
      /\ day = clock \/ day = Latest(a, since)
      /\ since <= day
  <2>1. Latest(a, since) >= since
    BY <1>2
  <2> QED
    BY <1>1, <1>2, <2>1 DEF LastSeen
<1> HIDE DEF day
<1>4. Sighted(a, day)
  <2>1. PICK e \in events : e.address = a /\ e.at = Latest(a, since)
    BY <1>2
  <2> QED
    BY <1>3, <2>1 DEF Sighted
<1>5. AgreedAt(a, day)
  <2>1. Agreeing(a, since) \subseteq seen
    <3>1. \A e \in events : e.at \in Nat /\ e \in stored
      BY DEF Work, Event
    <3>2. ASSUME NEW s \in Agreeing(a, since) PROVE s \in seen
      <4>1. PICK e \in events : s \in System /\ e.system = s /\ e.address = a /\ e.at >= since
        BY DEF Agreeing
      <4>2. e.at >= day - Window
        BY <1>1, <1>3, <3>1, <4>1
      <4> QED
        BY <3>1, <4>1, <4>2
    <3> QED
      BY <3>2
  <2>2. IsFiniteSet(seen) /\ IsFiniteSet(Agreeing(a, since))
    <3>1. seen \in SUBSET System /\ Agreeing(a, since) \in SUBSET System
      BY DEF Agreeing
    <3> HIDE DEF seen
    <3> QED
      BY <3>1, WorldAssumption, FS_Subset
  <2>3. Cardinality(seen) >= MinSystems
    <3> HIDE DEF seen, since
    <3>1. Cardinality(Agreeing(a, since)) >= MinSystems
      BY DEF since
    <3> QED
      BY <2>1, <2>2, <3>1, FS_Subset, FS_CardinalityType, ConfigAssumption DEF ValidConfig
  <2>4. \E e \in stored : e.address = a /\ e.at >= day
    BY <1>4 DEF Sighted
  <2> QED
    BY <2>3, <2>4 DEF AgreedAt
<1>6. blocklist[a] <= day
  <2>1. blocklist[a] \in Int /\ blocklist[a] <= clock
    BY DEF Dated, NoRow
  <2>2. CASE blocklist[a] = NoRow
    BY <1>1, <1>3, <2>2 DEF NoRow
  <2>3. CASE blocklist[a] # NoRow /\ blocklist[a] < since
    BY <1>1, <1>3, <2>1, <2>3
  <2>4. CASE blocklist[a] # NoRow /\ Sighted(a, blocklist[a])
    <3>1. PICK e \in events : e.address = a /\ e.at >= blocklist[a]
      BY <2>4 DEF Sighted
    <3>2. e.at \in Nat
      BY DEF Work, Event
    <3>3. CASE e.at >= since
      <4>1. e.at <= Latest(a, since)
        BY <1>2, <3>1, <3>3
      <4> QED
        BY <1>1, <1>2, <1>3, <2>1, <3>1, <3>2, <4>1
    <3>4. CASE ~(e.at >= since)
      BY <1>1, <1>3, <2>1, <3>1, <3>2, <3>4
    <3> QED
      BY <3>3, <3>4
  <2> QED
    BY <1>1, <2>2, <2>3, <2>4 DEF Known, ListedKnown
<1> QED
  BY <1>3, <1>4, <1>5, <1>6 DEF day

-----------------------------------------------------------------------------
(* The steps. *)

LEMMA ConsensusInvInit == Init => ConsensusInv
<1> SUFFICES ASSUME Init PROVE ConsensusInv
  OBVIOUS
<1> USE DEF Init, EmptyTables, NoPass
<1>1. Types
  <2>1. IsFiniteSet({}) /\ Cardinality({}) = 0
    BY FS_EmptySet
  <2>2. pass \in PassState
    BY WorldAssumption DEF PassState, NoRow
  <2>3. tables \in Tables(AllTimes)
    BY DEF Tables
  <2> QED
    BY <2>1, <2>2, <2>3, WorldAssumption, ConfigAssumption
       DEF Types, ValidConfig, Work, FeedState, NotReady, NoRow
<1>2. Dated /\ Known /\ Sparing
  BY DEF Dated, Known, ListedKnown, FoundKnown, Sparing, NoRow
<1>3. Explains(tables)
  BY DEF Explains, LastAction
<1> QED
  BY <1>1, <1>2, <1>3 DEF ConsensusInv

\* What is known stays known as reports arrive and the clock moves on, and as
\* a pass moves on or is given up.
LEMMA KnownStays ==
  ASSUME ConsensusInv, stored \subseteq stored', events \subseteq events',
         UNCHANGED blocklist, clock' \in Nat, clock <= clock',
         \/ pass'.agreed = pass.agreed /\ pass'.pc = pass.pc
         \/ pass'.agreed = pass.agreed /\ pass.pc = "allowlist" /\ pass'.pc = "promote"
         \/ pass'.agreed = [a \in Address |-> NoRow]
  PROVE  Known'
<1> SUFFICES ASSUME NEW a \in Address PROVE (ListedKnown(a) /\ FoundKnown(a))'
  BY DEF Known
<1> USE DEF ConsensusInv, Types
<1>1. /\ blocklist[a] \in Int /\ pass.agreed[a] \in Int
      /\ clock \in Nat /\ Window \in Nat
      /\ ListedKnown(a) /\ FoundKnown(a)
  BY ConfigAssumption DEF ValidConfig, PassState, NoRow, Known
<1>2. ASSUME NEW day \in Int, AgreedAt(a, day) PROVE AgreedAt(a, day)'
  BY <1>2, AgreedForever
<1>3. ASSUME NEW day \in Int, Sighted(a, day) PROVE Sighted(a, day)'
  BY <1>3 DEF Sighted
<1>4. ListedKnown(a)'
  <2> SUFFICES ASSUME blocklist[a] # NoRow
               PROVE  /\ AgreedAt(a, blocklist[a])'
                      /\ Sighted(a, blocklist[a])' \/ blocklist[a] < clock' - Window
    BY DEF ListedKnown
  <2>1. AgreedAt(a, blocklist[a])'
    BY <1>1, AgreedForever DEF ListedKnown
  <2>2. Sighted(a, blocklist[a]) => Sighted(a, blocklist[a])'
    BY DEF Sighted
  <2> QED
    BY <1>1, <2>1, <2>2 DEF ListedKnown
<1>5. CASE pass'.agreed = pass.agreed
  <2> SUFFICES ASSUME pass.agreed[a] # NoRow
               PROVE  FoundKnown(a)'
    BY <1>4, <1>5 DEF FoundKnown
  <2>1. /\ pass.pc \in {"allowlist", "promote"} /\ AgreedAt(a, pass.agreed[a])
        /\ Sighted(a, pass.agreed[a]) /\ blocklist[a] <= pass.agreed[a]
    BY <1>1 DEF FoundKnown
  <2>2. AgreedAt(a, pass.agreed[a])'
    BY <1>1, <1>5, <2>1, AgreedForever DEF AgreedAt
  <2>3. Sighted(a, pass.agreed[a])'
    BY <1>5, <2>1 DEF Sighted
  <2>4. pass'.pc \in {"allowlist", "promote"}
    BY <1>5, <2>1
  <2> QED
    BY <1>5, <2>1, <2>2, <2>3, <2>4 DEF FoundKnown
<1>6. CASE pass'.agreed = [x \in Address |-> NoRow]
  BY <1>4, <1>6 DEF FoundKnown
<1> QED
  BY <1>5, <1>6

\* Reports come in, and are stored or dropped.
LEMMA IngestKeeps ==
  ASSUME ConsensusInv,
         \/ \E s \in System, addresses \in Batches, raw \in 0..(MaxClock + Skew + 1) :
              Report(s, addresses, raw)
         \/ \E batch \in inFlight : Insert(batch) \/ InsertFails(batch)
  PROVE  ConsensusInv'
<1> USE DEF ConsensusInv
<1>1. UNCHANGED <<clock, blocklist, tables, pass, feed>>
  BY DEF Report, Insert, InsertFails
<1>2. inFlight' \subseteq Work /\ IsFiniteSet(inFlight')
      /\ Cardinality(inFlight') <= MaxInFlight /\ calls' \in 0..MaxCalls
  <2>1. ASSUME NEW s \in System, NEW addresses \in Batches,
               NEW raw \in 0..(MaxClock + Skew + 1), Report(s, addresses, raw)
        PROVE  /\ inFlight' \subseteq Work /\ IsFiniteSet(inFlight')
               /\ Cardinality(inFlight') <= MaxInFlight /\ calls' \in 0..MaxCalls
    <3>1. clock \in Nat /\ clock <= MaxClock /\ Skew \in Nat /\ MaxClock \in Nat
      BY WorldAssumption DEF Types
    <3>2. ObservedAt(raw) \in 0..(MaxClock + Skew)
      BY <3>1 DEF ObservedAt
    <3>3. Sanitized(s, addresses, raw) \in Work
      BY <3>2, WorldAssumption DEF Sanitized, Work, Event
    <3>4. /\ IsFiniteSet(inFlight \cup {Sanitized(s, addresses, raw)})
          /\ Cardinality(inFlight \cup {Sanitized(s, addresses, raw)})
               <= Cardinality(inFlight) + 1
      BY FS_AddElement, FS_CardinalityType DEF Types
    <3>5. Cardinality(inFlight) \in Nat /\ MaxInFlight \in Nat
      BY FS_CardinalityType, ConfigAssumption DEF Types, ValidConfig
    <3>6. Cardinality(inFlight') <= MaxInFlight
      <4>1. inFlight' = inFlight \cup {Sanitized(s, addresses, raw)}
        BY <2>1 DEF Report
      <4>2. Cardinality(inFlight') \in Nat
        BY <3>4, <4>1, FS_CardinalityType
      <4> QED
        BY <2>1, <3>4, <3>5, <4>1, <4>2 DEF Report
    <3>7. calls' \in 0..MaxCalls
      BY <2>1, WorldAssumption DEF Types, Report, Call
    <3> QED
      BY <2>1, <3>3, <3>4, <3>6, <3>7 DEF Types, Report
  <2>2. ASSUME NEW batch \in inFlight, Insert(batch) \/ InsertFails(batch)
        PROVE  /\ inFlight' \subseteq Work /\ IsFiniteSet(inFlight')
               /\ Cardinality(inFlight') <= MaxInFlight /\ calls' \in 0..MaxCalls
    <3>1. inFlight' = inFlight \ {batch} /\ calls' = calls
      BY <2>2 DEF Insert, InsertFails
    <3>2. IsFiniteSet(inFlight') /\ Cardinality(inFlight') <= Cardinality(inFlight)
      BY <3>1, FS_Subset DEF Types
    <3>3. /\ Cardinality(inFlight) \in Nat /\ Cardinality(inFlight') \in Nat
          /\ MaxInFlight \in Nat
      BY <3>2, FS_CardinalityType, ConfigAssumption DEF Types, ValidConfig
    <3> QED
      BY <3>1, <3>2, <3>3 DEF Types
  <2> QED
    BY <2>1, <2>2
<1>3. /\ events' \in Work /\ stored' \in Work /\ events' \subseteq stored'
      /\ events \subseteq events' /\ stored \subseteq stored'
  BY DEF Report, Insert, InsertFails, Types, Work
<1>4. Known'
  BY <1>1, <1>3, KnownStays, WorldAssumption DEF Types
<1> QED
  BY <1>1, <1>2, <1>3, <1>4 DEF Types, Dated, Sparing, Live, Explains

\* The clock moves on, or threatd is restarted, or a pass is given up.
LEMMA WorldKeeps ==
  ASSUME ConsensusInv, Tick \/ Restart \/ PassFails
  PROVE  ConsensusInv'
<1> USE DEF ConsensusInv
<1>1. /\ UNCHANGED <<events, stored, blocklist, tables, calls>>
      /\ pass' = pass \/ pass' = NoPass
      /\ clock' \in 0..MaxClock /\ clock <= clock'
  BY WorldAssumption DEF Tick, Restart, PassFails, ingest, Types
<1>2. /\ inFlight' \subseteq Work /\ IsFiniteSet(inFlight')
      /\ Cardinality(inFlight') <= MaxInFlight /\ feed' \in FeedState
  <2>1. CASE Restart
    <3>1. inFlight' = {} /\ MaxInFlight \in Nat
      BY <2>1, ConfigAssumption DEF Restart, ValidConfig
    <3>2. IsFiniteSet(inFlight') /\ Cardinality(inFlight') = 0
      BY <3>1, FS_EmptySet
    <3> QED
      BY <2>1, <3>1, <3>2 DEF Restart, FeedState, NotReady
  <2>2. CASE Tick \/ PassFails
    BY <2>2 DEF Tick, PassFails, ingest, Types
  <2> QED
    BY <2>1, <2>2
<1>3. NoPass \in PassState
  BY WorldAssumption DEF NoPass, PassState, NoRow
<1>4. Known'
  BY <1>1, KnownStays, WorldAssumption DEF NoPass
<1>5. Dated' /\ Sparing'
  <2>1. CASE pass' = pass
    <3>1. /\ clock \in Nat /\ clock' \in Nat /\ pass.now \in Nat
          /\ \A a \in Address : blocklist[a] \in Int
      BY <1>1, WorldAssumption DEF Types, PassState, NoRow
    <3> QED
      BY <1>1, <2>1, <3>1 DEF Dated, Sparing, Live
  <2>2. CASE pass' = NoPass
    <3>1. /\ clock \in Nat /\ clock' \in Nat
          /\ \A a \in Address : blocklist[a] \in Int
      BY <1>1, WorldAssumption DEF Types, NoRow
    <3> QED
      BY <1>1, <2>2, <3>1 DEF Dated, Sparing, NoPass, NoRow
  <2> QED
    BY <1>1, <2>1, <2>2
<1> QED
  BY <1>1, <1>2, <1>3, <1>4, <1>5 DEF Types, Explains

\* Systems ask and operators decide.
LEMMA OperatorKeeps ==
  ASSUME ConsensusInv, NEW c \in Cidr, Decide(c) \/ \E s \in System : Ask(s, c)
  PROVE  ConsensusInv'
<1> USE DEF ConsensusInv
<1>1. /\ UNCHANGED <<clock, ingest, blocklist, feed>>
      /\ clock \in AllTimes
      /\ calls' \in 0..MaxCalls
  BY WorldAssumption DEF Decide, Ask, Call, Types, AllTimes
<1>2. tables' \in Tables(AllTimes) /\ Explains(tables')
  <2>1. CASE Decide(c)
    BY <2>1, DecisionsExplained DEF Decide, Types
  <2>2. ASSUME NEW s \in System, Ask(s, c)
        PROVE  tables' \in Tables(AllTimes) /\ Explains(tables')
    BY <1>1, <2>2, AsksExplained DEF Ask, Types
  <2> QED
    BY <2>1, <2>2
<1>3. /\ pass' = [pass EXCEPT !.spared = pass'.spared]
      /\ pass'.spared \subseteq pass.spared
      /\ pass'.spared \subseteq ExemptAddresses(tables')
  <2>1. CASE Decide(c)
    BY <2>1 DEF Decide, Types, PassState
  <2>2. ASSUME NEW s \in System, Ask(s, c)
        PROVE  /\ pass' = [pass EXCEPT !.spared = pass'.spared]
               /\ pass'.spared \subseteq pass.spared
               /\ pass'.spared \subseteq ExemptAddresses(tables')
    <3>1. tables'.entries = tables.entries /\ pass' = pass
      BY <1>1, <2>2, AsksExplained DEF Ask, Types
    <3> QED
      BY <3>1 DEF Types, PassState, Sparing, ExemptAddresses
  <2> QED
    BY <2>1, <2>2
<1>4. /\ pass' \in PassState /\ pass'.pc = pass.pc /\ pass'.now = pass.now
      /\ pass'.agreed = pass.agreed /\ pass'.exempt = pass.exempt
  BY <1>3 DEF Types, PassState
<1>5. Known'
  BY <1>1, <1>4, KnownStays, WorldAssumption DEF ingest, Types
<1>6. Sparing'
  BY <1>1, <1>3, <1>4 DEF Sparing, Live
<1>7. Dated'
  BY <1>1, <1>4 DEF Dated
<1> QED
  BY <1>1, <1>2, <1>4, <1>5, <1>6, <1>7 DEF Types, ingest, Explains

\* A pass begins: what it finds is agreed about and late enough.
LEMMA CandidatesKeeps ==
  ASSUME ConsensusInv, Candidates
  PROVE  ConsensusInv'
<1> USE DEF ConsensusInv
<1> DEFINE since == clock - Window
           found == [a \in Address |->
             IF Cardinality(Agreeing(a, since)) >= MinSystems THEN LastSeen(a, since) ELSE NoRow]
<1>1. /\ UNCHANGED <<clock, ingest, blocklist, tables, feed, calls>>
      /\ pass' = [NoPass EXCEPT !.pc = "allowlist", !.now = clock, !.agreed = found,
                                !.spared = ExemptAddresses(tables)]
  BY DEF Candidates
<1>2. clock \in 0..MaxClock /\ MaxClock \in Nat
  BY WorldAssumption DEF Types
<1>3. ASSUME NEW a \in Address, found[a] # NoRow
      PROVE  /\ found[a] \in 0..clock /\ AgreedAt(a, found[a]) /\ Sighted(a, found[a])
             /\ blocklist[a] <= found[a]
  <2>1. Cardinality(Agreeing(a, since)) >= MinSystems /\ found[a] = LastSeen(a, since)
    BY <1>3
  <2> QED
    BY <2>1, CandidateKnown
<1> HIDE DEF found
<1>4. ExemptAddresses(tables) \in SUBSET Address
  BY WorldAssumption DEF ExemptAddresses, Types, Tables
<1>5. found \in [Address -> NoRow..MaxClock]
  <2>1. \A a \in Address : found[a] \in NoRow..MaxClock
    BY <1>2, <1>3 DEF NoRow
  <2> QED
    BY <2>1 DEF found
<1>6. /\ pass' \in PassState /\ pass'.agreed = found /\ pass'.now = clock
      /\ pass'.pc = "allowlist" /\ pass'.spared = ExemptAddresses(tables)
  BY <1>1, <1>2, <1>4, <1>5 DEF NoPass, PassState
<1>7. Dated'
  <2>1. ASSUME NEW a \in Address PROVE found[a] <= clock
    BY <1>2, <1>3 DEF NoRow
  <2> QED
    BY <1>1, <1>2, <1>6, <2>1 DEF Dated
<1>8. Known'
  <2> SUFFICES ASSUME NEW a \in Address PROVE (ListedKnown(a) /\ FoundKnown(a))'
    BY DEF Known
  <2>1. ListedKnown(a)'
    BY <1>1 DEF Known, ListedKnown, AgreedAt, Sighted, ingest
  <2>2. CASE found[a] = NoRow
    BY <1>6, <2>1, <2>2 DEF FoundKnown
  <2>3. CASE found[a] # NoRow
    <3>1. PICK day \in 0..clock : day = found[a]
      BY <1>3, <2>3
    <3>2. AgreedAt(a, day) /\ Sighted(a, day) /\ blocklist[a] <= day
      BY <1>3, <2>3, <3>1
    <3>3. AgreedAt(a, day)' /\ Sighted(a, day)'
      BY <1>1, <3>2 DEF AgreedAt, Sighted, ingest
    <3>4. pass'.agreed[a] = day
      BY <1>6, <3>1
    <3> QED
      BY <1>1, <1>6, <2>1, <3>2, <3>3, <3>4 DEF FoundKnown
  <2> QED
    BY <2>2, <2>3
<1>9. Sparing'
  BY <1>1, <1>6 DEF Sparing, ExemptAddresses
<1> QED
  BY <1>1, <1>6, <1>7, <1>8, <1>9 DEF Types, ingest, Explains

\* The allowlist is read: it covers what has been exempt since the pass began.
LEMMA ReadAllowlistKeeps ==
  ASSUME ConsensusInv, ReadAllowlist
  PROVE  ConsensusInv'
<1> USE DEF ConsensusInv
<1>1. /\ UNCHANGED <<clock, ingest, blocklist, tables, feed, calls>>
      /\ pass.pc = "allowlist"
      /\ pass' = [pass EXCEPT !.pc = "promote", !.exempt = ExemptAddresses(tables)]
  BY DEF ReadAllowlist
<1>2. ExemptAddresses(tables) \in SUBSET Address
  BY WorldAssumption DEF ExemptAddresses, Types, Tables
<1>3. /\ pass' \in PassState /\ pass'.pc = "promote" /\ pass'.now = pass.now
      /\ pass'.agreed = pass.agreed /\ pass'.spared = pass.spared
      /\ pass'.exempt = ExemptAddresses(tables)
  BY <1>1, <1>2 DEF Types, PassState
<1>4. Known'
  BY <1>1, <1>3, KnownStays, WorldAssumption DEF ingest, Types
<1>5. Dated'
  BY <1>1, <1>3 DEF Dated
<1>6. Sparing'
  BY <1>1, <1>3 DEF Sparing, ExemptAddresses
<1> QED
  BY <1>1, <1>3, <1>4, <1>5, <1>6 DEF Types, ingest, Explains

\* What was found and is not exempt is listed as of its last sighting.
LEMMA PromoteKeeps ==
  ASSUME ConsensusInv, Promote
  PROVE  /\ ConsensusInv'
         /\ \A a \in Address : blocklist'[a] >= blocklist[a]
<1> USE DEF ConsensusInv
<1>1. /\ UNCHANGED <<clock, ingest, tables, feed, calls>>
      /\ pass.pc = "promote"
      /\ pass' = [pass EXCEPT !.pc = "expire", !.agreed = NoPass.agreed]
      /\ blocklist' = [a \in Address |-> IF Promoted(a) THEN pass.agreed[a] ELSE blocklist[a]]
  BY DEF Promote
<1>2. /\ pass' \in PassState /\ pass'.pc = "expire" /\ pass'.now = pass.now
      /\ \A a \in Address : pass'.agreed[a] = NoRow
      /\ pass'.spared = pass.spared /\ pass'.exempt = pass.exempt
  <2>1. /\ NoPass.agreed \in [Address -> NoRow..MaxClock]
        /\ \A a \in Address : NoPass.agreed[a] = NoRow
    BY WorldAssumption DEF NoPass, NoRow
  <2> QED
    BY <1>1, <2>1 DEF Types, PassState
<1>3. blocklist' \in [Address -> NoRow..MaxClock]
  BY <1>1 DEF Types, PassState
<1>4. \A a \in Address : blocklist[a] \in Int /\ pass.agreed[a] \in Int
      /\ pass.now \in Nat /\ clock \in Nat
  BY WorldAssumption DEF Types, PassState, NoRow
<1>5. Dated'
  BY <1>1, <1>2, <1>4 DEF Dated, NoRow
<1>6. Known'
  <2> SUFFICES ASSUME NEW a \in Address PROVE ListedKnown(a)'
    BY <1>2 DEF Known, FoundKnown
  <2>1. CASE Promoted(a)
    <3>1. AgreedAt(a, pass.agreed[a]) /\ Sighted(a, pass.agreed[a])
      BY <2>1 DEF Known, FoundKnown, Promoted
    <3>2. blocklist'[a] = pass.agreed[a]
      BY <1>1, <2>1
    <3> QED
      BY <1>1, <3>1, <3>2 DEF ListedKnown, AgreedAt, Sighted, ingest
  <2>2. CASE ~Promoted(a)
    <3>1. blocklist'[a] = blocklist[a]
      BY <1>1, <2>2
    <3> QED
      BY <1>1, <3>1 DEF Known, ListedKnown, AgreedAt, Sighted, ingest
  <2> QED
    BY <2>1, <2>2
<1>7. Sparing'
  BY <1>1, <1>2 DEF Sparing, ExemptAddresses
<1>8. \A a \in Address : blocklist'[a] >= blocklist[a]
  BY <1>1, <1>4 DEF Known, FoundKnown, Promoted
<1> QED
  BY <1>1, <1>2, <1>3, <1>5, <1>6, <1>7, <1>8 DEF Types, ingest, Explains

\* Rows go, and the ones that stay are as they were.
LEMMA RowsGo ==
  ASSUME ConsensusInv, UNCHANGED <<clock, ingest>>,
         blocklist' \in [Address -> NoRow..MaxClock],
         \A a \in Address : blocklist'[a] = blocklist[a] \/ blocklist'[a] = NoRow,
         pass' \in PassState, pass'.now = pass.now, pass'.agreed = pass.agreed,
         pass.pc \notin {"idle", "allowlist", "promote"}
  PROVE  Dated' /\ Known'
<1> USE DEF ConsensusInv
<1>1. \A a \in Address : pass.agreed[a] = NoRow
  BY DEF Known, FoundKnown
<1>2. clock \in Nat /\ pass.now \in Nat
  BY WorldAssumption DEF Types, PassState
<1>3. Dated'
  BY <1>1, <1>2 DEF Dated, NoRow
<1>4. Known'
  <2> SUFFICES ASSUME NEW a \in Address PROVE ListedKnown(a)'
    BY <1>1 DEF Known, FoundKnown
  <2>1. CASE blocklist'[a] = NoRow
    BY <2>1 DEF ListedKnown
  <2>2. CASE blocklist'[a] = blocklist[a]
    BY <2>2 DEF Known, ListedKnown, AgreedAt, Sighted, ingest
  <2> QED
    BY <2>1, <2>2
<1> QED
  BY <1>3, <1>4

\* Expired rows go.
LEMMA ExpireKeeps ==
  ASSUME ConsensusInv, Expire
  PROVE  ConsensusInv'
<1> USE DEF ConsensusInv
<1>1. /\ UNCHANGED <<clock, ingest, tables, feed, calls>>
      /\ pass.pc = "expire" /\ pass' = [pass EXCEPT !.pc = "unlist"]
      /\ blocklist' = [a \in Address |-> IF Live(a) THEN blocklist[a] ELSE NoRow]
  BY DEF Expire
<1>2. /\ pass' \in PassState /\ pass'.pc = "unlist" /\ pass'.now = pass.now
      /\ pass'.agreed = pass.agreed
      /\ pass'.spared = pass.spared /\ pass'.exempt = pass.exempt
  BY <1>1 DEF Types, PassState
<1>3. blocklist' \in [Address -> NoRow..MaxClock]
  BY <1>1, WorldAssumption DEF Types, NoRow
<1>4. Dated' /\ Known'
  BY <1>1, <1>2, <1>3, RowsGo
<1>5. Sparing'
  BY <1>1, <1>2 DEF Sparing, ExemptAddresses
<1> QED
  BY <1>1, <1>2, <1>3, <1>4, <1>5 DEF Types, ingest, Explains

\* What is exempt goes: none of the spared is left.
LEMMA UnlistKeeps ==
  ASSUME ConsensusInv, Unlist
  PROVE  ConsensusInv'
<1> USE DEF ConsensusInv
<1>1. /\ UNCHANGED <<clock, ingest, tables, feed, calls>>
      /\ pass.pc = "unlist" /\ pass' = [pass EXCEPT !.pc = "prune", !.exempt = {}]
      /\ blocklist' = Delisted({a \in pass.exempt : Live(a)})
  BY DEF Unlist
<1>2. /\ pass' \in PassState /\ pass'.pc = "prune" /\ pass'.now = pass.now
      /\ pass'.agreed = pass.agreed /\ pass'.spared = pass.spared
  BY <1>1 DEF Types, PassState
<1>3. /\ blocklist' \in [Address -> NoRow..MaxClock]
      /\ \A a \in Address : blocklist'[a] = blocklist[a] \/ blocklist'[a] = NoRow
  BY <1>1, WorldAssumption DEF Types, NoRow, Delisted
<1>4. Dated' /\ Known'
  BY <1>1, <1>2, <1>3, RowsGo
<1>5. ASSUME NEW a \in pass.spared PROVE ~Live(a)'
  <2>1. a \in pass.exempt /\ a \in Address
    BY <1>1 DEF Sparing, Types, PassState
  <2>2. CASE Live(a)
    BY <1>1, <2>1, <2>2 DEF Delisted, Live
  <2>3. CASE ~Live(a)
    BY <1>1, <1>2, <2>1, <2>3 DEF Delisted, Live
  <2> QED
    BY <2>2, <2>3
<1>6. Sparing'
  BY <1>1, <1>2, <1>5 DEF Sparing, ExemptAddresses
<1> QED
  BY <1>1, <1>2, <1>3, <1>4, <1>6 DEF Types, ingest, Explains

\* Old events and requests go: no event that a window to come could count.
LEMMA PruneKeeps ==
  ASSUME ConsensusInv, Prune \/ PruneFails
  PROVE  ConsensusInv'
<1> USE DEF ConsensusInv
<1> DEFINE olderThan == pass.now - AskRetention
<1>1. /\ UNCHANGED <<clock, inFlight, stored, blocklist, feed, calls>>
      /\ pass.pc = "prune" /\ pass' = [pass EXCEPT !.pc = "publish"]
      /\ events' \in {events, EventsPruned}
      /\ tables' \in {tables, AsksPruned(tables, olderThan)}
  BY DEF Prune, PruneFails
<1>2. /\ pass' \in PassState /\ pass'.pc = "publish" /\ pass'.now = pass.now
      /\ pass'.agreed = pass.agreed /\ pass'.spared = pass.spared
  BY <1>1 DEF Types, PassState
<1>3. /\ clock \in 0..MaxClock /\ pass.now \in 0..MaxClock /\ olderThan \in Int
      /\ Window \in Nat /\ Retention \in Nat /\ Window <= Retention
  BY ConfigAssumption, WorldAssumption DEF Types, PassState, ValidConfig
<1>4. tables' \in Tables(AllTimes) /\ Explains(tables') /\ tables'.entries = tables.entries
  <2>1. CASE tables' = tables
    BY <2>1 DEF Types
  <2>2. CASE tables' = AsksPruned(tables, olderThan)
    <3>1. tables' \in Tables(AllTimes) /\ tables'.entries = tables.entries
          /\ tables'.reviews = tables.reviews /\ tables'.audit = tables.audit
      BY <2>2 DEF AsksPruned, Tables, Types
    <3>2. \A d \in Cidr, kinds \in SUBSET {"upsert", "delete", "approved", "rejected"} :
            LastAction(tables', d, kinds) = LastAction(tables, d, kinds)
      BY <3>1 DEF LastAction
    <3> QED
      BY <3>1, <3>2 DEF Explains
  <2> QED
    BY <1>1, <2>1, <2>2
<1>5. events' \in Work /\ events' \subseteq stored
  BY <1>1 DEF Types, EventsPruned, Work
<1>6. \A a \in Address : pass.agreed[a] = NoRow
  BY <1>1 DEF Known, FoundKnown
<1>7. Known'
  <2> SUFFICES ASSUME NEW a \in Address, blocklist[a] # NoRow PROVE ListedKnown(a)'
    BY <1>1, <1>2, <1>6 DEF Known, FoundKnown, ListedKnown
  <2>1. /\ AgreedAt(a, blocklist[a]) /\ blocklist[a] \in Int
        /\ Sighted(a, blocklist[a]) \/ blocklist[a] < clock - Window
    BY DEF Known, ListedKnown, Types, NoRow
  <2>2. AgreedAt(a, blocklist[a])'
    BY <1>1, <2>1 DEF AgreedAt
  <2>3. CASE blocklist[a] < clock - Window
    BY <1>1, <2>2, <2>3 DEF ListedKnown
  <2>4. CASE Sighted(a, blocklist[a])
    <3>1. PICK e \in events : e.address = a /\ e.at >= blocklist[a]
      BY <2>4 DEF Sighted
    <3>2. CASE e \in events'
      <4>1. Sighted(a, blocklist[a])'
        BY <1>1, <3>1, <3>2 DEF Sighted
      <4> QED
        BY <2>2, <4>1 DEF ListedKnown
    <3>3. CASE e \notin events'
      <4>1. e.at < pass.now - Retention /\ e.at \in Nat
        <5>1. e.at \in Nat /\ ~(e.at >= pass.now - Retention)
          BY <1>1, <3>3 DEF EventsPruned, Types, Work, Event
        <5> QED
          BY <1>3, <5>1
      <4>2. pass.now <= clock
        BY DEF Dated
      <4>3. blocklist[a] < clock - Window
        BY <1>3, <2>1, <3>1, <4>1, <4>2
      <4> QED
        BY <1>1, <2>2, <4>3 DEF ListedKnown
    <3> QED
      BY <3>2, <3>3
  <2> QED
    BY <2>1, <2>3, <2>4
<1>8. Dated'
  BY <1>1, <1>2 DEF Dated
<1>9. Sparing'
  BY <1>1, <1>2, <1>4 DEF Sparing, ExemptAddresses, Live
<1> QED
  BY <1>1, <1>2, <1>4, <1>5, <1>7, <1>8, <1>9 DEF Types

\* The feed is replaced, and the pass is over.
LEMMA PublishKeeps ==
  ASSUME ConsensusInv, Publish
  PROVE  /\ ConsensusInv'
         /\ \A a \in feed'.entries : a \in Address /\ Live(a)
<1> USE DEF ConsensusInv
<1>1. /\ UNCHANGED <<clock, ingest, blocklist, tables, calls>>
      /\ pass' = NoPass
      /\ \E kept \in SUBSET {a \in Address : Live(a)} :
           feed' = [ready |-> TRUE, entries |-> kept]
  BY DEF Publish
<1>2. feed' \in FeedState /\ \A a \in feed'.entries : a \in Address /\ Live(a)
  BY <1>1 DEF FeedState
<1>3. /\ pass' \in PassState /\ pass'.now = 0 /\ pass'.pc = "idle"
      /\ pass'.agreed = [a \in Address |-> NoRow] /\ pass'.spared = {}
  BY <1>1, WorldAssumption DEF NoPass, PassState, NoRow
<1>4. clock \in Nat
  BY WorldAssumption DEF Types
<1>5. Known'
  BY <1>1, <1>3, <1>4, KnownStays DEF ingest
<1>6. Dated' /\ Sparing'
  BY <1>1, <1>3, <1>4 DEF Dated, Sparing, NoRow
<1> QED
  BY <1>1, <1>2, <1>3, <1>5, <1>6 DEF Types, ingest, Explains

LEMMA ConsensusInvInductive == ConsensusInv /\ [Next]_vars => ConsensusInv'
<1> SUFFICES ASSUME ConsensusInv, [Next]_vars PROVE ConsensusInv'
  OBVIOUS
<1>1. CASE PassStep
  BY <1>1, CandidatesKeeps, ReadAllowlistKeeps, PromoteKeeps, ExpireKeeps, UnlistKeeps,
     PruneKeeps, PublishKeeps DEF PassStep
<1>2. CASE UNCHANGED vars
  <2>1. Known'
    BY <1>2, KnownStays, WorldAssumption DEF ConsensusInv, Types, vars, ingest
  <2> QED
    BY <1>2, <2>1
       DEF ConsensusInv, Types, Dated, Sparing, Live, ExemptAddresses, Explains, vars, ingest
<1> QED
  BY <1>1, <1>2, IngestKeeps, PruneKeeps, WorldKeeps, OperatorKeeps DEF Next

LEMMA ConsensusInvAlways == Spec => []ConsensusInv
BY ConsensusInvInit, ConsensusInvInductive, PTL DEF Spec

-----------------------------------------------------------------------------
(* The theorems. *)

\* Type correctness; the queue never holds more than it has room for.
THEOREM ConsensusTypeCorrect == Spec => []TypeOK
<1>1. ConsensusInv => TypeOK
  BY DEF ConsensusInv, Types, TypeOK, AllTimes
<1> QED
  BY <1>1, ConsensusInvAlways, PTL

\* The trail alone explains the allowlist and the decisions.
THEOREM AuditAlwaysExplains == Spec => []AuditExplains
<1>1. ConsensusInv => AuditExplains
  BY DEF ConsensusInv, Explains, AuditExplains
<1> QED
  BY <1>1, ConsensusInvAlways, PTL

\* Every address that a pass publishes was agreed about by enough distinct
\* systems, less than a time to live ago.
THEOREM PublishedAgreedByDistinctSystems == Spec => AgreedByDistinctSystems
<1>1. ASSUME ConsensusInv, Publish, NEW a \in feed'.entries
      PROVE  \E day \in 0..pass.now : pass.now < day + TTL /\ AgreedAt(a, day)
  <2>1. a \in Address /\ Live(a)
    BY <1>1, PublishKeeps
  <2>2. /\ blocklist[a] \in 0..pass.now /\ pass.now < blocklist[a] + TTL
    BY <1>1, <2>1, ConfigAssumption
       DEF Live, Publish, ConsensusInv, Types, PassState, Dated, NoRow, ValidConfig
  <2>3. AgreedAt(a, blocklist[a])
    BY <1>1, <2>1 DEF Live, ConsensusInv, Known, ListedKnown
  <2> QED
    BY <2>2, <2>3
<1>2. ConsensusInv /\ [Next]_vars =>
        [Publish => \A a \in feed'.entries :
           \E day \in 0..pass.now : pass.now < day + TTL /\ AgreedAt(a, day)]_vars
  BY <1>1
<1> QED
  BY <1>2, ConsensusInvAlways, PTL DEF Spec, AgreedByDistinctSystems

\* What has been exempt since before a pass is not in the feed it publishes.
THEOREM ExemptAlwaysHeldBack == Spec => ExemptHeldBack
<1>1. ConsensusInv /\ [Next]_vars => [Publish => feed'.entries \cap pass.spared = {}]_vars
  <2> SUFFICES ASSUME ConsensusInv, Publish
               PROVE  feed'.entries \cap pass.spared = {}
    OBVIOUS
  <2>1. \A a \in feed'.entries : Live(a)
    BY PublishKeeps
  <2>2. \A a \in pass.spared : ~Live(a)
    BY DEF Publish, ConsensusInv, Sparing
  <2> QED
    BY <2>1, <2>2
<1> QED
  BY <1>1, ConsensusInvAlways, PTL DEF Spec, ExemptHeldBack

\* A refresh never shortens a listing.
THEOREM RefreshesNeverShorten == Spec => RefreshNeverShortens
<1>1. ASSUME ConsensusInv, [Next]_vars, NEW a \in Address,
             blocklist[a] # NoRow, blocklist'[a] # NoRow
      PROVE  blocklist'[a] >= blocklist[a]
  <2>1. blocklist[a] \in Int
    BY <1>1 DEF ConsensusInv, Types, NoRow
  <2>2. CASE Promote
    BY <1>1, <2>2, PromoteKeeps
  <2>3. CASE Expire
    BY <1>1, <2>1, <2>3 DEF Expire
  <2>4. CASE Unlist
    BY <1>1, <2>1, <2>4 DEF Unlist, Delisted
  <2>5. CASE UNCHANGED blocklist
    BY <2>1, <2>5
  <2> QED
    BY <1>1, <2>2, <2>3, <2>4, <2>5
       DEF Next, PassStep, Report, Insert, InsertFails, Candidates, ReadAllowlist, Prune,
           PruneFails, Publish, PassFails, Ask, Decide, Restart, Tick, vars
<1>2. ConsensusInv /\ [Next]_vars =>
        [\A a \in Address : blocklist[a] # NoRow /\ blocklist'[a] # NoRow =>
           blocklist'[a] >= blocklist[a]]_vars
  BY <1>1
<1> QED
  BY <1>2, ConsensusInvAlways, PTL DEF Spec, RefreshNeverShortens
=============================================================================
