------------------------------ MODULE Allowlist ------------------------------
(***************************************************************************)
(* The allowlist tables of internal/store/threat/allowlist.go as one       *)
(* record, and what each transaction on them does:                         *)
(*                                                                         *)
(*   entries  threat_allowlist: the CIDRs exempted.  Every writer leaves   *)
(*            expires_at NULL, so that an entry lasts until it is removed. *)
(*   asks     threat_allowlist_requests: who asks for what, and when last. *)
(*   reviews  threat_allowlist_reviews: the latest decision on a CIDR.     *)
(*   audit    threat_allowlist_audit: append only.                         *)
(***************************************************************************)
EXTENDS Integers, Sequences, FiniteSets

CONSTANTS
  Cidr,          \* canonical prefixes no wider than the guardrail floor
  System,        \* what asks, and what reports
  MaxPerSystem   \* CIDRs one system may have pending

EmptyTables ==
  [entries |-> {}, asks |-> {}, reviews |-> [c \in Cidr |-> "none"], audit |-> <<>>]

Audited(tables, c, action) ==
  [tables EXCEPT !.audit = Append(@, [cidr |-> c, action |-> action])]

\* A request that is refused: the system has its share of other CIDRs pending.
Refused(tables, c, s) ==
  Cardinality({a \in tables.asks : a.system = s /\ a.cidr # c}) >= MaxPerSystem

\* UpsertAllowlistRequest: asking again refreshes.
Asked(tables, c, s, now) ==
  IF Refused(tables, c, s) THEN tables
  ELSE [tables EXCEPT !.asks =
          {a \in @ : <<a.cidr, a.system>> # <<c, s>>}
            \cup {[cidr |-> c, system |-> s, at |-> now]}]

\* AddAllowlistEntry
Added(tables, c) ==
  Audited([tables EXCEPT !.entries = @ \cup {c}], c, "upsert")

\* Mutation of Removed: the trail is kept by another call, which failed.
RemovedUnaudited(tables, c) == [tables EXCEPT !.entries = @ \ {c}]

\* RemoveAllowlistEntry: an absent entry writes nothing.
Removed(tables, c) ==
  IF c \in tables.entries
  THEN Audited([tables EXCEPT !.entries = @ \ {c}], c, "delete")
  ELSE tables

\* decideAllowlistRequest: whatever was asked of this CIDR is settled.
Decided(tables, c, state) ==
  Audited([tables EXCEPT !.reviews[c] = state,
                         !.asks = {a \in @ : a.cidr # c}], c, state)

\* ApproveAllowlistRequest, RejectAllowlistRequest: of a CIDR that was asked
\* for or not.
Approved(tables, c) ==
  Decided([tables EXCEPT !.entries = @ \cup {c}], c, "approved")
Rejected(tables, c) == Decided(tables, c, "rejected")

\* PruneAllowlistRequests
AsksPruned(tables, olderThan) ==
  [tables EXCEPT !.asks = {a \in @ : a.at >= olderThan}]

\* The last action of a kind that the trail has on a CIDR.
LastAction(tables, c, kinds) ==
  LET mine == {i \in DOMAIN tables.audit :
                 tables.audit[i].cidr = c /\ tables.audit[i].action \in kinds}
  IN  IF mine = {} THEN "none"
      ELSE tables.audit[CHOOSE i \in mine : \A j \in mine : j <= i].action

Tables(times) ==
  [entries : SUBSET Cidr,
   asks : SUBSET [cidr : Cidr, system : System, at : times],
   reviews : [Cidr -> {"none", "approved", "rejected"}],
   audit : Seq([cidr : Cidr, action : {"upsert", "delete", "approved", "rejected"}])]
=============================================================================
