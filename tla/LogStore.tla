------------------------------ MODULE LogStore ------------------------------
(***************************************************************************)
(* internal/store/logs: what each statement the analyzer issues does to a  *)
(* row.  Every method is one transaction under the store's lock, so each   *)
(* is one operator, applied in one step of Analyzer.                       *)
(***************************************************************************)
EXTENDS Gate

-----------------------------------------------------------------------------
(* The analyses ledger: one row per window. *)

Outcome == {"none", "failed", "gated_out", "suppressed", "permanent",
            "unparsed", "analysed"}

\* present: is there a row?  completed and called are the columns; outcome
\* abstracts gated, suppressed_by and error; cost counts paid answers.
AnalysisRow ==
  [present : BOOLEAN, completed : BOOLEAN, called : BOOLEAN,
   created : Nat, cost : Nat, outcome : Outcome]

NoAnalysis ==
  [present |-> FALSE, completed |-> FALSE, called |-> FALSE,
   created |-> 0, cost |-> 0, outcome |-> "none"]

\* Mutation of Claimable: a call, not completion, closes a window.
ClaimableUncalled(row) == ~row.called

\* BeginAnalysis's WHERE clause: only a completed analysis closes a window.
Claimable(row) == ~row.completed

\* BeginAnalysis: a new row, or the old one with created_at moved.
BeginAnalysis(row, now) == [row EXCEPT !.present = TRUE, !.created = now]

\* The window stays claimable.
RecordAttemptError(row) == [row EXCEPT !.called = TRUE, !.outcome = "failed"]

\* Every column but created_at is overwritten.
FinalizeAnalysis(row, outcome, called, cost) ==
  [row EXCEPT !.completed = TRUE, !.outcome = outcome,
              !.called = called, !.cost = cost]

-----------------------------------------------------------------------------
(* Findings and their classes. *)

FindingRow ==
  [status : {"absent", "open", "stale"}, count : Nat, last : Int,
   evidence : SUBSET Template]

NoFinding ==
  [status |-> "absent", count |-> 0, last |-> Never, evidence |-> {}]

\* Mutation of Counted: every write counts.
CountedAlways(f, now) == f.count + 1

\* The CASE both writers of occurrence_count share.
Counted(f, now) == IF f.last >= now THEN f.count ELSE f.count + 1

\* Insert, bump or reopen; last_seen is set to now whatever it was.
UpsertFinding(f, evidence, now) ==
  [status |-> "open", count |-> Counted(f, now), last |-> now,
   evidence |-> evidence]

\* Mutation of RefreshFinding: a stale finding is not reopened.
RefreshKeepsStatus(f, lines, now) ==
  IF f.status # "absent" /\ f.evidence \cap lines # {}
  THEN [f EXCEPT !.count = Counted(f, now), !.last = IF @ > now THEN @ ELSE now]
  ELSE f

\* A finding with a line in the window is seen now: counted, reopened, and
\* its last_seen moved forward only.
RefreshFinding(f, lines, now) ==
  IF f.status # "absent" /\ f.evidence \cap lines # {}
  THEN [f EXCEPT !.count = Counted(f, now),
                 !.last = IF @ > now THEN @ ELSE now,
                 !.status = "open"]
  ELSE f

\* Mutation of MarkStale: the boundary is included.
MarkStaleEarly(f, olderThan) ==
  IF f.status = "open" /\ f.last <= olderThan
  THEN [f EXCEPT !.status = "stale"]
  ELSE f

\* Open findings last seen before the cutoff go stale.
MarkStale(f, olderThan) ==
  IF f.status = "open" /\ f.last < olderThan
  THEN [f EXCEPT !.status = "stale"]
  ELSE f

\* A class's last_seen, and a template's, never moves backwards.
Latest(old, new) == IF old < new THEN new ELSE old
=============================================================================
