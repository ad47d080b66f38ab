----------------------------- MODULE CallHistory -----------------------------
(***************************************************************************)
(* Analyzer with the calls it makes to the provider remembered, to compare *)
(* what was called with what the budget reads off the ledger.  The history *)
(* is written by every step and read by none.                              *)
(***************************************************************************)
EXTENDS Analyzer

VARIABLES
  called        \* called[s]: LLM calls started for s this UTC day

\* The workers whose call for s starts in this step.
Starting(s) ==
  {k \in Worker : At(k, "acquire") /\ Owner(k) = s /\ run'[k].pc = "llm"}

HInit ==
  /\ Init
  /\ called = [s \in System |-> 0]

Remember ==
  called' = [s \in System |->
               IF DayOf(clock') # DayOf(clock) THEN 0
               ELSE called[s] + Cardinality(Starting(s))]

HNext == Next /\ Remember

HSpec == HInit /\ [][HNext]_<<vars, called>>

-----------------------------------------------------------------------------
(* What the documentation says of the budget. *)

\* docs/architecture.md, on the per-system cap: "one system cannot cost more
\* than its cap however the gate votes", a window attempted repeatedly
\* included.  Workers that check at the same time may each make one call more.
CallsWithinCap ==
  SystemCap > 0 => \A s \in System : called[s] <= SystemCap + Racers
=============================================================================
