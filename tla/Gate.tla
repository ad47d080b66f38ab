-------------------------------- MODULE Gate --------------------------------
(***************************************************************************)
(* internal/gate: is a window worth an LLM call?  A pure decision over the *)
(* window's lines and what the system is known to have sent.               *)
(*                                                                         *)
(* A template stands for its canonical key (model.CanonicalKey): ten       *)
(* spellings of one line are one template.  It is security-classified if   *)
(* any of its spellings is, and urgent (priority critical or above) if any *)
(* is.  The token comparison of similar.go is the constant relation Near.  *)
(***************************************************************************)
EXTENDS Integers, FiniteSets

CONSTANTS
  Template,     \* canonical keys of log lines
  Security,     \* the templates with category "security"
  Urgent,       \* the templates with priority <= 2
  Near,         \* <<t, u>>: t is within Config.Similarity of u
  MinNew,       \* Config.MinNewTemplates
  Silence       \* Config.Silence, 0 when the rule is off

ASSUME SecurityAssumption == Security \subseteq Template
ASSUME UrgentAssumption == Urgent \subseteq Template
ASSUME NearAssumption == Near \subseteq Template \X Template
ASSUME MinNewAssumption == MinNew \in Nat
ASSUME SilenceAssumption == Silence \in Nat

\* The last_seen of what has never been seen.
Never == -1

\* known[t] is when the system last sent t, or Never.
KnownMap == [Template -> Int]

\* A known line silent since before the window counts as new on its return.
Silent(last, start) == Silence > 0 /\ last < start - Silence

Unknown(lines, known) == {t \in lines : known[t] = Never}

Returning(lines, known, start) ==
  {t \in lines : known[t] # Never /\ Silent(known[t], start)}

\* Never true of a security line or an urgent one; a silent line makes no
\* variant of itself look known.
NearKnown(t, known, start) ==
  /\ t \notin Security \cup Urgent
  /\ \E u \in Template :
       /\ known[u] # Never
       /\ ~Silent(known[u], start)
       /\ <<t, u>> \in Near

\* Decision.Novel
Novel(lines, known, start) ==
  {t \in Unknown(lines, known) : ~NearKnown(t, known, start)}
    \cup Returning(lines, known, start)

\* Decision.Call: a new security line always pays; enough new lines pay too,
\* unless the spend cap has narrowed the gate to security.
Call(novel, securityOnly) ==
  \/ novel \cap Security # {}
  \/ /\ ~securityOnly
     /\ MinNew > 0
     /\ Cardinality(novel) >= MinNew
=============================================================================
