---------------------------- MODULE SizingScore ----------------------------
(***************************************************************************)
(* internal/sizing: what one node-day's measurements are worth, what a     *)
(* window of them says of the node, and which baselines a node belongs to. *)
(* Pure: no store and no clock.                                            *)
(*                                                                         *)
(* A node-day's measurements are a record with                             *)
(*   covered   metrics present, sample_coverage at MinSampleCoverage or    *)
(*             above, at least one core and some memory                    *)
(*   demand    ram_used_bytes_p95 was measured                             *)
(*   terms     for each axis that was measured, the penalties of its terms *)
(*   hardware  the installed cores and memory                              *)
(*   families  the module families that ran                                *)
(***************************************************************************)
EXTENDS Integers, FiniteSets, FiniteSetsExt, Functions

CONSTANTS
  UndersizedDays,     \* bad days that make a node undersized
  HysteresisBadDays,  \* bad days at which it stops being so
  AtRiskDays,         \* risky days that put a node at risk
  MinDaysPresent,     \* scored days below which there is no verdict
  Platform            \* families every cluster runs

ASSUME VerdictAssumption ==
  /\ UndersizedDays \in Nat /\ HysteresisBadDays \in Nat
  /\ AtRiskDays \in Nat /\ MinDaysPresent \in Int

Unscored == -1
MaxPressure == 100
UndersizedPressure == 50
AtRiskPressure == 25

SmallerOf(a, b) == IF a < b THEN a ELSE b

\* A term is nothing up to a ramp's knee and at most MaxPressure beyond it, and
\* an axis that was measured has a term.
Measured(c) ==
  /\ IsFiniteSet(DOMAIN c.terms)
  /\ \A axis \in DOMAIN c.terms :
       c.terms[axis] \in SUBSET (0 .. MaxPressure) /\ c.terms[axis] # {}

\* The terms of an axis look at one saturation: the worst counts, not the sum.
Penalty(c) == [axis \in DOMAIN c.terms |-> Max(c.terms[axis])]

\* Mutation of Evaluate: the compounded axes are not clamped.
EvaluateUnclamped(c) ==
  IF ~c.covered \/ DOMAIN c.terms = {} THEN Unscored
  ELSE LET worst == Max(Range(Penalty(c)))
       IN worst + (FoldFunction(+, 0, Penalty(c)) - worst) \div 2

\* The worst axis at full weight, the others at half.  An axis that was not
\* measured is not zero, and a day without any is not scored.
Evaluate(c) ==
  IF ~c.covered \/ DOMAIN c.terms = {} THEN Unscored
  ELSE LET worst == Max(Range(Penalty(c)))
           sum == FoldFunction(+, 0, Penalty(c))
       IN SmallerOf(MaxPressure, worst + (sum - worst) \div 2)

\* k days of n, with hysteresis.  pressure is that of each day of the window.
EvaluateVerdict(pressure, previous) ==
  LET atLeast(p) == Cardinality({d \in DOMAIN pressure : pressure[d] >= p})
      present == atLeast(0)
      bad == atLeast(UndersizedPressure)
      risky == atLeast(AtRiskPressure)
  IN IF present < MinDaysPresent THEN "insufficient_data"
     ELSE IF \/ bad >= UndersizedDays
             \/ previous = "undersized" /\ bad > HysteresisBadDays THEN "undersized"
     ELSE IF risky >= AtRiskDays THEN "at_risk"
     ELSE "ok"

\* The families somebody chose to run.
BusinessFamilies(families) == families \ Platform

\* The only business family of its node.
IsSolo(family, families) == BusinessFamilies(families) = {family}

\* The reduction of a node over its days takes those that measure demand.
Usable(c, pressure) == c.covered /\ c.demand /\ pressure # Unscored
=============================================================================
