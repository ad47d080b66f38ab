----------------------------- MODULE MCPipeline -----------------------------
(***************************************************************************)
(* An instance of LogPipeline for TLC: one system, windows that carry one  *)
(* plain line each.                                                        *)
(***************************************************************************)
EXTENDS LogPipeline

CONSTANTS plain, sys, family

OneSystem == [w \in Window |-> sys]
AllAtOnce == [w \in Window |-> 0]
OneFamily == [t \in Template |-> family]
OneRank == [t \in Template |-> 1]
Carried == [w \in Window |-> {plain}]
=============================================================================
