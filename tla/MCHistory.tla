----------------------------- MODULE MCHistory -----------------------------
(***************************************************************************)
(* Instances of CallHistory: one system, one worker, windows that carry    *)
(* the same plain line.                                                    *)
(***************************************************************************)
EXTENDS CallHistory

CONSTANTS plain, sys, family

OneSystem == [w \in Window |-> sys]
AllAtOnce == [w \in Window |-> 0]
OneFamily == [t \in Template |-> family]
OneRank == [t \in Template |-> 1]
Carried == [w \in Window |-> {plain}]
=============================================================================
