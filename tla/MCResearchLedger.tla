--------------------------- MODULE MCResearchLedger ---------------------------
(* Instances of ResearchLedger for TLC: even odds of 2.50, wallets of one     *)
(* euro, so that shares of a few per cent are a few cents and losses show.    *)
EXTENDS ResearchLedger

CONSTANTS home, away, lost, won, missing

MCOdds == [s \in Selection |-> 250]

(* The home side wins with `won`, the away side loses half, and under        *)
(* `missing` the statistics that the away selection needs are not known.     *)
MCVerdict ==
  [x \in Selection \X Outcome |->
     CASE x[2] = lost -> IF x[1] = home THEN "LOST" ELSE "HALF_WON"
       [] x[2] = won -> IF x[1] = home THEN "WON" ELSE "HALF_LOST"
       [] OTHER -> IF x[1] = home THEN "VOID" ELSE "UNRESOLVED"]
==============================================================================
