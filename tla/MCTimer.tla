------------------------------- MODULE MCTimer -------------------------------
(* Model-checking instance of Timer: three timer nodes, a clock of three  *)
(* milliseconds, delays of one and two, and a repeat count of one, so     *)
(* that periodic and repeated nodes re-arm within the clock bound.        *)
EXTENDS Timer

MCMaxId == 2
MCMaxTime == 3
MCDelays == {1, 2}
MCRepeatCounts == {1}
=============================================================================
