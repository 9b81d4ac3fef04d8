------------------------------ MODULE MCLogFile ------------------------------
(* Two threads logging, split_lines 2 (the default is 5000), three lines  *)
(* and one change of day: enough for a split and a day rotation.          *)
EXTENDS LogFile

CONSTANTS p1, p2

MCProducers == {p1, p2}
MCSplitLines == 2
MCMaxLines == 3
MCMaxDay == 2
=============================================================================
