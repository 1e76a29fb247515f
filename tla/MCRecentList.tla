---------------------------- MODULE MCRecentList ----------------------------
(* Instances of RecentList for TLC: pages of two, two ticks to the         *)
(* millisecond, and rows enough for a third page.                          *)
EXTENDS RecentList, TLC
=============================================================================
