--------------------------- MODULE MCScanLaunch ---------------------------
(* Two scans, of the same target or of two. *)
EXTENDS ScanLaunch

MCOneTarget == [s \in Scans |-> "target"]
MCTwoTargets == [s \in Scans |-> s]

===========================================================================
