----------------------- MODULE MCRemediationSystem ------------------------
(* Jobs with and without a window, on endpoints whose clocks run behind. *)
EXTENDS RemediationSystem

MCWindows == {[opens |-> 0, closes |-> 0], [opens |-> 2, closes |-> 2]}

MCNoWindow == {[opens |-> 0, closes |-> 0]}

MCDrift == -1

===========================================================================
