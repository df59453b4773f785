------------------------ MODULE MCRemediationQueue ------------------------
(* Two jobs, one of them possibly confined to a maintenance window. *)
EXTENDS RemediationQueue, TLC

MCWindows == {[opens |-> 0, closes |-> 0], [opens |-> 2, closes |-> 2]}

MCSymmetry == Permutations(Jobs) \cup Permutations(Operators) \cup Permutations(Agents)

===========================================================================
