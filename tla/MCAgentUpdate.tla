--------------------------- MODULE MCAgentUpdate ---------------------------
(* Version 1 is installed, 2 and 4 work, 3 crash-loops; or 3 is the only release there is. *)
EXTENDS AgentUpdate

MCVersions == 1..4
MCOneRelease == {1, 3}
MCBad == {3}

===========================================================================
