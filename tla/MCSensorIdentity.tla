-------------------------- MODULE MCSensorIdentity --------------------------
(* Two pairs, of which one is in the files and the other one on its way, and two feed keys. *)
EXTENDS SensorIdentity
============================================================================
