----------------------------- MODULE MCProcesses -----------------------------
(* Processes with values for its constants that a cfg cannot express.      *)
EXTENDS Processes

MCTypes == {-2, -1, 0, 1, 2}
=============================================================================
