-------------------------- MODULE MCMonitorEvents --------------------------
(* Instances of MonitorEvents for TLC. *)
EXTENDS MonitorEvents

CONSTANTS e1, e2, e3
=============================================================================
