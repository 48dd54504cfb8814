-------------------------- MODULE MCProcessMonitor --------------------------
(* ProcessMonitor for TLC. *)
EXTENDS ProcessMonitor, TLC
=============================================================================
