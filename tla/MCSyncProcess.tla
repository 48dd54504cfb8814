--------------------------- MODULE MCSyncProcess ---------------------------
(* SyncProcess for TLC: the instances are in the .cfg files.               *)
EXTENDS SyncProcess, TLC

=============================================================================
