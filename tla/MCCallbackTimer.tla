---- MODULE MCCallbackTimer ----
(* CallbackTimer for TLC: the instances are in the .cfg files. *)
EXTENDS CallbackTimer, TLC

=============================================================================
