-------------------------- MODULE MCSimpleManager --------------------------
(* SimpleManager for TLC: the instances are in the .cfg files.             *)
EXTENDS SimpleManager, TLC

=============================================================================
