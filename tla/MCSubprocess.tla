---------------------------- MODULE MCSubprocess ----------------------------
(* Instances of Subprocess for TLC; the constants are in the configurations. *)
EXTENDS Subprocess
=============================================================================
