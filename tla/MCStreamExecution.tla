------------------------- MODULE MCStreamExecution -------------------------
(* Instances of StreamExecution for TLC: the constants are in the configurations. *)
EXTENDS StreamExecution
=============================================================================
