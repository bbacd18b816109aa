----------------------------- MODULE MCLogging -----------------------------
(* An instance of Logging for TLC: an info, a warning and a fatal entry  *)
(* on a queue of one, a direct shutdown, two sinks.                          *)
EXTENDS Logging, TLC

CONSTANTS i1, h1, f1

MCLevelOf == [e \in Entries |-> IF e = i1 THEN "low" ELSE IF e = f1 THEN "fatal" ELSE "high"]
=============================================================================
