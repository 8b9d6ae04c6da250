-------------------------- MODULE MCResourceLimits --------------------------
(* An instance of ResourceLimits for TLC.                                  *)
EXTENDS ResourceLimits
=============================================================================
