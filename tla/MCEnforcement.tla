--------------------------- MODULE MCEnforcement ---------------------------
(* Instances of Enforcement for TLC.                                       *)
EXTENDS Enforcement, TLC

CONSTANTS panel, admin, sweep
============================================================================
