------------------------------ MODULE MCEvents ------------------------------
(* The event board by itself, for TLC.                                     *)
EXTENDS EventBoard

CONSTANTS sweep
=============================================================================
