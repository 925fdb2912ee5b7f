---------------------------- MODULE MCCycleCaps ----------------------------
(* Small instances of CycleCaps for TLC.                                   *)
EXTENDS CycleCaps
=============================================================================
