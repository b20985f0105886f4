-------------------------- MODULE MCHoldingMaster --------------------------
(* Small instances of HoldingMaster for TLC.                                *)
EXTENDS HoldingMaster
============================================================================
