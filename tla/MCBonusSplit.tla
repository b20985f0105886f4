---------------------------- MODULE MCBonusSplit ----------------------------
(* Small instances of BonusSplit for TLC.                                   *)
EXTENDS BonusSplit
=============================================================================
