------------------------------ MODULE MCBridge ------------------------------
(***************************************************************************)
(* Instances of the bridge.                                                *)
(***************************************************************************)
EXTENDS Bridge, TLC

CONSTANTS c1, c2

BothModes == {"closing_drain", "closing_cancel"}

=============================================================================
