------------------------- MODULE MCHapProvisioning -------------------------
(* Two issuers and two devices, any of them followed; HomeKit requests at   *)
(* every request of every transaction.                                      *)
EXTENDS HapProvisioning, TLC

CONSTANTS d1, d2

SecondOfFirst == <<2, d1>>

=============================================================================
