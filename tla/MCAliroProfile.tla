--------------------------- MODULE MCAliroProfile ---------------------------
(* Two issuers, two devices, every reader configuration; the store starts   *)
(* with at most one endpoint per issuer and takes two.                      *)
EXTENDS AliroChannels, TLC

AllConfigs == [ble : BOOLEAN, ursk : BOOLEAN, stepUpOnFail : BOOLEAN]

=============================================================================
