----------------------------- MODULE MCBleFlow -----------------------------
(* Reader configurations for the runs of BleFlow: the BLE+UWB flow and the  *)
(* BLE-only flow, each with and without step-up.                            *)
EXTENDS BleFlow

Uwb == [ble |-> TRUE, ursk |-> TRUE, stepUpOnFail |-> FALSE]

Rke == [ble |-> TRUE, ursk |-> FALSE, stepUpOnFail |-> FALSE]

UwbOnly == {Uwb}

RkeOnly == {Rke}

WithoutStepUp == {Uwb, Rke}

RkeStepUp == {[Rke EXCEPT !.stepUpOnFail = TRUE]}

BothStepUp == {[Uwb EXCEPT !.stepUpOnFail = TRUE]} \union RkeStepUp
=============================================================================
