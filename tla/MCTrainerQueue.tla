--------------------------- MODULE MCTrainerQueue ---------------------------
(* Small instances of TrainerQueue: devices, PUTs and chunks of one or two  *)
(* jobs.                                                                    *)
EXTENDS TrainerQueue

CONSTANTS cuda0

OneDevice == <<cuda0>>
DeviceAndAuto == <<cuda0, AnyDevice>>
TwoAndOne == <<2, 1>>
OneAndTwo == <<1, 2>>
=============================================================================
