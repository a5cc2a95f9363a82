-------------------------- MODULE MCDeviceCommand --------------------------
(* Small instances of DeviceCommand: every race of dispatch_one is about   *)
(* one row, between two dispatchers or a dispatcher and a scan or callback. *)
EXTENDS DeviceCommand

CONSTANTS c1, w1, w2

OneCommand == {c1}
OneDispatching == {w1}
TwoDispatching == {w1, w2}
=============================================================================
