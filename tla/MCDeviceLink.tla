---------------------------- MODULE MCDeviceLink ----------------------------
(* TLC instance of DeviceLink: buffers scaled down so that overflow and a   *)
(* blocked write happen with three gestures and two connections.            *)
EXTENDS DeviceLink

MCHostDurations == {3}

=============================================================================
