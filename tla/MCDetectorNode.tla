---------------------------- MODULE MCDetectorNode ----------------------------
(***************************************************************************)
(* The detector node, unscaled: ticks of 100 ms, the preparation takes the *)
(* 20 ms of DHT11_Init, so up to one tick.                                 *)
(***************************************************************************)
EXTENDS DetectorNode

DetectorSems == <<"sensor_read", "oled_update", "sensor_send">>
DetectorInterval == [sensor_read |-> 5, sensor_send |-> 6]
DetectorPrep == {0, 1}
===============================================================================
