------------------------------ MODULE MCNodeBoot ------------------------------
(***************************************************************************)
(* The gateway, unscaled.                                                  *)
(***************************************************************************)
EXTENDS NodeBoot

(* Gateway: ticks of 1 ms.  The shortest wireless_init, every command answered
   at the first attempt, sleeps 500 + 3 * 50 + 2000 + 50 + 500 + 50 ms. *)
GatewaySems == <<"sensor_read", "wireless_send", "user_move">>
GatewayInterval == [s \in {"sensor_read", "wireless_send", "user_move"} |-> 1000]
GatewayPrep == {3250}
===============================================================================
