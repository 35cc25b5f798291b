---------------------------- MODULE MCGatewaySched ----------------------------
(***************************************************************************)
(* Instances of GatewaySched for TLC.  A tick stands for a third of a      *)
(* second: the interval of 1001 ms is 3 ticks, a motor run of 2560 ms is   *)
(* 8, the delays of 25 and 500 ms are 1 and 2.                             *)
(***************************************************************************)
EXTENDS GatewaySched

(* MQTT down (no upload), success, and both commands unanswered. *)
AnyUploads == {<<>>, <<1, 2>>, <<1, 2, 2, 2>>}
NoUploads == {<<>>}

Danger == [Calm EXCEPT !.danger = TRUE]
Gas == [Calm EXCEPT !.gas = TRUE]
Pass == [Calm EXCEPT !.pass = TRUE]

Both == [Calm EXCEPT !.danger = TRUE, !.gas = TRUE]

(* The door never opens. *)
HearShut == {Danger, Gas, Both}

(* It may. *)
HearPass == {Pass}
===============================================================================
