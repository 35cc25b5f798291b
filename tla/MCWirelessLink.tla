---------------------------- MODULE MCWirelessLink ----------------------------
(***************************************************************************)
(* Instances of WirelessLink for TLC.                                      *)
(***************************************************************************)
EXTENDS WirelessLink
===============================================================================
