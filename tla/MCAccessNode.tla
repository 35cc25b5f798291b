----------------------------- MODULE MCAccessNode -----------------------------
(***************************************************************************)
(* Instances of AccessNode for TLC.                                        *)
(***************************************************************************)
EXTENDS AccessNode
===============================================================================
