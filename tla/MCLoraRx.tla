------------------------------- MODULE MCLoraRx -------------------------------
(***************************************************************************)
(* Two texts of different length for TLC, so that a longer one leaves its  *)
(* tail behind a shorter one.                                              *)
(***************************************************************************)
EXTENDS LoraRx

TwoTexts == {<<"1">>, <<"2", "1">>}
===============================================================================
