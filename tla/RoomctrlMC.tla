----------------------------- MODULE RoomctrlMC -----------------------------
(***************************************************************************)
(* An instance of Roomctrl for TLC: two temperatures.                      *)
(***************************************************************************)
EXTENDS Roomctrl

TempsMC == {"cold", "warm"}
=============================================================================
