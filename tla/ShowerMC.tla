------------------------------ MODULE ShowerMC ------------------------------
(* Instance of Shower for TLC, with the times scaled down to a few seconds.  *)
EXTENDS Shower

CommandsOn == {TRUE}
=============================================================================
