---------------------------- MODULE BusQueuesMC ----------------------------
(***************************************************************************)
(* Instances of BusQueues for TLC: the main loop and the web server task   *)
(* queue requests.  They behave alike, so they are symmetric.              *)
(***************************************************************************)
EXTENDS BusQueues, TLC

CONSTANTS loop, web

AddersMC  == {loop, web}
TaskSymmetry == Permutations(AddersMC)
=============================================================================
