------------------------------ MODULE OnlineMC ------------------------------
(***************************************************************************)
(* Instances of Online for TLC: boards with and without Ethernet, and one  *)
(* with WiFi only for the MQTT client by itself.                           *)
(***************************************************************************)
EXTENDS Online

BoardsMC == {[phy |-> p, ssid |-> TRUE, apOn |-> TRUE] : p \in {"none", "working"}}
WiFiOnly == {[phy |-> "none", ssid |-> TRUE, apOn |-> FALSE]}
=============================================================================
