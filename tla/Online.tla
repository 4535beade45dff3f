------------------------------- MODULE Online -------------------------------
(***************************************************************************)
(* The device online: class Network and the MQTT service side by side.     *)
(* The MQTT service only reads network_connected(); the loops of both run  *)
(* in the main loop, their drivers and the web server beside it.  Events   *)
(* from outside are counted for both together, by `faults'.                *)
(***************************************************************************)
EXTENDS Network

CONSTANTS None, Transports, OwnTask    \* see MqttClient

ASSUME OnlineAssumption ==
    None \notin BOOLEAN /\ Transports \subseteq {"tcp", "tls", "tls-ca"} /\ OwnTask \in BOOLEAN

VARIABLES cfg, saving, client, reconfigure, wait, reason, connectedFlag, result,
          overtaken, announced, broker

Mqtt == INSTANCE MqttClient
            WITH online <- Connected(net), events <- faults, MaxEvents <- MaxFaults

ownVars == <<cfg, saving, client, reconfigure, wait, reason, connectedFlag, result,
             overtaken, announced, broker>>
vars == <<netVars, ownVars>>

Init == NetInit /\ Mqtt!MqttInit

Next ==
    \/ NetNext /\ UNCHANGED ownVars
    \/ Mqtt!MqttNext /\ UNCHANGED <<net, saved, router, cable>>

Spec == Init /\ [][Next]_vars /\ NetFairness /\ Mqtt!MqttFairness

-----------------------------------------------------------------------------
(* The members of both classes hold values of their types; the captive portal, *)
(* the access point and the radio go with the phase and the interface.         *)
OnlineTypeOK ==
    /\ NetTypeOK /\ PortalConsistent /\ RadioForFallback
    /\ Mqtt!MqttTypeOK

(* The properties of MqttClient with the network that Network provides; with  *)
(* LateRouterJoined the second says that a device within reach of router and   *)
(* broker reports to the broker in the end, whatever fell over before.         *)

(* A connected client has subscribed and published "online" (Mqtt::on_connect). *)
Announced == Mqtt!Announced


(* The settings saved last are in use in the end, unless onConfigUpdated fell  *)
(* between the two assignments that end MqttSettingsService::loop.             *)
SettingsApplied == Mqtt!SettingsApplied
=============================================================================
