----------------------------- MODULE MqttClient -----------------------------
(***************************************************************************)
(* The MQTT connection: MqttSettingsService, which configures, drops and   *)
(* restarts the client, the connection state that class Mqtt keeps, and    *)
(* the client library as they use it.  Three tasks meet here: the main     *)
(* loop, the web server, which saves settings, and, on boards with PSRAM,  *)
(* the client's own task, which calls back.  `online' is what Network      *)
(* reports: no action of this module changes it.                           *)
(***************************************************************************)
EXTENDS Naturals

CONSTANTS
    None,
    MaxEvents,     \* settings saved, resets and broker changes (bound)
    Transports,    \* the transports the user may choose: "tcp", "tls" (insecure,
                   \* or without a root certificate), "tls-ca" (larger stack)
    OwnTask        \* whether the client has a task of its own (boards with PSRAM)

VARIABLES
    online,        \* network_connected()
    cfg,           \* the settings: enabled, enableTLS, and how often they were saved
    saving,        \* the web task is between update and the update handlers
    client,        \* _mqttClient
    reconfigure,   \* _reconfigureMqtt
    wait,          \* _disconnectedAt: "no" (0), "set", or "due" for a new attempt
    reason,        \* _disconnectReason
    connectedFlag, \* Mqtt::connected_
    result,        \* what configureMqtt returned, until loop() has stored it
    overtaken,     \* history: onConfigUpdated ran before the result was stored, and
                   \* the client was not configured since
    announced,     \* history: subscribed and "online" sent on this connection
    broker,        \* the broker is in reach
    events         \* saves, resets and broker changes so far

mqttVars == <<cfg, saving, client, reconfigure, wait, reason, connectedFlag, result,
              overtaken, announced, broker, events>>
world    == <<broker, events>>
service  == <<reconfigure, wait, result, overtaken>>
status   == <<reason, connectedFlag, announced>>

Reasons == {"ok", "tcp", "refused"}
Clients == [state   : {"disconnected", "connecting", "connected", "stopping"},
            kind    : {"tcp", "tls", "tls-ca"},
            reason  : Reasons \ {"ok"},
            version : 0 .. MaxEvents]

NewClient(kind) == [state |-> "disconnected", kind |-> kind, reason |-> "tcp", version |-> 0]

StoppedByUser(c) ==              \* mutant
    IF c.state = "connected" THEN [c EXCEPT !.state = "stopping", !.reason = "ok"] ELSE c

(* disconnect(true) takes effect in the client's loop, the reason is kept *)
Stopped(c) == IF c.state = "connected" THEN [c EXCEPT !.state = "stopping"] ELSE c

-----------------------------------------------------------------------------
(* MqttSettingsService::loop.  A client that is connected while the network   *)
(* is gone is stopped; the configuration stops a connected client and asks it *)
(* to connect, which it does only when it has come to rest.                   *)

Current == IF cfg.enabled /\ ~online THEN Stopped(client) ELSE client

ConnectAnyway == online                      \* mutant
MayConnect    == cfg.enabled /\ online

Connects == MayConnect /\ Current.state = "disconnected"

Due          == reconfigure \/ wait = "due"

LoopDrops ==
    /\ result = None /\ ~Due
    /\ client' = Current
    /\ UNCHANGED <<cfg, saving, service, status, world>>

LoopConfigures ==
    /\ result = None /\ Due
    /\ client' = IF Connects THEN [client EXCEPT !.state = "connecting", !.version = cfg.version]
                 ELSE Stopped(client)
    /\ reconfigure' = (reconfigure /\ ~MayConnect)
    /\ result' = Connects /\ overtaken' = FALSE
    /\ UNCHANGED <<cfg, saving, wait, status, world>>

WaitAfter(done) == IF done THEN "no" ELSE "set"

LoopStores ==
    /\ result # None /\ result' = None
    /\ wait' = WaitAfter(result)
    /\ reconfigure' = FALSE
    /\ UNCHANGED <<cfg, saving, client, overtaken, status, world>>

DelayOver ==                     \* MQTT_RECONNECTION_DELAY
    /\ wait = "set" /\ wait' = "due"
    /\ UNCHANGED <<cfg, saving, client, reconfigure, result, overtaken, status, world>>

-----------------------------------------------------------------------------
(* The web task saves the settings: MqttSettings::update, which stops a       *)
(* connected client for some of them, then onConfigUpdated.  startClient      *)
(* keeps the client unless isSecure or the size of its stack changes, that is, *)
(* unless the transport does: then the old one is deleted, and its disconnect *)
(* callback never comes.  The web task runs at any time, between the two      *)
(* assignments that end loop() as well.                                       *)

Event     == events < MaxEvents /\ events' = events + 1

SaveSettings ==
    /\ ~saving /\ saving' = TRUE
    /\ Event
    /\ \E e \in BOOLEAN, t \in Transports, other \in BOOLEAN :
          /\ cfg' = [enabled |-> e, transport |-> t, version |-> cfg.version + 1]
          /\ client' = IF cfg.enabled /\ (e # cfg.enabled \/ t # cfg.transport \/ other)
                       THEN Stopped(client) ELSE client
    /\ UNCHANGED <<service, status, broker>>

StartClient(c) == IF c.kind = cfg.transport THEN c ELSE NewClient(cfg.transport)

OnConfigUpdated ==
    /\ saving /\ saving' = FALSE
    /\ reconfigure' = TRUE /\ wait' = "no"
    /\ client' = StartClient(client)
    /\ overtaken' = (result # None)
    /\ UNCHANGED <<cfg, result, status, world>>

ResetMqtt ==                     \* from the application settings or "system message"
    /\ Event
    /\ cfg.enabled /\ client.state = "connected"
    /\ client' = Stopped(client)
    /\ UNCHANGED <<cfg, saving, service, status, broker>>

-----------------------------------------------------------------------------
(* MqttClient::loop of the library, in its own task on boards with PSRAM, else *)
(* called at the end of loop(), with the callbacks into Mqtt.                 *)

ClientRuns == result = None \/ OwnTask

OnConnect ==                     \* Mqtt::on_connect does nothing when connected_ is set
    /\ connectedFlag' = TRUE
    /\ announced' = ~connectedFlag
    /\ reason' = "ok"

ClientConnects ==
    /\ ClientRuns
    /\ client.state = "connecting" /\ broker /\ online
    /\ client' = [client EXCEPT !.state = "connected"]
    /\ OnConnect
    /\ UNCHANGED <<cfg, saving, service, world>>

ClientFails ==                   \* no route, refused by the broker, connection lost
    /\ ClientRuns
    /\ \/ client.state = "connecting"
       \/ client.state = "connected" /\ ~(broker /\ online)
    /\ \E r \in Reasons \ {"ok"} :
          /\ r = "refused" => client.state = "connecting" /\ broker /\ online
          /\ client' = [client EXCEPT !.state = "stopping", !.reason = r]
    /\ UNCHANGED <<cfg, saving, service, status, world>>

FlagKept(r) == connectedFlag                 \* mutant

FlagAfter(r) == connectedFlag /\ r = reason  \* on_disconnect only for another reason

ClientStops ==                   \* with the callback onMqttDisconnect
    /\ ClientRuns
    /\ client.state = "stopping"
    /\ client' = [client EXCEPT !.state = "disconnected"]
    /\ connectedFlag' = FlagAfter(client.reason)
    /\ reason' = client.reason
    /\ wait' = IF wait = "no" THEN "set" ELSE wait
    /\ announced' = FALSE
    /\ UNCHANGED <<cfg, saving, reconfigure, result, overtaken, world>>

BrokerChanges ==
    /\ Event /\ broker' = ~broker
    /\ UNCHANGED <<cfg, saving, client, service, status>>

-----------------------------------------------------------------------------
MqttInit ==
    /\ \E e \in BOOLEAN, t \in Transports :
          /\ cfg = [enabled |-> e, transport |-> t, version |-> 0]
          /\ client = NewClient(t)
    /\ saving = FALSE /\ reconfigure = TRUE /\ wait = "no" /\ result = None
    /\ overtaken = FALSE
    /\ reason = "tcp" /\ connectedFlag = FALSE /\ announced = FALSE
    /\ broker = TRUE /\ events = 0

MqttLoop   == LoopDrops \/ LoopConfigures \/ LoopStores
ClientTask == ClientConnects \/ ClientFails \/ ClientStops

MqttNext ==
    \/ MqttLoop \/ DelayOver
    \/ SaveSettings \/ OnConfigUpdated \/ ResetMqtt
    \/ ClientTask \/ BrokerChanges

(* The main loop goes on and lets the client go on, or its task does, the     *)
(* saving request ends, the delay passes; a broker that stays in reach answers *)
(* when it is asked repeatedly.                                               *)
MqttFairness ==
    /\ WF_mqttVars(MqttLoop) /\ WF_mqttVars(DelayOver) /\ WF_mqttVars(OnConfigUpdated)
    /\ SF_mqttVars(ClientTask) /\ SF_mqttVars(ClientConnects)

-----------------------------------------------------------------------------
(* Members hold values of their types.                                         *)
MqttTypeOK ==
    /\ cfg \in [enabled : BOOLEAN, transport : Transports, version : 0 .. MaxEvents]
    /\ client \in Clients /\ reason \in Reasons
    /\ wait \in {"no", "set", "due"} /\ result \in BOOLEAN \cup {None}
    /\ {saving, reconfigure, connectedFlag, overtaken, announced, broker} \subseteq BOOLEAN
    /\ events \in 0 .. MaxEvents

(* Whenever the client is connected, its topics were subscribed and "online"  *)
(* was published on this very connection: connected_ is never left over from   *)
(* an earlier one (mqtt.cpp: on_connect returns early when it is set).         *)
Announced == client.state = "connected" => announced


(* The settings saved last are the ones in use in the end: with the service    *)
(* off the client rests, with the service on it is configured with them.  One  *)
(* window is left out, where the code does forget them: onConfigUpdated runs   *)
(* before loop() has stored the result of configureMqtt, and nothing makes     *)
(* loop() configure the client again.                                          *)
SettingsApplied ==
    /\ <>[](~cfg.enabled /\ ~overtaken) => <>[](client.state # "connected")
    /\ <>[](online /\ broker /\ cfg.enabled /\ ~overtaken) =>
          <>[](client.version = cfg.version)
=============================================================================
