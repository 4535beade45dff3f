---------------------------- MODULE OnlineProofs ----------------------------
(***************************************************************************)
(* Proofs about Online for any number of retries, faults and boards.  The  *)
(* handlers of Network are functions on `net', so each gets a lemma that   *)
(* it keeps NetGood, and the lemmas are composed as loop() composes the    *)
(* handlers.                                                               *)
(***************************************************************************)
EXTENDS Online, TLAPS

(* What holds of the members and drivers between any two handlers: the DNS *)
(* server of the captive portal goes with the access point, and a radio    *)
(* that is off carries none.                                               *)
NetGood(n) ==
    /\ n \in NetStates
    /\ n.dns <=> n.ap
    /\ Connected(n) => ~n.ap
    /\ n.radioOff => ~n.ap /\ n.everEth /\ n.phase # "AP"

Settings == [ssid : BOOLEAN, apOn : BOOLEAN]

-----------------------------------------------------------------------------
(* The parts of the handlers. *)

LEMMA StaDroppedGood ==
    ASSUME NEW n, NetGood(n), NEW to \in {"off", "idle"}
    PROVE  NetGood(StaDropped(n, to))
  BY DEF NetGood, NetStates, StaDropped, Connected

LEMMA StartWiFiRadioGood ==
    ASSUME NEW n, NetGood(n), ~n.ap
    PROVE  NetGood(StartWiFiRadio(n)) /\ ~StartWiFiRadio(n).radioOff
  BY DEF NetGood, NetStates, StaDropped, StartWiFiRadio, Connected

LEMMA StopAPGood ==
    ASSUME NEW n, NetGood(n)
    PROVE  NetGood(StopAP(n)) /\ ~StopAP(n).ap
  BY DEF NetGood, NetStates, StopAP, Connected

LEMMA StopWiFiRadioGood ==
    ASSUME NEW n, NetGood(n), ~n.ap, n.everEth, n.phase # "AP"
    PROVE  NetGood(StopWiFiRadio(n))
  <1> DEFINE m == StaDropped(n, "off")
  <1>1. NetGood(m)
    BY StaDroppedGood
  <1>2. m.everEth /\ m.phase # "AP" /\ ~m.dns
    BY DEF StaDropped, NetGood, NetStates
  <1> HIDE DEF m
  <1>3. NetGood([m EXCEPT !.ap = FALSE, !.radioOff = TRUE, !.pending = FALSE])
    BY <1>1, <1>2 DEF NetGood, NetStates, Connected
  <1> QED BY <1>3 DEF StopWiFiRadio, m

LEMMA NoInterfaceGood ==
    ASSUME NEW n, NetGood(n), NEW k \in 0 .. MaxRetries
    PROVE  /\ NetGood([n EXCEPT !.iface = "NONE", !.retries = k])
           /\ [n EXCEPT !.iface = "NONE", !.retries = k].ap = n.ap
  <1>1. "NONE" \in Interfaces
    BY DEF Interfaces
  <1>2. [n EXCEPT !.iface = "NONE", !.retries = k] \in NetStates
    BY <1>1 DEF NetGood, NetStates
  <1> QED BY <1>2 DEF NetGood, NetStates, Connected

LEMMA ZeroRetries == 0 \in 0 .. MaxRetries
  BY NetworkAssumption

LEMMA BeginGood ==
    ASSUME NEW n, NetGood(n), ~n.ap, NEW s \in Settings
    PROVE  NetGood(Begin(n, s))
  <1> DEFINE m == [n EXCEPT !.ssid = s.ssid, !.apOn = s.apOn, !.pending = FALSE]
             k == [m EXCEPT !.phase = InitialPhase(m), !.radioOff = FALSE]
  <1>1. m \in NetStates /\ InitialPhase(m) \in Phases
    <2>1. m \in NetStates
      BY DEF NetGood, NetStates, Settings
    <2>2. InitialPhase(m) \in Phases
      BY DEF InitialPhase, Phases, Interfaces
    <2> QED BY <2>1, <2>2
  <1>2. NetGood(k) /\ ~k.ap
    BY <1>1 DEF NetGood, NetStates, Connected
  <1>3. NetGood(StartWiFiRadio(k))
    BY <1>2, StartWiFiRadioGood
  <1>4. StartWiFiRadio(k) = StartWiFiRadio([m EXCEPT !.phase = InitialPhase(m)])
    BY <1>1 DEF StartWiFiRadio, StaDropped, NetStates
  <1> QED BY <1>3, <1>4 DEF Begin

LEMMA ReconnectGood ==
    ASSUME NEW n, NetGood(n), NEW s \in Settings
    PROVE  NetGood(Reconnect(n, s))
  <1> DEFINE left == IF n.iface = "WIFI" THEN StaDropped(n, "idle") ELSE n
             shut == IF left.ap THEN StopAP(left) ELSE left
             down == [shut EXCEPT !.iface = "NONE", !.retries = 0]
  <1>1. NetGood(left)
    BY StaDroppedGood
  <1>2. NetGood(shut) /\ ~shut.ap
    BY <1>1, StopAPGood
  <1> HIDE DEF shut
  <1>3. NetGood(down) /\ ~down.ap
    BY <1>2, NoInterfaceGood, ZeroRetries
  <1> QED BY <1>3, BeginGood DEF Reconnect, shut

LEMMA CheckConnectionGood ==
    ASSUME NEW n, NetGood(n), saved \in Settings
    PROVE  NetGood(CheckConnection(n))
  <1> DEFINE lost == [n EXCEPT !.iface = "NONE", !.retries = 0]
  <1>1. NetGood(lost) /\ lost.ap = n.ap
    BY NoInterfaceGood, ZeroRetries
  <1>2. CASE n.iface = "NONE" \/ IsUp(n, n.iface)
    BY <1>2 DEF CheckConnection
  <1>3. CASE ~(n.iface = "NONE" \/ IsUp(n, n.iface)) /\ n.iface # "ETHERNET"
    <2>1. ~n.ap
      BY <1>3 DEF NetGood, NetStates, Interfaces, Connected, IsUp
    <2>2. NetGood(Begin(lost, saved))
      BY <1>1, <2>1, BeginGood
    <2> QED BY <1>3, <2>2 DEF CheckConnection
  <1>4. CASE ~(n.iface = "NONE" \/ IsUp(n, n.iface)) /\ n.iface = "ETHERNET"
    <2>1. ~lost.ap
      BY <1>4 DEF NetGood, NetStates, Connected
    <2>2. NetGood(StartWiFiRadio(lost))
      BY <1>1, <2>1, StartWiFiRadioGood
    <2> QED BY <1>1, <1>4, <2>2 DEF CheckConnection
  <1> QED BY <1>2, <1>3, <1>4

LEMMA StartEthernetGood ==
    ASSUME NEW n, NetGood(n)
    PROVE  NetGood(StartEthernet(n))
  <1>1. NetGood([n EXCEPT !.eth = TRUE])
    BY DEF NetGood, NetStates, Connected
  <1> QED BY <1>1 DEF StartEthernet

LEMMA JoinGood ==
    ASSUME NEW n, NetGood(n)
    PROVE  NetGood(Join(n)) /\ Join(n).radioOff = n.radioOff
  BY DEF NetGood, NetStates, Join, Connected

(* After startWIFI in the WiFi phase the radio is on. *)
LEMMA StartWIFIGood ==
    ASSUME NEW n, NetGood(n)
    PROVE  /\ NetGood(StartWIFI(n))
           /\ StartWIFI(n).radioOff => StartWIFI(n).phase = "ETHERNET"
  <1> DEFINE m == IF n.radioOff /\ ~FallbackRetry(n) THEN StartWiFiRadio(n) ELSE n
             d == StaDropped(m, "idle")
             c == [d EXCEPT !.pending = FALSE]
  <1>1. CASE n.phase # "WIFI" /\ ~FallbackRetry(n)
    BY <1>1 DEF StartWIFI, NetGood, NetStates, Phases, Interfaces
  <1>2. CASE ~(n.phase # "WIFI" /\ ~FallbackRetry(n))
    <2>1. NetGood(m) /\ ~m.radioOff
      BY <1>2, StartWiFiRadioGood DEF NetGood, FallbackRetry
    <2> HIDE DEF m
    <2>2. NetGood(d)
      BY <2>1, StaDroppedGood
    <2>3. ~d.radioOff
      BY <2>1 DEF StaDropped, NetGood, NetStates
    <2> HIDE DEF d
    <2>4. NetGood(c) /\ ~c.radioOff
      BY <2>2, <2>3 DEF NetGood, NetStates, Connected
    <2>5. StartWIFI(n) \in {c, m, Join(m)}
      BY <1>2 DEF StartWIFI, c, d, m
    <2>6. NetGood(Join(m)) /\ ~Join(m).radioOff
      BY <2>1, JoinGood
    <2> QED BY <2>1, <2>4, <2>5, <2>6
  <1> QED BY <1>1, <1>2

LEMMA StartAPGood ==
    ASSUME NEW n, NetGood(n), n.radioOff => n.phase = "ETHERNET", NEW works \in BOOLEAN
    PROVE  /\ NetGood(StartAP(n, works))
           /\ StartAP(n, works).radioOff => StartAP(n, works).phase = "ETHERNET"
  <1>1. CASE n.phase # "AP" \/ ~n.apOn \/ Connected(n) \/ n.dns
    BY <1>1 DEF StartAP
  <1>2. CASE ~(n.phase # "AP" \/ ~n.apOn \/ Connected(n) \/ n.dns)
    <2> DEFINE k == [n EXCEPT !.ap = works, !.dns = works]
    <2>1. ~n.radioOff
      BY <1>2
    <2>2. StartAP(n, works) = k
      BY <1>2, <2>1 DEF StartAP
    <2>3. NetGood(k) /\ ~k.radioOff
      BY <1>2, <2>1 DEF NetGood, NetStates, Connected
    <2> QED BY <2>2, <2>3
  <1> QED BY <1>1, <1>2

LEMMA TakeUpGood ==
    ASSUME NEW n, NetGood(n), NEW i \in Usable(n), n.radioOff => n.phase = "ETHERNET"
    PROVE  NetGood(TakeUp(n, i))
  <1> DEFINE k == [n EXCEPT !.iface = i, !.phase = i, !.retries = 0,
                            !.everEth = @ \/ i = "ETHERNET"]
             m == ApStopped(k)
  <1>1. i \in Phases /\ IsUp(n, i)
    BY DEF Usable
  <1>2. k \in NetStates /\ k.iface = i /\ k.phase = i /\ k.ap = n.ap /\ k.dns = n.dns
        /\ k.radioOff = n.radioOff /\ k.everEth = (n.everEth \/ i = "ETHERNET")
    BY <1>1, ZeroRetries DEF NetGood, NetStates, Phases
  <1> HIDE DEF k
  <1>3. i = "AP" => n.ap
    BY <1>1 DEF IsUp
  <1>4. NetGood(m) /\ m.everEth = k.everEth /\ m.phase = i /\ (i # "AP" => ~m.ap)
    <2>1. k.radioOff => ~n.ap /\ k.everEth /\ k.phase # "AP"
      BY <1>2, <1>3 DEF NetGood
    <2>2. CASE i # "AP" /\ k.ap
      <3>1. m = [k EXCEPT !.ap = FALSE, !.dns = FALSE]
        BY <1>2, <2>2 DEF ApStopped, StopAP, m
      <3>2. m \in NetStates /\ ~m.ap /\ ~m.dns
        BY <1>2, <3>1 DEF NetStates
      <3>3. m.radioOff = k.radioOff /\ m.everEth = k.everEth /\ m.phase = k.phase /\ m.iface = k.iface
        BY <1>2, <3>1 DEF NetStates
      <3> QED BY <1>2, <2>1, <3>2, <3>3 DEF NetGood
    <2>3. CASE ~(i # "AP" /\ k.ap)
      <3>1. m = k
        BY <1>2, <2>3 DEF ApStopped, m
      <3>2. (k.dns <=> k.ap) /\ (Connected(k) => ~k.ap)
        BY <1>2, <2>3 DEF NetGood, Connected
      <3> QED BY <1>2, <2>1, <2>3, <3>1, <3>2 DEF NetGood
    <2> QED BY <2>2, <2>3
  <1> HIDE DEF m
  <1>5. i = "ETHERNET" => NetGood(StopWiFiRadio(m))
    BY <1>2, <1>4, StopWiFiRadioGood
  <1> QED BY <1>4, <1>5 DEF TakeUp, m, k

LEMMA NothingFoundGood ==
    ASSUME NEW n, NetGood(n), n.radioOff => n.phase = "ETHERNET"
    PROVE  NetGood(NothingFound(n))
  <1> DEFINE m == [n EXCEPT !.iface = "NONE", !.retries = IF @ < MaxRetries THEN @ + 1 ELSE @]
             k == [m EXCEPT !.phase = NextPhase(m), !.retries = 0,
                            !.pending = @ /\ n.phase # "WIFI"]
  <1>1. n.retries \in 0 .. MaxRetries /\ MaxRetries \in Nat
    BY NetworkAssumption DEF NetGood, NetStates
  <1>2. (IF n.retries < MaxRetries THEN n.retries + 1 ELSE n.retries) \in 0 .. MaxRetries
    BY <1>1
  <1>3. NetGood(m)
    BY <1>2, NoInterfaceGood
  <1>4. m.radioOff => m.phase = "ETHERNET"
    BY DEF NetGood, NetStates
  <1> HIDE DEF m
  <1>5. /\ NextPhase(m) \in Phases
        /\ m.radioOff => NextPhase(m) # "AP"
    BY <1>3, <1>4 DEF NextPhase, NetGood, NetStates, Phases, Interfaces
  <1>6. NetGood(k)
    BY ZeroRetries, <1>3, <1>5 DEF NetGood, NetStates, Connected
  <1> QED BY <1>3, <1>6 DEF NothingFound, m, k

LEMMA FindNetworksGood ==
    ASSUME NEW n, NetGood(n), n.radioOff => n.phase = "ETHERNET"
    PROVE  NetGood(FindNetworks(n))
  <1>1. Best(Usable(n)) \in Usable(n) \cup {"NONE"}
    BY DEF Best
  <1> QED BY <1>1, TakeUpGood, NothingFoundGood DEF FindNetworks

-----------------------------------------------------------------------------
(* The steps of Network. *)

NetIInv ==
    /\ NetGood(net) /\ saved \in Settings
    /\ router \in BOOLEAN /\ cable \in BOOLEAN /\ faults \in 0 .. MaxFaults

LEMMA NetInitHolds == NetInit => NetIInv
  <1> SUFFICES ASSUME NetInit PROVE NetIInv
    OBVIOUS
  <1>1. PICK b \in Boards : /\ saved = [ssid |-> b.ssid, apOn |-> b.apOn]
                            /\ net = [Off(b) EXCEPT !.phase = InitialPhase(Off(b)), !.sta = "idle"]
    BY DEF NetInit
  <1>2. b.phy \in Phys /\ b.ssid \in BOOLEAN /\ b.apOn \in BOOLEAN
    BY NetworkAssumption DEF BoardSet
  <1>3. Off(b) \in NetStates
    BY <1>2, ZeroRetries DEF Off, NetStates, Phases, Interfaces
  <1>4. InitialPhase(Off(b)) \in Phases
    BY DEF InitialPhase, Phases, Interfaces
  <1>5. ~Off(b).ap /\ ~Off(b).dns /\ ~Off(b).radioOff
    BY DEF Off
  <1> HIDE DEF Off
  <1>6. net \in NetStates /\ net.ap = Off(b).ap /\ net.dns = Off(b).dns /\ net.radioOff = Off(b).radioOff
    BY <1>1, <1>3, <1>4 DEF NetStates
  <1>7. NetGood(net)
    BY <1>5, <1>6 DEF NetGood
  <1>8. saved \in Settings
    BY <1>1, <1>2 DEF Settings
  <1>9. router \in BOOLEAN /\ cable \in BOOLEAN
    BY DEF NetInit
  <1>10. faults \in 0 .. MaxFaults
    BY NetworkAssumption DEF NetInit
  <1> QED BY <1>7, <1>8, <1>9, <1>10 DEF NetIInv

LEMMA CheckKeeps ==
    ASSUME NetIInv, Check PROVE NetIInv'
  <1> DEFINE asked == [net EXCEPT !.reconnect = FALSE]
             n == IF net.reconnect THEN Reconnect(asked, saved) ELSE net
  <1>1. NetGood(asked)
    BY DEF NetIInv, NetGood, NetStates, Connected
  <1>2. NetGood(n)
    BY <1>1, ReconnectGood DEF NetIInv
  <1> HIDE DEF n
  <1>3. NetGood(CheckConnection(n))
    BY <1>2, CheckConnectionGood DEF NetIInv
  <1> QED BY <1>3 DEF Check, Unchanging, NetIInv, n

LEMMA TickKeeps ==
    ASSUME NetIInv, NEW works \in BOOLEAN, Tick(works) PROVE NetIInv'
  <1> DEFINE a == StartEthernet(net)
             b == StartWIFI(a)
             c == StartAP(b, works)
  <1>1. NetGood(a)
    BY StartEthernetGood DEF NetIInv
  <1> HIDE DEF a
  <1>2. NetGood(b) /\ (b.radioOff => b.phase = "ETHERNET")
    BY <1>1, StartWIFIGood
  <1> HIDE DEF b
  <1>3. NetGood(c) /\ (c.radioOff => c.phase = "ETHERNET")
    BY <1>2, StartAPGood
  <1> HIDE DEF c
  <1>4. NetGood(FindNetworks(c))
    BY <1>3, FindNetworksGood
  <1>5. net' = FindNetworks(c) /\ UNCHANGED <<saved, router, cable, faults>>
    BY DEF Tick, Unchanging, a, b, c
  <1> QED BY <1>4, <1>5 DEF NetIInv

LEMMA EventsKeep ==
    ASSUME NetIInv, GotIp \/ JoinFails \/ LinkLost \/ DisconnectedEvent \/ Overdue
    PROVE  NetIInv'
  <1>1. UNCHANGED <<saved, router, cable, faults>>
    BY DEF GotIp, JoinFails, LinkLost, DisconnectedEvent, Overdue, Unchanging
  <1>2. NetGood(net)
    BY DEF NetIInv
  <1>3. ASSUME GotIp PROVE NetGood(net')
    <2>1. NetGood([net EXCEPT !.sta = "up", !.pending = FALSE, !.everWifi = TRUE])
      BY <1>2 DEF NetGood, NetStates, Connected
    <2> QED BY <1>3, <2>1 DEF GotIp
  <1>4. ASSUME JoinFails \/ LinkLost PROVE NetGood(net')
    <2>1. net' = StaDropped(net, "idle")
      BY <1>4 DEF JoinFails, LinkLost
    <2>2. NetGood(StaDropped(net, "idle"))
      BY <1>2, StaDroppedGood
    <2> QED BY <2>1, <2>2
  <1>5. ASSUME DisconnectedEvent PROVE NetGood(net')
    <2>1. NetGood([net EXCEPT !.leaving = FALSE, !.pending = FALSE])
      BY <1>2 DEF NetGood, NetStates, Connected
    <2> QED BY <1>5, <2>1 DEF DisconnectedEvent
  <1>6. ASSUME Overdue PROVE NetGood(net')
    <2>1. NetGood([net EXCEPT !.overdue = TRUE])
      BY <1>2 DEF NetGood, NetStates, Connected
    <2> QED BY <1>6, <2>1 DEF Overdue
  <1>7. NetGood(net')
    BY <1>3, <1>4, <1>5, <1>6
  <1> QED BY <1>1, <1>7 DEF NetIInv

LEMMA CountKeeps ==
    ASSUME faults \in 0 .. MaxFaults, faults < MaxFaults, faults' = faults + 1
    PROVE  faults' \in 0 .. MaxFaults
  BY NetworkAssumption

LEMMA ChangesKeep ==
    ASSUME NetIInv, RouterChanges \/ CableChanges \/ SaveApMode \/ ReconnectNow
    PROVE  NetIInv'
  <1>1. faults' \in 0 .. MaxFaults
    BY CountKeeps DEF NetIInv, RouterChanges, CableChanges, SaveApMode, ReconnectNow, Change
  <1>2. CASE RouterChanges \/ CableChanges
    BY <1>1, <1>2 DEF RouterChanges, CableChanges, NetIInv
  <1>3. CASE SaveApMode
    <2>1. NetGood(net')
      BY <1>3 DEF SaveApMode, NetIInv, NetGood, NetStates, Connected
    <2>2. saved' \in Settings
      BY <1>3 DEF SaveApMode, NetIInv, Settings
    <2> QED BY <1>1, <1>3, <2>1, <2>2 DEF SaveApMode, NetIInv
  <1>4. CASE ReconnectNow
    <2>1. PICK s \in {[ssid |-> FALSE, apOn |-> TRUE], [saved EXCEPT !.ssid = TRUE], saved} :
             saved' = s /\ net' = Reconnect(net, s)
      BY <1>4 DEF ReconnectNow
    <2>2. s \in Settings
      <3>1. [ssid |-> FALSE, apOn |-> TRUE] \in Settings
        BY DEF Settings
      <3>2. saved \in Settings /\ [saved EXCEPT !.ssid = TRUE] \in Settings
        BY DEF NetIInv, Settings
      <3> QED BY <3>1, <3>2
    <2>3. NetGood(Reconnect(net, s))
      BY <2>2, ReconnectGood DEF NetIInv
    <2> QED BY <1>1, <1>4, <2>1, <2>2, <2>3 DEF ReconnectNow, NetIInv
  <1> QED BY <1>2, <1>3, <1>4

LEMMA NetNextKeeps ==
    ASSUME NetIInv, NetNext PROVE NetIInv'
  BY CheckKeeps, TickKeeps, EventsKeep, ChangesKeep DEF NetNext

-----------------------------------------------------------------------------
(* The MQTT service.  A setting was saved at most as often as something was  *)
(* counted: this is what bounds the version of the settings.                 *)

MqttGood == Mqtt!MqttTypeOK /\ cfg.version <= faults

LEMMA StoppedType ==
    ASSUME NEW c \in Mqtt!Clients
    PROVE  Mqtt!Stopped(c) \in Mqtt!Clients
  BY DEF Mqtt!Clients, Mqtt!Stopped

LEMMA CurrentType ==
    ASSUME client \in Mqtt!Clients
    PROVE  Mqtt!Current \in Mqtt!Clients
  BY StoppedType DEF Mqtt!Current

LEMMA NewClientType ==
    ASSUME NEW t \in Transports
    PROVE  Mqtt!NewClient(t) \in Mqtt!Clients
  <1>1. t \in {"tcp", "tls", "tls-ca"} /\ 0 \in 0 .. MaxFaults
    BY OnlineAssumption, NetworkAssumption
  <1> QED BY <1>1 DEF Mqtt!NewClient, Mqtt!Clients, Mqtt!Reasons

LEMMA MqttInitHolds == NetInit /\ Mqtt!MqttInit => MqttGood
  <1> SUFFICES ASSUME NetInit, Mqtt!MqttInit PROVE MqttGood
    OBVIOUS
  <1>1. PICK e \in BOOLEAN, t \in Transports :
           cfg = [enabled |-> e, transport |-> t, version |-> 0] /\ client = Mqtt!NewClient(t)
    BY DEF Mqtt!MqttInit
  <1>2. 0 \in 0 .. MaxFaults /\ faults = 0
    BY NetworkAssumption DEF NetInit
  <1>3. client \in Mqtt!Clients
    BY <1>1, NewClientType
  <1>4. cfg \in [enabled : BOOLEAN, transport : Transports, version : 0 .. MaxFaults]
        /\ cfg.version <= faults
    BY <1>1, <1>2
  <1> QED BY <1>2, <1>3, <1>4 DEF MqttGood, Mqtt!MqttInit, Mqtt!MqttTypeOK, Mqtt!Reasons

LEMMA LoopKeeps ==
    ASSUME MqttGood, Mqtt!MqttLoop PROVE MqttGood'
  <1>1. cfg' = cfg /\ faults' = faults /\ client \in Mqtt!Clients /\ cfg.version \in 0 .. MaxFaults
    BY DEF MqttGood, Mqtt!MqttTypeOK, Mqtt!MqttLoop, Mqtt!LoopDrops, Mqtt!LoopConfigures,
           Mqtt!LoopStores, Mqtt!world
  <1>2. CASE Mqtt!LoopDrops
    BY <1>1, <1>2, CurrentType DEF Mqtt!LoopDrops, MqttGood, Mqtt!MqttTypeOK, Mqtt!service,
       Mqtt!status, Mqtt!world
  <1>3. CASE Mqtt!LoopConfigures
    <2>1. [client EXCEPT !.state = "connecting", !.version = cfg.version] \in Mqtt!Clients
      BY <1>1 DEF Mqtt!Clients
    <2>2. client' \in Mqtt!Clients
      BY <1>1, <1>3, <2>1, StoppedType DEF Mqtt!LoopConfigures
    <2>3. result' \in BOOLEAN /\ reconfigure' \in BOOLEAN
      BY <1>3 DEF Mqtt!LoopConfigures, Mqtt!Connects, Mqtt!MayConnect
    <2> QED BY <1>1, <1>3, <2>2, <2>3
        DEF Mqtt!LoopConfigures, MqttGood, Mqtt!MqttTypeOK, Mqtt!status, Mqtt!world
  <1>4. CASE Mqtt!LoopStores
    BY <1>1, <1>4 DEF Mqtt!LoopStores, MqttGood, Mqtt!MqttTypeOK, Mqtt!WaitAfter, Mqtt!status,
       Mqtt!world
  <1> QED BY <1>2, <1>3, <1>4 DEF Mqtt!MqttLoop

LEMMA ClientKeeps ==
    ASSUME MqttGood, Mqtt!ClientTask PROVE MqttGood'
  <1>1. cfg' = cfg /\ faults' = faults /\ client \in Mqtt!Clients
    BY DEF MqttGood, Mqtt!MqttTypeOK, Mqtt!ClientTask, Mqtt!ClientConnects, Mqtt!ClientFails,
           Mqtt!ClientStops, Mqtt!world
  <1>2. CASE Mqtt!ClientConnects
    <2>1. [client EXCEPT !.state = "connected"] \in Mqtt!Clients
      BY <1>1 DEF Mqtt!Clients
    <2>2. announced' \in BOOLEAN /\ connectedFlag' \in BOOLEAN /\ reason' \in Mqtt!Reasons
      BY <1>2 DEF Mqtt!ClientConnects, Mqtt!OnConnect, Mqtt!Reasons
    <2> QED BY <1>1, <1>2, <2>1, <2>2
        DEF Mqtt!ClientConnects, MqttGood, Mqtt!MqttTypeOK, Mqtt!service, Mqtt!world
  <1>3. CASE Mqtt!ClientFails
    <2>1. PICK r \in Mqtt!Reasons \ {"ok"} :
             client' = [client EXCEPT !.state = "stopping", !.reason = r]
      BY <1>3 DEF Mqtt!ClientFails
    <2>2. client' \in Mqtt!Clients
      BY <1>1, <2>1 DEF Mqtt!Clients
    <2> QED BY <1>1, <1>3, <2>2
        DEF Mqtt!ClientFails, MqttGood, Mqtt!MqttTypeOK, Mqtt!service, Mqtt!status, Mqtt!world
  <1>4. CASE Mqtt!ClientStops
    <2>1. [client EXCEPT !.state = "disconnected"] \in Mqtt!Clients /\ client.reason \in Mqtt!Reasons
      BY <1>1 DEF Mqtt!Clients
    <2>2. connectedFlag' \in BOOLEAN
      BY <1>4 DEF Mqtt!ClientStops, Mqtt!FlagAfter
    <2> QED BY <1>1, <1>4, <2>1, <2>2
        DEF Mqtt!ClientStops, MqttGood, Mqtt!MqttTypeOK, Mqtt!world
  <1> QED BY <1>2, <1>3, <1>4 DEF Mqtt!ClientTask

LEMMA SettingsKeep ==
    ASSUME MqttGood, faults \in 0 .. MaxFaults,
           Mqtt!SaveSettings \/ Mqtt!OnConfigUpdated \/ Mqtt!ResetMqtt
    PROVE  MqttGood'
  <1>1. client \in Mqtt!Clients /\ cfg.version \in 0 .. MaxFaults /\ cfg.transport \in Transports
    BY DEF MqttGood, Mqtt!MqttTypeOK
  <1>2. CASE Mqtt!SaveSettings
    <2>1. PICK e \in BOOLEAN, t \in Transports :
             cfg' = [enabled |-> e, transport |-> t, version |-> cfg.version + 1]
      BY <1>2 DEF Mqtt!SaveSettings
    <2>2. faults < MaxFaults /\ faults' = faults + 1
      BY <1>2 DEF Mqtt!SaveSettings, Mqtt!Event
    <2>3. cfg.version + 1 \in 0 .. MaxFaults /\ cfg.version + 1 <= faults' /\ faults' \in 0 .. MaxFaults
      BY <1>1, <2>2, NetworkAssumption DEF MqttGood
    <2>4. client' \in Mqtt!Clients
      BY <1>1, <1>2, StoppedType DEF Mqtt!SaveSettings
    <2>5. cfg' \in [enabled : BOOLEAN, transport : Transports, version : 0 .. MaxFaults]
          /\ cfg'.version <= faults'
      BY <2>1, <2>3
    <2> QED BY <1>2, <2>3, <2>4, <2>5
        DEF Mqtt!SaveSettings, MqttGood, Mqtt!MqttTypeOK, Mqtt!service, Mqtt!status
  <1>3. CASE Mqtt!OnConfigUpdated
    <2>1. client' \in Mqtt!Clients
      BY <1>1, <1>3, NewClientType DEF Mqtt!OnConfigUpdated, Mqtt!StartClient
    <2> QED BY <1>3, <2>1
        DEF Mqtt!OnConfigUpdated, MqttGood, Mqtt!MqttTypeOK, Mqtt!status, Mqtt!world
  <1>4. CASE Mqtt!ResetMqtt
    <2>1. faults < MaxFaults /\ faults' = faults + 1 /\ cfg' = cfg
      BY <1>4 DEF Mqtt!ResetMqtt, Mqtt!Event
    <2>2. faults' \in 0 .. MaxFaults /\ cfg'.version <= faults'
      BY <1>1, <2>1, NetworkAssumption DEF MqttGood
    <2>3. client' \in Mqtt!Clients
      BY <1>1, <1>4, StoppedType DEF Mqtt!ResetMqtt
    <2> QED BY <1>4, <2>1, <2>2, <2>3
        DEF Mqtt!ResetMqtt, MqttGood, Mqtt!MqttTypeOK, Mqtt!service, Mqtt!status
  <1> QED BY <1>2, <1>3, <1>4

LEMMA WorldKeeps ==
    ASSUME MqttGood, faults \in 0 .. MaxFaults, Mqtt!DelayOver \/ Mqtt!BrokerChanges
    PROVE  MqttGood'
  <1>1. CASE Mqtt!DelayOver
    BY <1>1 DEF Mqtt!DelayOver, MqttGood, Mqtt!MqttTypeOK, Mqtt!status, Mqtt!world
  <1>2. CASE Mqtt!BrokerChanges
    <2>1. faults < MaxFaults /\ faults' = faults + 1 /\ cfg' = cfg /\ cfg.version \in 0 .. MaxFaults
      BY <1>2 DEF Mqtt!BrokerChanges, Mqtt!Event, MqttGood, Mqtt!MqttTypeOK
    <2>2. faults' \in 0 .. MaxFaults /\ cfg'.version <= faults'
      BY <2>1, NetworkAssumption DEF MqttGood
    <2>3. broker' \in BOOLEAN
      BY <1>2 DEF Mqtt!BrokerChanges
    <2> QED BY <1>2, <2>1, <2>2, <2>3
        DEF Mqtt!BrokerChanges, MqttGood, Mqtt!MqttTypeOK, Mqtt!service, Mqtt!status
  <1> QED BY <1>1, <1>2

(* A step of Network leaves the service alone and counts up or not at all. *)
LEMMA NetworkLeavesMqtt ==
    ASSUME NetIInv, MqttGood, NetNext, UNCHANGED ownVars
    PROVE  MqttGood'
  <1>1. faults' = faults \/ (faults < MaxFaults /\ faults' = faults + 1)
    BY DEF NetNext, Check, Tick, GotIp, JoinFails, LinkLost, DisconnectedEvent, Overdue,
           RouterChanges, CableChanges, SaveApMode, ReconnectNow, Change, Unchanging
  <1>2. cfg' = cfg /\ cfg.version \in 0 .. MaxFaults /\ faults \in 0 .. MaxFaults
    BY DEF ownVars, NetIInv, MqttGood, Mqtt!MqttTypeOK
  <1>3. faults' \in 0 .. MaxFaults /\ cfg'.version <= faults'
    BY <1>1, <1>2, NetworkAssumption DEF MqttGood
  <1> QED BY <1>3 DEF ownVars, MqttGood, Mqtt!MqttTypeOK

LEMMA MqttNextKeeps ==
    ASSUME NetIInv, MqttGood, Mqtt!MqttNext, UNCHANGED <<net, saved, router, cable>>
    PROVE  NetIInv' /\ MqttGood'
  <1>1. MqttGood'
    BY LoopKeeps, ClientKeeps, SettingsKeep, WorldKeeps DEF Mqtt!MqttNext, NetIInv
  <1>2. faults' \in 0 .. MaxFaults
    BY <1>1 DEF MqttGood, Mqtt!MqttTypeOK
  <1>3. NetIInv'
    BY <1>2 DEF NetIInv
  <1> QED BY <1>1, <1>3

(* The members of Network and Mqtt keep their types; the captive portal, the   *)
(* access point and the radio go with the phase (see OnlineTypeOK).            *)
THEOREM OnlineTypesCorrect == Spec => []OnlineTypeOK
  <1>1. Init => NetIInv /\ MqttGood
    BY NetInitHolds, MqttInitHolds DEF Init
  <1>2. NetIInv /\ MqttGood /\ [Next]_vars => NetIInv' /\ MqttGood'
    <2> SUFFICES ASSUME NetIInv, MqttGood, [Next]_vars PROVE NetIInv' /\ MqttGood'
      OBVIOUS
    <2>1. CASE NetNext /\ UNCHANGED ownVars
      BY <2>1, NetNextKeeps, NetworkLeavesMqtt
    <2>2. CASE Mqtt!MqttNext /\ UNCHANGED <<net, saved, router, cable>>
      BY <2>2, MqttNextKeeps
    <2>3. CASE UNCHANGED vars
      BY <2>3 DEF vars, netVars, ownVars, NetIInv, MqttGood, Mqtt!MqttTypeOK
    <2> QED BY <2>1, <2>2, <2>3 DEF Next
  <1>3. NetIInv /\ MqttGood => OnlineTypeOK
    BY DEF NetIInv, NetGood, MqttGood, OnlineTypeOK, NetTypeOK, PortalConsistent,
           RadioForFallback, Settings
  <1> QED BY <1>1, <1>2, <1>3, PTL DEF Spec

-----------------------------------------------------------------------------
(* With one transport, and so one size of the stack, startClient never        *)
(* replaces the client, so connected_ is cleared by the callback of the client *)
(* it was set for, with a reason that differs from the "ok" on_connect left.  *)

FlagOfConnection ==
    /\ client.kind = cfg.transport
    /\ client.state = "connected" => announced
    /\ connectedFlag => client.state \in {"connected", "stopping"} /\ reason = "ok"

LEMMA MqttKeepsFlag ==
    ASSUME \A s, t \in Transports : s = t, MqttGood, MqttGood', FlagOfConnection, Mqtt!MqttNext
    PROVE  FlagOfConnection'
  <1>1. client \in Mqtt!Clients /\ cfg.transport \in Transports /\ cfg'.transport = cfg.transport
    <2>1. cfg.transport \in Transports /\ cfg'.transport \in Transports
      BY DEF MqttGood, Mqtt!MqttTypeOK
    <2> QED BY <2>1 DEF MqttGood, Mqtt!MqttTypeOK
  <1>2. Mqtt!Stopped(client).kind = client.kind
        /\ Mqtt!Stopped(client).state =
              IF client.state = "connected" THEN "stopping" ELSE client.state
    BY <1>1 DEF Mqtt!Stopped, Mqtt!Clients
  <1>3. ASSUME client' \in {client, Mqtt!Stopped(client)}, UNCHANGED <<reason, connectedFlag, announced>>
        PROVE  FlagOfConnection'
    BY <1>1, <1>2, <1>3 DEF FlagOfConnection
  <1>4. CASE Mqtt!LoopDrops \/ Mqtt!LoopStores \/ Mqtt!DelayOver \/ Mqtt!SaveSettings
             \/ Mqtt!ResetMqtt \/ Mqtt!BrokerChanges
    BY <1>3, <1>4 DEF Mqtt!LoopDrops, Mqtt!LoopStores, Mqtt!DelayOver, Mqtt!SaveSettings,
       Mqtt!ResetMqtt, Mqtt!BrokerChanges, Mqtt!Current, Mqtt!status
  <1>5. CASE Mqtt!OnConfigUpdated
    <2>1. client' = client
      BY <1>5 DEF Mqtt!OnConfigUpdated, Mqtt!StartClient, FlagOfConnection
    <2> QED BY <1>3, <1>5, <2>1 DEF Mqtt!OnConfigUpdated, Mqtt!status
  <1>6. CASE Mqtt!LoopConfigures
    <2>1. CASE Mqtt!Connects
      <3>1. client.state = "disconnected"
        BY <1>2, <2>1 DEF Mqtt!Connects, Mqtt!Current
      <3>2. client' = [client EXCEPT !.state = "connecting", !.version = cfg.version]
        BY <1>6, <2>1 DEF Mqtt!LoopConfigures
      <3>3. client'.state = "connecting" /\ client'.kind = client.kind
        BY <1>1, <3>2 DEF Mqtt!Clients
      <3> QED BY <1>1, <1>6, <3>1, <3>3 DEF Mqtt!LoopConfigures, Mqtt!status, FlagOfConnection
    <2>2. CASE ~Mqtt!Connects
      BY <1>3, <1>6, <2>2 DEF Mqtt!LoopConfigures, Mqtt!status
    <2> QED BY <2>1, <2>2
  <1>7. CASE Mqtt!ClientConnects
    <2>1. client'.state = "connected" /\ client'.kind = client.kind
      BY <1>1, <1>7 DEF Mqtt!ClientConnects, Mqtt!Clients
    <2>2. ~connectedFlag
      BY <1>7 DEF Mqtt!ClientConnects, FlagOfConnection
    <2>3. announced' /\ reason' = "ok"
      BY <1>7, <2>2 DEF Mqtt!ClientConnects, Mqtt!OnConnect
    <2> QED BY <1>1, <2>1, <2>3 DEF FlagOfConnection
  <1>8. CASE Mqtt!ClientFails
    <2>1. PICK r \in Mqtt!Reasons : client' = [client EXCEPT !.state = "stopping", !.reason = r]
      BY <1>8 DEF Mqtt!ClientFails
    <2>2. client'.state = "stopping" /\ client'.kind = client.kind
      BY <1>1, <2>1 DEF Mqtt!Clients
    <2> QED BY <1>1, <1>8, <2>2 DEF Mqtt!ClientFails, Mqtt!status, FlagOfConnection
  <1>9. CASE Mqtt!ClientStops
    <2>1. client'.state = "disconnected" /\ client'.kind = client.kind /\ client.reason # "ok"
      BY <1>1, <1>9 DEF Mqtt!ClientStops, Mqtt!Clients
    <2>2. ~connectedFlag'
      BY <1>9, <2>1 DEF Mqtt!ClientStops, Mqtt!FlagAfter, FlagOfConnection
    <2> QED BY <1>1, <2>1, <2>2 DEF FlagOfConnection
  <1> QED BY <1>4, <1>5, <1>6, <1>7, <1>8, <1>9
      DEF Mqtt!MqttNext, Mqtt!MqttLoop, Mqtt!ClientTask

(* As long as TLS and the stack it needs stay the same, so that startClient     *)
(* finds nothing to replace, a connected client has always subscribed and      *)
(* published "online" on this connection (Mqtt::on_connect), however the three *)
(* tasks interleave, whatever else is saved and wherever the web task runs.    *)
THEOREM ConnectionIsAnnounced ==
    ASSUME \A s, t \in Transports : s = t
    PROVE  Spec => []Announced
  <1> DEFINE I == NetIInv /\ MqttGood /\ FlagOfConnection
  <1>1. Init => I
    <2> SUFFICES ASSUME Init PROVE FlagOfConnection
      BY NetInitHolds, MqttInitHolds DEF Init
    <2>1. client.state = "disconnected" /\ client.kind = cfg.transport /\ ~connectedFlag
      BY DEF Init, Mqtt!MqttInit, Mqtt!NewClient
    <2> QED BY <2>1 DEF FlagOfConnection
  <1>2. I /\ [Next]_vars => I'
    <2> SUFFICES ASSUME I, [Next]_vars PROVE I'
      OBVIOUS
    <2>1. CASE NetNext /\ UNCHANGED ownVars
      BY <2>1, NetNextKeeps, NetworkLeavesMqtt DEF ownVars, FlagOfConnection
    <2>2. CASE Mqtt!MqttNext /\ UNCHANGED <<net, saved, router, cable>>
      BY <2>2, MqttNextKeeps, MqttKeepsFlag
    <2>3. CASE UNCHANGED vars
      BY <2>3 DEF vars, netVars, ownVars, NetIInv, MqttGood, Mqtt!MqttTypeOK, FlagOfConnection
    <2> QED BY <2>1, <2>2, <2>3 DEF Next
  <1>3. I => Announced
    BY DEF FlagOfConnection, Announced, Mqtt!Announced
  <1> QED BY <1>1, <1>2, <1>3, PTL DEF Spec
=============================================================================
