------------------------------ MODULE Network ------------------------------
(***************************************************************************)
(* How the device comes online (class Network): Ethernet, then WiFi, then  *)
(* its own access point with a captive portal.  Loop() validates the       *)
(* active interface and, every few seconds, starts what the phase calls    *)
(* for and looks for interfaces that are up.  The WiFi driver answers      *)
(* through events that run in a task of their own.                         *)
(*                                                                         *)
(* `net' holds the members of the class, `drv' the state of the drivers,   *)
(* which is external.  A handler is a function on their union, so that     *)
(* handlers that run one after the other are composed.  Statistics, DNS    *)
(* overrides, IPv6 and mDNS are left out.                                  *)
(***************************************************************************)
EXTENDS Naturals, FiniteSets

CONSTANTS
    MaxRetries,   \* MAX_NETWORK_RECONNECTION_ATTEMPTS
    MaxFaults,    \* how often router, cable or settings change (bound)
    Boards        \* the [phy, ssid, apOn] a board may start with

Interfaces == {"ETHERNET", "WIFI", "AP", "NONE"}
Phases     == Interfaces \ {"NONE"}
Phys       == {"none", "working", "missing"}   \* the PHY the board profile names
BoardSet   == [phy : Phys, ssid : BOOLEAN, apOn : BOOLEAN]

ASSUME NetworkAssumption ==
    /\ MaxRetries \in Nat \ {0} /\ MaxFaults \in Nat /\ Boards \subseteq BoardSet

VARIABLES
    net,     \* Network and its drivers
    saved,   \* the settings: whether an SSID is set, whether the AP is allowed
    router, cable,   \* the WiFi router is in reach, the Ethernet cable has a network
    faults   \* changes of router, cable and settings so far

netVars == <<net, saved, router, cable, faults>>

NetStates ==
    [phase    : Phases,          \* phase_
     iface    : Interfaces,      \* network_iface_, with network_ip_
     retries  : 0 .. MaxRetries, \* connect_retry_
     pending  : BOOLEAN,         \* wifi_connect_pending_
     overdue  : BOOLEAN,         \* ... for NETWORK_WIFI_CONNECT_TIMEOUT
     radioOff : BOOLEAN,         \* wifi_radio_off_
     everWifi : BOOLEAN,         \* wifi_ever_connected_
     everEth  : BOOLEAN,         \* ethernet_ever_connected_
     dns      : BOOLEAN,         \* ap_dnsServer_ is there
     reconnect : BOOLEAN,        \* reconnect_pending_
     phy      : Phys,            \* phy_type_
     ssid     : BOOLEAN,         \* ssid_ is not empty
     apOn     : BOOLEAN,         \* ap_provisionMode_ is not AP_MODE_NEVER
     eth      : BOOLEAN,         \* driver: ETH.begin() has succeeded
     sta      : {"off", "idle", "joining", "up"},   \* driver: WiFi station
     ap       : BOOLEAN,         \* driver: SoftAP
     leaving  : BOOLEAN]         \* driver: a DISCONNECTED event is on its way

Connected(n) == n.iface \in {"ETHERNET", "WIFI"}    \* network_connected()

-----------------------------------------------------------------------------
(* The drivers, as the code uses them. *)

StaDropped(n, to) ==             \* WiFi.disconnect, or the station is stopped
    [n EXCEPT !.sta = to, !.leaving = @ \/ n.sta \in {"joining", "up"}]

IsUp(n, iface) ==
    \/ iface = "ETHERNET" /\ n.eth /\ cable
    \/ iface = "WIFI" /\ n.sta = "up"
    \/ iface = "AP" /\ n.ap

-----------------------------------------------------------------------------
StartWiFiRadio(n) ==             \* WiFi.mode(WIFI_STA) ends a SoftAP
    [StaDropped(n, "idle") EXCEPT !.ap = FALSE, !.radioOff = FALSE]

StopWiFiRadio(n) ==
    IF n.radioOff THEN n
    ELSE [StaDropped(n, "off") EXCEPT !.ap = FALSE, !.radioOff = TRUE, !.pending = FALSE]

StopAP(n) == [n EXCEPT !.ap = FALSE, !.dns = FALSE]

InitialPhase(n) ==
    IF n.phy # "none" THEN "ETHERNET"
    ELSE IF n.ssid \/ ~n.apOn THEN "WIFI" ELSE "AP"

Begin(n, s) ==                   \* s: the settings it reads
    LET m == [n EXCEPT !.ssid = s.ssid, !.apOn = s.apOn, !.pending = FALSE]
    IN  StartWiFiRadio([m EXCEPT !.phase = InitialPhase(m)])

Reconnect(n, s) ==
    LET left == IF n.iface = "WIFI" THEN StaDropped(n, "idle") ELSE n
        shut == IF left.ap THEN StopAP(left) ELSE left
    IN  Begin([shut EXCEPT !.iface = "NONE", !.retries = 0], s)

CheckConnection(n) ==
    IF n.iface = "NONE" \/ IsUp(n, n.iface) THEN n
    ELSE LET lost == [n EXCEPT !.iface = "NONE", !.retries = 0]
         IN  IF n.iface # "ETHERNET" THEN Begin(lost, saved)
             ELSE IF n.radioOff THEN StartWiFiRadio(lost) ELSE lost

StartEthernet(n) ==
    IF n.phase = "ETHERNET" /\ n.phy = "working" THEN [n EXCEPT !.eth = TRUE] ELSE n

NoFallbackRetry(n) == FALSE                    \* mutant
FallbackRetry(n)   == n.phase = "AP" /\ n.ssid \* keep joining a late router

Join(n) == [n EXCEPT !.sta = "joining", !.pending = TRUE, !.overdue = FALSE]

StartWIFI(n) ==
    LET m == IF n.radioOff /\ ~FallbackRetry(n) THEN StartWiFiRadio(n) ELSE n
    IN  IF n.phase # "WIFI" /\ ~FallbackRetry(n) THEN n
        ELSE IF m.pending /\ m.overdue THEN [StaDropped(m, "idle") EXCEPT !.pending = FALSE]
        ELSE IF m.sta = "up" \/ ~m.ssid \/ m.iface = "ETHERNET" \/ m.pending THEN m
        ELSE Join(m)

StartAP(n, works) ==
    IF n.phase # "AP" \/ ~n.apOn \/ Connected(n) \/ n.dns THEN n
    ELSE LET m == IF n.radioOff THEN StartWiFiRadio(n) ELSE n
         IN  [m EXCEPT !.ap = works, !.dns = works]

(* findNetworks: the best interface that is up, Ethernet before WiFi before *)
(* the access point.                                                        *)

Usable(n) == {i \in Phases : IsUp(n, i) /\ (i = "AP" => n.apOn)}

ApFirst(up) ==                   \* mutant
    IF "AP" \in up THEN "AP" ELSE IF "WIFI" \in up THEN "WIFI"
    ELSE IF "ETHERNET" \in up THEN "ETHERNET" ELSE "NONE"

Best(up) ==
    IF "ETHERNET" \in up THEN "ETHERNET" ELSE IF "WIFI" \in up THEN "WIFI"
    ELSE IF "AP" \in up THEN "AP" ELSE "NONE"

ApStopped(n) == IF n.iface # "AP" /\ n.ap THEN StopAP(n) ELSE n

TakeUp(n, iface) ==
    LET m == ApStopped([n EXCEPT !.iface = iface, !.phase = iface, !.retries = 0,
                                 !.everEth = @ \/ iface = "ETHERNET"])
    IN  IF iface = "ETHERNET" THEN StopWiFiRadio(m) ELSE m

NeverGiveUp(n) == n.phase        \* mutant

NextPhase(n) ==                  \* after MaxRetries attempts
    CASE n.phase = "ETHERNET" /\ n.ssid -> "WIFI"
      [] n.phase = "ETHERNET" /\ ~n.ssid /\ ~n.everEth /\ n.apOn -> "AP"
      [] n.phase = "WIFI" /\ ~n.everWifi /\ n.apOn -> "AP"
      [] OTHER -> n.phase

CountsOn(n) ==                   \* mutant
    [n EXCEPT !.iface = "NONE", !.retries = @ + 1,
              !.phase = IF n.retries + 1 = MaxRetries THEN NextPhase(n) ELSE @]

NothingFound(n) ==               \* in the AP phase the count is only displayed
    LET m == [n EXCEPT !.iface = "NONE", !.retries = IF @ < MaxRetries THEN @ + 1 ELSE @]
    IN  IF m.retries < MaxRetries \/ m.phase = "AP" THEN m
        ELSE [m EXCEPT !.phase = NextPhase(m), !.retries = 0,
                       !.pending = @ /\ n.phase # "WIFI"]

FindNetworks(n) ==
    LET best == Best(Usable(n))
    IN  IF best = "NONE" THEN NothingFound(n)
        ELSE IF best # n.iface THEN TakeUp(n, best) ELSE n

-----------------------------------------------------------------------------
(* Network::loop in two steps: links change and events come in between. *)

Unchanging == UNCHANGED <<saved, router, cable, faults>>

Check ==
    /\ net' = CheckConnection(IF net.reconnect
                              THEN Reconnect([net EXCEPT !.reconnect = FALSE], saved) ELSE net)
    /\ Unchanging

Tick(works) ==                   \* works: the SoftAP can be started
    /\ \E a \in {StartEthernet(net)} : \E b \in {StartWIFI(a)} : \E c \in {StartAP(b, works)} :
          net' = FindNetworks(c)
    /\ Unchanging

(* The event handlers, and the driver. *)

GotIp ==
    /\ net.sta = "joining" /\ router
    /\ net' = [net EXCEPT !.sta = "up", !.pending = FALSE, !.everWifi = TRUE]
    /\ Unchanging

JoinFails ==                     \* refused, or nobody there
    /\ net.sta = "joining"
    /\ net' = StaDropped(net, "idle")
    /\ Unchanging

LinkLost ==
    /\ net.sta = "up" /\ ~router
    /\ net' = StaDropped(net, "idle")
    /\ Unchanging

DisconnectedEvent ==
    /\ net.leaving
    /\ net' = [net EXCEPT !.leaving = FALSE, !.pending = FALSE]
    /\ Unchanging

Overdue ==
    /\ net.pending /\ ~net.overdue
    /\ net' = [net EXCEPT !.overdue = TRUE]
    /\ Unchanging

(* The world, and the user. *)

Change == faults < MaxFaults /\ faults' = faults + 1

RouterChanges == Change /\ router' = ~router /\ UNCHANGED <<net, saved, cable>>
CableChanges  ==
    Change /\ net.phy = "working" /\ cable' = ~cable /\ UNCHANGED <<net, saved, router>>

SaveApMode ==                    \* APSettings::update schedules a reconnect
    /\ Change
    /\ saved' = [saved EXCEPT !.apOn = ~@]
    /\ net' = [net EXCEPT !.reconnect = TRUE]
    /\ UNCHANGED <<router, cable>>

(* The button forgets the SSID and allows the AP; on the console an SSID is    *)
(* entered, or nothing is changed.                                            *)
ReconnectNow ==
    /\ Change
    /\ \E s \in {[ssid |-> FALSE, apOn |-> TRUE], [saved EXCEPT !.ssid = TRUE], saved} :
          saved' = s /\ net' = Reconnect(net, s)
    /\ UNCHANGED <<router, cable>>

-----------------------------------------------------------------------------
Off(b) == [phase |-> "ETHERNET", iface |-> "NONE", retries |-> 0, pending |-> FALSE,
           overdue |-> FALSE, radioOff |-> FALSE, everWifi |-> FALSE, everEth |-> FALSE,
           dns |-> FALSE, reconnect |-> FALSE, phy |-> b.phy, ssid |-> b.ssid, apOn |-> b.apOn,
           eth |-> FALSE, sta |-> "off", ap |-> FALSE, leaving |-> FALSE]

NetInit ==
    /\ \E b \in Boards : /\ saved = [ssid |-> b.ssid, apOn |-> b.apOn]
                         /\ net = [Off(b) EXCEPT !.phase = InitialPhase(Off(b)), !.sta = "idle"]
    /\ router \in BOOLEAN /\ faults = 0
    /\ cable \in {c \in BOOLEAN : c => net.phy = "working"}

NetNext ==
    \/ Check
    \/ \E works \in BOOLEAN : Tick(works)
    \/ GotIp \/ JoinFails \/ LinkLost \/ DisconnectedEvent \/ Overdue
    \/ RouterChanges \/ CableChanges \/ SaveApMode \/ ReconnectNow

(* The loop runs, events are delivered, time passes; a router that stays in  *)
(* reach lets the station in when it goes on asking, and the SoftAP starts   *)
(* when it is tried again and again.                                         *)
NetFairness ==
    /\ WF_netVars(Check) /\ WF_netVars(\E works \in BOOLEAN : Tick(works))
    /\ SF_netVars(GotIp) /\ WF_netVars(LinkLost)
    /\ WF_netVars(DisconnectedEvent) /\ WF_netVars(Overdue)
    /\ SF_netVars(Tick(TRUE))

NetSpec == NetInit /\ [][NetNext]_netVars /\ NetFairness

-----------------------------------------------------------------------------
(* Members and drivers hold values of their types; the retry count stays      *)
(* within MAX_NETWORK_RECONNECTION_ATTEMPTS.                                   *)
NetTypeOK ==
    /\ net \in NetStates /\ saved \in [ssid : BOOLEAN, apOn : BOOLEAN]
    /\ router \in BOOLEAN /\ cable \in BOOLEAN /\ faults \in 0 .. MaxFaults

(* The captive portal's DNS server exists exactly as long as the access point *)
(* (startAP never starts an AP again while the pointer is set), and neither    *)
(* stays when the device is online.                                           *)
PortalConsistent ==
    /\ net.dns <=> net.ap
    /\ Connected(net) => ~net.ap

(* The radio is only down while Ethernet carries, or has just lost, the       *)
(* traffic: the access point phase never meets a radio that is off.           *)
RadioForFallback == net.radioOff => net.everEth /\ net.phase # "AP"

(* A router that is in reach for good is joined, from any phase, after any     *)
(* hung or failed attempt and with the SoftAP up (CHANGELOG: a late-booting    *)
(* router can still be joined).                                                *)
LateRouterJoined == <>[](router /\ net.ssid) => <>[]Connected(net)

(* Once the Ethernet driver runs, a cable that is plugged in late is used.     *)
CableUsed == <>[](cable /\ net.eth) => <>[](net.iface = "ETHERNET")

(* A device that has never been online, may open an access point and finds no  *)
(* network opens it and keeps it open.                                         *)
Stranded == ~router /\ ~cable /\ net.apOn /\ ~net.everWifi /\ ~net.everEth
ApOffered == <>[]Stranded => <>[](net.iface = "AP")
=============================================================================
