------------------------------ MODULE Roomctrl ------------------------------
(***************************************************************************)
(* The emulated room controllers (class Roomctrl) and the thermostat       *)
(* commands that feed them, for one heating circuit: circuits share        *)
(* nothing.  The master polls the address of the remote; the answer is a   *)
(* temperature or humidity telegram, or an acknowledgement.  A remote that *)
(* is switched off, or not fed for too long, sends telegrams without a     *)
(* value and is then gone.  The UART task answers, and transmitting takes  *)
(* it milliseconds in which the commands of the other tasks run.           *)
(***************************************************************************)
EXTENDS Naturals

CONSTANTS
    Temps,         \* room temperatures
    None,          \* EMS_VALUE_INT16_NOTSET, EMS_VALUE_UINT8_NOTSET
    Timeouts,      \* whether set_timeout has set one
    MaxCommands    \* commands given (bound)

Hums  == {"humidity"}
Kinds == {"plain", "humid"}        \* RC20, FB10, RC200, RC100, SENSOR; RC100H, RT800, RC120RF

ASSUME RoomAssumption ==
    /\ None \notin Temps \cup Hums /\ Timeouts \subseteq BOOLEAN
    /\ MaxCommands \in Nat

VARIABLES
    rc,       \* the members of Roomctrl for the circuit
    hc,       \* the thermostat's circuit: remotetemp and control
    timed,    \* timeout_ is not 0
    master,   \* what the master was told last: temperature and humidity
    sending,  \* the telegram that EMSuart::transmit is putting on the bus, or None
    rushed,   \* history: a command overtook a telegram that tells the master of the end
              \* (see Overtakes), and the remote was not set up anew since
    commands  \* commands given so far

vars == <<rc, hc, timed, master, sending, rushed, commands>>

Remotes ==
    [type      : Kinds \cup {"none"},         \* type_
     temp      : Temps \cup {None},           \* remotetemp_
     hum       : Hums \cup {None},            \* remotehum_
     switchOff : BOOLEAN,                     \* switch_off_
     next      : {"temp", "hum"},             \* sendtype_
     due       : BOOLEAN,                     \* send_time_ is SEND_INTERVAL ago
     expired   : BOOLEAN]                     \* receive_time_ is longer ago than timeout_

Telegrams ==                                  \* poll: the answer to a poll, else to a read
    [what : {"temp"}, value : Temps \cup {None}, poll : BOOLEAN]
        \cup [what : {"hum"}, value : Hums \cup {None}, poll : BOOLEAN]

ASSUME NoneAssumption == None \notin Telegrams

-----------------------------------------------------------------------------
(* Roomctrl::set_remotetemp and set_remotehum *)

(* due a millisecond later, when the loop has read the time again *)
SendNow(r, what) == [r EXCEPT !.due = FALSE, !.next = what]

NextKept(r) ==                   \* mutant
    [r EXCEPT !.temp = None, !.switchOff = TRUE, !.due = FALSE]

OffNow(r) == SendNow([r EXCEPT !.temp = None, !.switchOff = TRUE], "temp")

SetRemoteTemp(r, type, temp) ==
    IF r.type = "none" /\ type = "none" THEN r
    ELSE IF r.temp # None /\ temp = None THEN OffNow(r)
    ELSE IF type = "none" THEN r
    ELSE [(IF r.temp # temp THEN SendNow(r, "temp") ELSE r)
             EXCEPT !.type = type, !.temp = temp, !.expired = FALSE]

(* no humidity is -1 as int8_t hum and 255 as uint8_t remotehum_: never equal *)
SetRemoteHum(r, type, hum) ==
    IF r.type # type THEN r
    ELSE [(IF r.hum # hum \/ hum = None THEN SendNow(r, "hum") ELSE r) EXCEPT !.hum = hum]

-----------------------------------------------------------------------------
(* Roomctrl::send, the answer to a poll *)

TimeoutSilent(r) ==              \* mutant
    IF ~r.switchOff /\ timed /\ r.expired THEN [r EXCEPT !.temp = None] ELSE r

TimedOut(r) ==
    IF ~r.switchOff /\ timed /\ r.expired
    THEN [r EXCEPT !.temp = None, !.switchOff = TRUE, !.next = "temp"] ELSE r

HumKeptOn(r) == [r EXCEPT !.due = FALSE]     \* mutant

HumFilled(r) == [r EXCEPT !.hum = IF r.switchOff THEN None ELSE @, !.due = FALSE]

TempFilled(r) ==                 \* the humidity follows at the next poll
    IF r.type = "humid" /\ r.hum # None THEN [r EXCEPT !.next = "hum"]
    ELSE [r EXCEPT !.due = FALSE]

FreedEarly(r) ==                 \* mutant
    IF r.hum = None THEN [r EXCEPT !.switchOff = FALSE, !.type = "none"] ELSE r

FreedHalf(r) ==                  \* mutant
    IF r.hum = None /\ r.switchOff THEN [r EXCEPT !.type = "none"] ELSE r

Freed(r) ==
    IF r.hum = None /\ r.switchOff THEN [r EXCEPT !.switchOff = FALSE, !.type = "none"] ELSE r

Answer(r) == IF r.type = "humid" THEN r.next ELSE "temp"

Filled(r) == IF Answer(r) = "hum" THEN HumFilled(r) ELSE TempFilled(r)

Telegram(what, r, poll) ==
    [what |-> what, value |-> IF what = "temp" THEN r.temp ELSE r.hum, poll |-> poll]

(* up to the call of transmit; a poll before its time is only acknowledged *)
Poll ==
    /\ sending = None
    /\ rc.type # "none"
    /\ rc.switchOff \/ rc.temp # None \/ rc.hum # None
    /\ LET r == TimedOut(rc)
       IN  /\ r.switchOff \/ r.due
           /\ rc' = Filled(r)
           /\ sending' = Telegram(Answer(r), Filled(r), TRUE)
    /\ UNCHANGED <<hc, timed, master, rushed, commands>>

(* Roomctrl::check: the master reads a value, any other read gets an empty reply *)
Read ==
    /\ sending = None
    /\ rc.type # "none" /\ rc.temp # None
    /\ \/ sending' = Telegram("temp", rc, FALSE)
       \/ rc.hum # None /\ sending' = Telegram("hum", rc, FALSE)
    /\ UNCHANGED <<rc, hc, timed, master, rushed, commands>>

(* transmit returns: the master has the telegram, and send() goes on with what  *)
(* the members hold by now                                                      *)
Completed(r) == Freed(IF sending.what = "hum" THEN [r EXCEPT !.next = "temp"] ELSE r)

Sent ==
    /\ sending # None /\ sending' = None
    /\ master' = IF sending.what = "temp" THEN [master EXCEPT !.temp = sending.value]
                 ELSE [master EXCEPT !.hum = sending.value]
    /\ rc' = IF sending.poll THEN Completed(rc) ELSE rc
    /\ UNCHANGED <<hc, timed, rushed, commands>>

-----------------------------------------------------------------------------
(* The commands remotetemp, remotehum and control of the thermostat.  Control *)
(* "other" is a remote that is not emulated.                                  *)

(* What the telegrams do not put right: a change of a remote that is being    *)
(* switched off (a new temperature, remotehum -1, another model), a switch-off *)
(* while the answer to a poll is on its way, and a model without humidity for  *)
(* a remote that has one.                                                      *)
Overtakes ==
    \/ rc.switchOff /\ rc' # rc
    \/ ~rc.switchOff /\ rc'.switchOff /\ sending # None /\ sending.poll
    \/ rc'.hum # None /\ rc'.type = "plain"

SetUpAnew == ~rc.switchOff /\ rc.temp = None /\ rc'.temp # None

(* the last conjunct of a command *)
Command ==
    /\ commands < MaxCommands /\ commands' = commands + 1
    /\ rushed' = (Overtakes \/ (rushed /\ ~SetUpAnew))
    /\ UNCHANGED <<timed, master, sending>>

ThermostatRemoteTemp(t) ==
    /\ hc' = [hc EXCEPT !.temp = IF hc.control = "other" THEN None ELSE t]
    /\ rc' = IF hc.control = "other" THEN SetRemoteTemp(rc, "none", None)
             ELSE SetRemoteTemp(rc, hc.control, t)
    /\ Command

(* Nothing changes when control names another model than the one that answers: *)
(* RC100H, RT800 and RC120RF are one kind here.                                *)
ThermostatRemoteHum(h) ==
    /\ rc' \in {rc, SetRemoteHum(rc, "humid", IF hc.control = "humid" THEN h ELSE None)}
    /\ UNCHANGED hc
    /\ Command

(* `off' on the masters BC400 and UI800 also for remotes that remotetemp emulates *)
ThermostatControl(c, off) ==
    /\ c = "other" => off
    /\ hc' = [control |-> c, temp |-> IF off THEN None ELSE hc.temp]
    /\ rc' = IF hc.temp = None THEN rc
             ELSE IF off THEN SetRemoteTemp(rc, "none", None)
             ELSE SetRemoteTemp(rc, c, hc.temp)
    /\ Command

(* A telegram of the thermostat, or a control command that only writes it (off, *)
(* Junkers, RC35), changes control behind the remote's back.                    *)
ControlReported(c) ==
    /\ c # hc.control
    /\ hc' = [hc EXCEPT !.control = c]
    /\ commands < MaxCommands /\ commands' = commands + 1
    /\ UNCHANGED <<rc, timed, master, sending, rushed>>

-----------------------------------------------------------------------------
Passes(r) == rc' = r /\ UNCHANGED <<hc, timed, master, sending, rushed, commands>>

IntervalOver == ~rc.due /\ Passes([rc EXCEPT !.due = TRUE])
TimeoutOver  == timed /\ ~rc.expired /\ Passes([rc EXCEPT !.expired = TRUE])

Init ==
    /\ rc = [type |-> "none", temp |-> None, hum |-> None, switchOff |-> FALSE,
             next |-> "temp", due |-> TRUE, expired |-> FALSE]
    /\ hc \in [temp : {None}, control : Kinds \cup {"other"}]
    /\ timed \in Timeouts
    /\ master = [temp |-> None, hum |-> None]
    /\ sending = None /\ rushed = FALSE /\ commands = 0

Next ==
    \/ Poll \/ Read \/ Sent
    \/ \E t \in Temps \cup {None} : ThermostatRemoteTemp(t)
    \/ \E h \in Hums \cup {None} : ThermostatRemoteHum(h)
    \/ \E c \in Kinds \cup {"other"}, off \in BOOLEAN : ThermostatControl(c, off)
    \/ \E c \in Kinds \cup {"other"} : ControlReported(c)
    \/ IntervalOver \/ TimeoutOver

(* The master goes on polling the remote, whatever it reads between two polls; *)
(* a transmission ends, and time passes.                                       *)
Fairness ==
    /\ SF_vars(Poll) /\ WF_vars(Sent)
    /\ WF_vars(IntervalOver) /\ WF_vars(TimeoutOver)

Spec == Init /\ [][Next]_vars /\ Fairness

-----------------------------------------------------------------------------
(* The members hold values of their types; a remote that is being switched off *)
(* still has the type that says which address it answers.                      *)
RoomTypeOK ==
    /\ rc \in Remotes
    /\ rc.switchOff => rc.type # "none" \/ rushed
    /\ hc \in [temp : Temps \cup {None}, control : Kinds \cup {"other"}]
    /\ sending \in {None} \cup Telegrams
    /\ timed \in BOOLEAN /\ rushed \in BOOLEAN /\ commands \in 0 .. MaxCommands
    /\ master \in [temp : Temps \cup {None}, hum : Hums \cup {None}]

(* A remote that has a temperature has a type, so that its address is answered *)
(* (get_hc finds it): is_remote never promises what send does not do.  Not so  *)
(* after a command overtook a switch-off (Overtakes), until it is set up anew. *)
RemoteServed == ~rushed /\ rc.temp # None => rc.type # "none"

(* A remote is only given up after the master was told that it has no          *)
(* temperature any more, through any alternation of temperature, humidity,     *)
(* reads and timeout, unless a command overtook the telegram that says so: the *)
(* code then frees the address while the master keeps the last value.          *)
OffReachesMaster == ~rushed /\ rc.type = "none" => master.temp = None

(* Switching off ends, also when commands change the remote meanwhile and make  *)
(* the alternation start again; except for a remote whose type no longer lets   *)
(* it send what the code waits for: none, or one without humidity that has one. *)
CannotEnd     == rc.type = "none" \/ (rc.type = "plain" /\ rc.hum # None)
SwitchOffEnds == rc.switchOff ~> ~rc.switchOff \/ CannotEnd

(* A remote nobody feeds any more is switched off by the timeout, and the      *)
(* master does not go on heating by the last value it was told, unless a       *)
(* command overtook the telegram that says so.                                 *)
TimeoutStops == <>[](timed /\ rc.expired /\ ~rushed) => <>[](master.temp = None)
=============================================================================
