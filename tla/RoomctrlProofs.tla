--------------------------- MODULE RoomctrlProofs ---------------------------
(***************************************************************************)
(* Proofs about Roomctrl, for all temperatures and any number of commands: *)
(* unless a command overtakes it, a remote is given up only after the      *)
(* master was told that it has no temperature.  The alternation of         *)
(* temperature and humidity makes this more than one step: the humidity    *)
(* telegram may be the last one, and the members may change while any of   *)
(* them is on its way, so the invariant says what the master knows, or is  *)
(* being told, whenever the humidity is next.                              *)
(***************************************************************************)
EXTENDS Roomctrl, TLAPS

TellsEnd(snd) == snd # None /\ snd.what = "temp" /\ snd.value = None

(* What holds of remote r when the master knows temperature t and telegram snd *)
(* is on its way.                                                              *)
Sound(r, t, snd) ==
    /\ r.switchOff => r.type # "none" /\ r.temp = None
    /\ r.type = "plain" => r.hum = None
    /\ r.type = "none" => r.temp = None /\ r.hum = None /\ t = None /\ snd = None
    /\ r.switchOff /\ r.next = "hum" => t = None \/ TellsEnd(snd)
    /\ r.switchOff /\ snd # None =>
          IF snd.poll THEN TellsEnd(snd) \/ (snd.what = "hum" /\ t = None)
          ELSE r.next = "temp"

IInv == RoomTypeOK /\ (~rushed => Sound(rc, master.temp, sending))

Told == Temps \cup {None}
Air  == Hums \cup {None}
Bus  == {None} \cup Telegrams

-----------------------------------------------------------------------------
(* The helpers keep the type of the record. *)

LEMMA OffNowType ==
    ASSUME NEW r \in Remotes PROVE OffNow(r) \in Remotes
  BY DEF Remotes, OffNow, SendNow, Kinds

LEMMA SetRemoteTempType ==
    ASSUME NEW r \in Remotes, NEW type \in Kinds \cup {"none"}, NEW t \in Told
    PROVE  SetRemoteTemp(r, type, t) \in Remotes
  <1> DEFINE base == IF r.temp # t THEN SendNow(r, "temp") ELSE r
             fed  == [base EXCEPT !.type = type, !.temp = t, !.expired = FALSE]
  <1>1. base \in Remotes
    BY DEF Remotes, SendNow
  <1> HIDE DEF base
  <1>2. type # "none" => fed \in Remotes
    BY <1>1 DEF Remotes, Told
  <1> QED BY <1>2, OffNowType DEF SetRemoteTemp, base, fed

LEMMA SetRemoteHumType ==
    ASSUME NEW r \in Remotes, NEW type \in Kinds \cup {"none"}, NEW h \in Air
    PROVE  SetRemoteHum(r, type, h) \in Remotes /\ SetRemoteHum(r, type, h).temp = r.temp
  <1> DEFINE base == IF r.hum # h \/ h = None THEN SendNow(r, "hum") ELSE r
  <1>1. base \in Remotes /\ base.temp = r.temp
    BY DEF Remotes, SendNow
  <1>2. SetRemoteHum(r, type, h) = IF r.type # type THEN r ELSE [base EXCEPT !.hum = h]
    BY DEF SetRemoteHum
  <1> HIDE DEF base
  <1>3. [base EXCEPT !.hum = h] \in Remotes /\ [base EXCEPT !.hum = h].temp = r.temp
    BY <1>1 DEF Remotes, Air
  <1> QED BY <1>2, <1>3

LEMMA TimedOutType ==
    ASSUME NEW r \in Remotes PROVE TimedOut(r) \in Remotes
  BY DEF Remotes, TimedOut

LEMMA FilledType ==
    ASSUME NEW r \in Remotes PROVE Filled(r) \in Remotes /\ Answer(r) \in {"hum", "temp"}
  BY DEF Remotes, Filled, Answer, HumFilled, TempFilled

LEMMA FreedType ==
    ASSUME NEW r \in Remotes PROVE Freed(r) \in Remotes
  BY DEF Remotes, Freed

LEMMA TelegramType ==
    ASSUME NEW r \in Remotes, NEW what \in {"temp", "hum"}, NEW poll \in BOOLEAN
    PROVE  /\ Telegram(what, r, poll) \in Bus /\ Telegram(what, r, poll) # None
           /\ Telegram(what, r, poll).what = what /\ Telegram(what, r, poll).poll = poll
           /\ Telegram(what, r, poll).value = IF what = "temp" THEN r.temp ELSE r.hum
  <1>1. Telegram(what, r, poll) \in Telegrams
    BY DEF Remotes, Telegram, Telegrams
  <1>2. /\ Telegram(what, r, poll).what = what /\ Telegram(what, r, poll).poll = poll
        /\ Telegram(what, r, poll).value = IF what = "temp" THEN r.temp ELSE r.hum
    BY DEF Telegram
  <1> QED BY <1>1, <1>2, NoneAssumption DEF Bus

-----------------------------------------------------------------------------
(* The helpers keep what the master knows in step with the remote. *)

LEMMA TimedOutSound ==
    ASSUME NEW r \in Remotes, NEW t \in Told, Sound(r, t, None), r.type # "none"
    PROVE  Sound(TimedOut(r), t, None) /\ TimedOut(r).type # "none"
  BY DEF Sound, Remotes, TimedOut

LEMMA FilledSound ==
    ASSUME NEW r \in Remotes, NEW t \in Told, Sound(r, t, None), r.type # "none",
           NEW snd, snd # None, snd.what = Answer(r), snd.poll = TRUE,
           snd.value = IF Answer(r) = "temp" THEN Filled(r).temp ELSE Filled(r).hum
    PROVE  Sound(Filled(r), t, snd)
  <1>1. CASE Answer(r) = "hum"
    <2>1. r.type = "humid" /\ r.next = "hum"
      BY <1>1 DEF Answer
    <2>2. r.switchOff => t = None
      BY <2>1 DEF Sound, TellsEnd
    <2>3. Filled(r) = HumFilled(r)
      BY <1>1 DEF Filled
    <2> QED BY <1>1, <2>1, <2>2, <2>3 DEF HumFilled, Sound, Remotes
  <1>2. CASE Answer(r) = "temp"
    <2>1. Filled(r) = TempFilled(r)
      BY <1>2 DEF Filled
    <2>2. /\ TempFilled(r).type = r.type /\ TempFilled(r).temp = r.temp
          /\ TempFilled(r).hum = r.hum /\ TempFilled(r).switchOff = r.switchOff
      BY DEF TempFilled, Remotes
    <2>3. r.switchOff => TellsEnd(snd)
      BY <1>2, <2>1, <2>2 DEF TellsEnd, Sound
    <2> QED BY <1>2, <2>1, <2>2, <2>3 DEF Sound
  <1> QED BY <1>1, <1>2, FilledType

LEMMA FreedSound ==
    ASSUME NEW r \in Remotes, NEW t \in Told, Sound(r, t, None), r.switchOff => t = None
    PROVE  Sound(Freed(r), t, None)
  BY DEF Sound, Remotes, Freed, TellsEnd

LEMMA SetRemoteTempSound ==
    ASSUME NEW r \in Remotes, NEW t \in Told, NEW snd \in Bus, Sound(r, t, snd), ~r.switchOff,
           NEW type \in Kinds \cup {"none"}, NEW temp \in Told,
           LET s == SetRemoteTemp(r, type, temp)
           IN  /\ ~(s.hum # None /\ s.type = "plain")
               /\ s.switchOff /\ snd # None => ~snd.poll
    PROVE  Sound(SetRemoteTemp(r, type, temp), t, snd)
  BY DEF Sound, Remotes, SetRemoteTemp, OffNow, SendNow, Kinds, Told

(* A remote that gets a temperature again may forget what went before. *)
LEMMA SetUpSound ==
    ASSUME NEW r \in Remotes, NEW t \in Told, NEW snd \in Bus, ~r.switchOff, r.temp = None,
           NEW type \in Kinds \cup {"none"}, NEW temp \in Told,
           LET s == SetRemoteTemp(r, type, temp)
           IN  s.temp # None /\ ~(s.hum # None /\ s.type = "plain")
    PROVE  Sound(SetRemoteTemp(r, type, temp), t, snd)
  BY DEF Sound, Remotes, SetRemoteTemp, SendNow, Kinds, Told

LEMMA SetRemoteHumSound ==
    ASSUME NEW r \in Remotes, NEW t \in Told, NEW snd \in Bus, Sound(r, t, snd), ~r.switchOff,
           NEW h \in Air
    PROVE  Sound(SetRemoteHum(r, "humid", h), t, snd)
  BY DEF Sound, Remotes, SetRemoteHum, SendNow, Kinds, Air

-----------------------------------------------------------------------------
(* Each action keeps the invariant. *)

LEMMA InitHolds == Init => IInv
  <1> SUFFICES ASSUME Init PROVE IInv
    OBVIOUS
  <1>1. rc \in Remotes
    BY DEF Init, Remotes
  <1>2. hc \in [temp : Temps \cup {None}, control : Kinds \cup {"other"}]
    BY DEF Init
  <1>3. master \in [temp : Temps \cup {None}, hum : Hums \cup {None}]
    BY DEF Init
  <1>4. timed \in BOOLEAN /\ rushed \in BOOLEAN /\ sending = None
    BY RoomAssumption DEF Init
  <1>5. commands \in 0 .. MaxCommands
    BY RoomAssumption DEF Init
  <1>6. Sound(rc, master.temp, sending)
    BY <1>4 DEF Init, Sound
  <1> QED BY <1>1, <1>2, <1>3, <1>4, <1>5, <1>6 DEF IInv, RoomTypeOK, Sound

LEMMA PollKeeps ==
    ASSUME IInv, Poll PROVE IInv'
  <1> DEFINE r == TimedOut(rc)
  <1>1. rc \in Remotes /\ master.temp \in Told /\ rc.type # "none" /\ sending = None
    BY DEF IInv, RoomTypeOK, Poll, Told
  <1>2. r \in Remotes /\ Filled(r) \in Remotes /\ Answer(r) \in {"hum", "temp"}
    BY <1>1, TimedOutType, FilledType
  <1>3. rc' = Filled(r) /\ sending' = Telegram(Answer(r), Filled(r), TRUE)
        /\ UNCHANGED <<hc, timed, master, rushed, commands>>
    BY DEF Poll
  <1> HIDE DEF r
  <1>4. /\ sending' \in Bus /\ sending' # None
        /\ sending'.what = Answer(r) /\ sending'.poll = TRUE
        /\ sending'.value = IF Answer(r) = "temp" THEN Filled(r).temp ELSE Filled(r).hum
    BY <1>2, <1>3, TelegramType
  <1>5. ~rushed' => Sound(rc', master'.temp, sending')
    <2> SUFFICES ASSUME ~rushed PROVE Sound(Filled(r), master.temp, sending')
      BY <1>3
    <2>1. Sound(rc, master.temp, None)
      BY <1>1 DEF IInv
    <2>2. Sound(r, master.temp, None) /\ r.type # "none"
      BY <1>1, <2>1, TimedOutSound DEF r
    <2> QED BY <1>1, <1>2, <1>4, <2>2, FilledSound
  <1>6. rc'.switchOff => rc'.type # "none" \/ rushed'
    BY <1>5 DEF Sound
  <1> QED
    BY <1>2, <1>3, <1>4, <1>5, <1>6 DEF IInv, RoomTypeOK, Bus

LEMMA ReadKeeps ==
    ASSUME IInv, Read PROVE IInv'
  <1>1. rc \in Remotes /\ sending = None /\ rc.temp # None
        /\ UNCHANGED <<rc, hc, timed, master, rushed, commands>>
    BY DEF IInv, RoomTypeOK, Read
  <1>2. PICK what \in {"temp", "hum"} : sending' = Telegram(what, rc, FALSE)
    BY DEF Read
  <1>3. sending' \in Bus
    BY <1>1, <1>2, TelegramType
  <1>4. ~rushed => Sound(rc, master.temp, sending')
    BY <1>1 DEF IInv, Read, Sound
  <1> QED
    BY <1>1, <1>3, <1>4 DEF IInv, RoomTypeOK, Bus

LEMMA SentKeeps ==
    ASSUME IInv, Sent PROVE IInv'
  <1> DEFINE s == IF sending.what = "hum" THEN [rc EXCEPT !.next = "temp"] ELSE rc
             t == IF sending.what = "temp" THEN sending.value ELSE master.temp
  <1>1. /\ rc \in Remotes /\ master \in [temp : Told, hum : Air]
        /\ sending \in Bus /\ sending # None /\ sending' = None
        /\ UNCHANGED <<hc, timed, rushed, commands>>
    BY DEF IInv, RoomTypeOK, Sent, Told, Air, Bus
  <1>2. master' \in [temp : Told, hum : Air] /\ master'.temp = t /\ t \in Told
    <2>1. \/ sending.what = "temp" /\ sending.value \in Told
          \/ sending.what = "hum" /\ sending.value \in Air
      BY <1>1 DEF Bus, Telegrams, Told, Air
    <2>2. CASE sending.what = "temp"
      <3>1. master' = [master EXCEPT !.temp = sending.value] /\ sending.value \in Told
        BY <2>1, <2>2 DEF Sent
      <3> QED BY <1>1, <2>2, <3>1
    <2>3. CASE sending.what = "hum"
      <3>1. master' = [master EXCEPT !.hum = sending.value] /\ sending.value \in Air
        BY <2>1, <2>3 DEF Sent
      <3> QED BY <1>1, <2>3, <3>1
    <2> QED BY <2>1, <2>2, <2>3
  <1>3. /\ s \in Remotes /\ s.switchOff = rc.switchOff /\ s.type = rc.type
        /\ s.temp = rc.temp /\ s.hum = rc.hum
        /\ s.next = IF sending.what = "hum" THEN "temp" ELSE rc.next
    BY <1>1 DEF Remotes
  <1>4. rc' = IF sending.poll THEN Freed(s) ELSE rc
    BY DEF Sent, Completed
  <1>5. rc' \in Remotes
    BY <1>1, <1>3, <1>4, FreedType
  <1>6. ASSUME ~rushed PROVE Sound(rc', t, None)
    <2>1. Sound(rc, master.temp, sending)
      BY <1>6 DEF IInv
    <2>2. CASE ~sending.poll
      BY <1>1, <1>4, <2>1, <2>2 DEF Sound
    <2>3. CASE sending.poll
      <3>1. rc.switchOff => t = None
        BY <1>1, <2>1, <2>3 DEF Sound, TellsEnd
      <3>2. Sound(s, t, None)
        BY <1>1, <1>3, <2>1, <3>1 DEF Sound
      <3> QED BY <1>2, <1>3, <1>4, <2>3, <3>1, <3>2, FreedSound
    <2> QED BY <2>2, <2>3
  <1>7. ~rushed' => Sound(rc', master'.temp, sending')
    BY <1>1, <1>2, <1>6
  <1>8. rc'.switchOff => rc'.type # "none" \/ rushed'
    BY <1>7 DEF Sound
  <1> QED
    BY <1>1, <1>2, <1>5, <1>7, <1>8 DEF IInv, RoomTypeOK, Told, Air

LEMMA CommandKeeps ==
    ASSUME IInv, Command, rc' \in Remotes,
           hc' \in [temp : Told, control : Kinds \cup {"other"}],
           ~rushed' => Sound(rc', master.temp, sending)
    PROVE  IInv'
  <1>1. rushed' \in BOOLEAN /\ commands' \in 0 .. MaxCommands /\ UNCHANGED <<timed, master, sending>>
    <2>1. rushed' \in BOOLEAN
      BY DEF Command
    <2>2. commands' \in 0 .. MaxCommands
      BY RoomAssumption DEF Command, IInv, RoomTypeOK
    <2> QED BY <2>1, <2>2 DEF Command
  <1>2. rc'.switchOff => rc'.type # "none" \/ rushed'
    BY DEF Sound
  <1> QED
    BY <1>1, <1>2 DEF IInv, RoomTypeOK, Told

LEMMA CommandsKeep ==
    ASSUME IInv,
           \/ \E t \in Told : ThermostatRemoteTemp(t)
           \/ \E h \in Air : ThermostatRemoteHum(h)
           \/ \E c \in Kinds \cup {"other"}, off \in BOOLEAN : ThermostatControl(c, off)
    PROVE  IInv'
  <1>1. /\ rc \in Remotes /\ master.temp \in Told /\ None \in Told /\ None \in Air
        /\ hc.temp \in Told /\ hc.control \in Kinds \cup {"other"} /\ sending \in Bus
        /\ hc \in [temp : Told, control : Kinds \cup {"other"}]
    BY DEF IInv, RoomTypeOK, Told, Air, Bus
  <1>2. ASSUME Command, ~rushed'
        PROVE  /\ ~(rc'.hum # None /\ rc'.type = "plain")
               /\ rc.switchOff => rc' = rc
               /\ ~rc.switchOff /\ rc'.switchOff /\ sending # None => ~sending.poll
               /\ SetUpAnew \/ Sound(rc, master.temp, sending)
    BY <1>2 DEF IInv, Command, Overtakes
  <1>3. ASSUME Command, NEW type \in Kinds \cup {"none"}, NEW temp \in Told,
               rc' = SetRemoteTemp(rc, type, temp)
        PROVE  rc' \in Remotes /\ (~rushed' => Sound(rc', master.temp, sending))
    <2>1. rc' \in Remotes
      BY <1>1, <1>3, SetRemoteTempType
    <2>2. ASSUME ~rushed', SetUpAnew PROVE Sound(rc', master.temp, sending)
      BY <1>1, <1>2, <1>3, <2>2, SetUpSound DEF SetUpAnew
    <2>3. ASSUME ~rushed', Sound(rc, master.temp, sending) PROVE Sound(rc', master.temp, sending)
      <3>1. CASE rc.switchOff
        BY <1>2, <1>3, <2>3, <3>1
      <3>2. CASE ~rc.switchOff
        BY <1>1, <1>2, <1>3, <2>3, <3>2, SetRemoteTempSound
      <3> QED BY <3>1, <3>2
    <2> QED BY <1>2, <1>3, <2>1, <2>2, <2>3
  <1>4. ASSUME Command, rc'.temp = rc.temp \/ rc' = rc PROVE ~SetUpAnew
    BY <1>4 DEF SetUpAnew
  <1>5. ASSUME Command, rc' = rc
        PROVE  rc' \in Remotes /\ (~rushed' => Sound(rc', master.temp, sending))
    BY <1>1, <1>2, <1>4, <1>5
  <1>6. CASE \E t \in Told : ThermostatRemoteTemp(t)
    <2> PICK t \in Told : ThermostatRemoteTemp(t)
      BY <1>6
    <2>1. hc' \in [temp : Told, control : Kinds \cup {"other"}]
      BY <1>1 DEF ThermostatRemoteTemp
    <2>2. \/ rc' = SetRemoteTemp(rc, "none", None)
          \/ hc.control \in Kinds /\ rc' = SetRemoteTemp(rc, hc.control, t)
      BY <1>1 DEF ThermostatRemoteTemp
    <2>3. Command
      BY DEF ThermostatRemoteTemp
    <2>4. rc' \in Remotes /\ (~rushed' => Sound(rc', master.temp, sending))
      BY <1>1, <1>3, <2>2, <2>3
    <2> QED BY <2>1, <2>3, <2>4, CommandKeeps
  <1>7. CASE \E h \in Air : ThermostatRemoteHum(h)
    <2> PICK h \in Air : ThermostatRemoteHum(h)
      BY <1>7
    <2>1. PICK g \in Air : rc' = rc \/ rc' = SetRemoteHum(rc, "humid", g)
      BY <1>1 DEF ThermostatRemoteHum
    <2>2. Command /\ hc' = hc
      BY DEF ThermostatRemoteHum
    <2>3. SetRemoteHum(rc, "humid", g) \in Remotes /\ SetRemoteHum(rc, "humid", g).temp = rc.temp
      BY <1>1, SetRemoteHumType DEF Kinds
    <2>4. ASSUME ~rushed', rc' = SetRemoteHum(rc, "humid", g)
          PROVE  Sound(rc', master.temp, sending)
      <3>1. ~SetUpAnew
        BY <1>4, <2>2, <2>3, <2>4
      <3>2. Sound(rc, master.temp, sending) /\ (rc.switchOff => rc' = rc)
        BY <1>2, <2>2, <2>4, <3>1
      <3>3. CASE rc.switchOff
        BY <3>2, <3>3
      <3>4. CASE ~rc.switchOff
        BY <1>1, <2>4, <3>2, <3>4, SetRemoteHumSound
      <3> QED BY <3>3, <3>4
    <2>5. rc' \in Remotes /\ (~rushed' => Sound(rc', master.temp, sending))
      BY <1>5, <2>1, <2>2, <2>3, <2>4
    <2> QED BY <1>1, <2>2, <2>5, CommandKeeps
  <1>8. CASE \E c \in Kinds \cup {"other"}, off \in BOOLEAN : ThermostatControl(c, off)
    <2> PICK c \in Kinds \cup {"other"}, off \in BOOLEAN : ThermostatControl(c, off)
      BY <1>8
    <2>1. hc' \in [temp : Told, control : Kinds \cup {"other"}]
      BY <1>1 DEF ThermostatControl
    <2>2. \/ rc' = rc
          \/ rc' = SetRemoteTemp(rc, "none", None)
          \/ c \in Kinds /\ rc' = SetRemoteTemp(rc, c, hc.temp)
      BY DEF ThermostatControl
    <2>3. Command
      BY DEF ThermostatControl
    <2>4. rc' \in Remotes /\ (~rushed' => Sound(rc', master.temp, sending))
      BY <1>1, <1>3, <1>5, <2>2, <2>3
    <2> QED BY <2>1, <2>3, <2>4, CommandKeeps
  <1> QED BY <1>6, <1>7, <1>8

LEMMA ReportedKeeps ==
    ASSUME IInv, NEW c \in Kinds \cup {"other"}, ControlReported(c) PROVE IInv'
  <1>1. hc' \in [temp : Temps \cup {None}, control : Kinds \cup {"other"}]
    BY DEF IInv, RoomTypeOK, ControlReported
  <1>2. commands' \in 0 .. MaxCommands
    BY RoomAssumption DEF IInv, RoomTypeOK, ControlReported
  <1>3. ~rushed' => Sound(rc', master'.temp, sending')
    BY DEF IInv, ControlReported
  <1> QED
    BY <1>1, <1>2, <1>3 DEF IInv, RoomTypeOK, ControlReported

LEMMA TimeKeeps ==
    ASSUME IInv, IntervalOver \/ TimeoutOver PROVE IInv'
  <1>1. rc' \in Remotes
    <2>1. rc \in Remotes /\ rc' \in {[rc EXCEPT !.due = TRUE], [rc EXCEPT !.expired = TRUE]}
      BY DEF IInv, RoomTypeOK, IntervalOver, TimeoutOver, Passes
    <2> QED BY <2>1 DEF Remotes
  <1>2. /\ rc'.switchOff = rc.switchOff /\ rc'.type = rc.type
        /\ rc'.temp = rc.temp /\ rc'.hum = rc.hum /\ rc'.next = rc.next
    BY DEF IInv, RoomTypeOK, IntervalOver, TimeoutOver, Passes, Remotes
  <1>3. ~rushed => Sound(rc', master.temp, sending)
    BY <1>2 DEF IInv, Sound
  <1> QED
    BY <1>1, <1>2, <1>3 DEF IInv, RoomTypeOK, IntervalOver, TimeoutOver, Passes

LEMMA NextKeeps == IInv /\ [Next]_vars => IInv'
  <1> SUFFICES ASSUME IInv, [Next]_vars PROVE IInv'
    OBVIOUS
  <1>1. CASE Poll
    BY <1>1, PollKeeps
  <1>2. CASE Read \/ Sent
    BY <1>2, ReadKeeps, SentKeeps
  <1>3. CASE \/ \E t \in Told : ThermostatRemoteTemp(t)
             \/ \E h \in Air : ThermostatRemoteHum(h)
             \/ \E c \in Kinds \cup {"other"}, off \in BOOLEAN : ThermostatControl(c, off)
    BY <1>3, CommandsKeep
  <1>4. CASE \E c \in Kinds \cup {"other"} : ControlReported(c)
    BY <1>4, ReportedKeeps
  <1>5. CASE IntervalOver \/ TimeoutOver
    BY <1>5, TimeKeeps
  <1>6. CASE UNCHANGED vars
    BY <1>6 DEF vars, IInv, RoomTypeOK, Sound
  <1> QED BY <1>1, <1>2, <1>3, <1>4, <1>5, <1>6 DEF Next, Told, Air

LEMMA Invariant == Spec => []IInv
  BY InitHolds, NextKeeps, PTL DEF Spec

-----------------------------------------------------------------------------
(* The members of the remote hold values of their types. *)
THEOREM RoomTypesCorrect == Spec => []RoomTypeOK
  <1>1. IInv => RoomTypeOK
    BY DEF IInv
  <1> QED BY <1>1, Invariant, PTL

(* A remote that has a temperature is answered for: is_remote agrees with get_hc, *)
(* unless a command overtook its switch-off.                                     *)
THEOREM TemperatureIsServed == Spec => []RemoteServed
  <1>1. IInv => RemoteServed
    BY DEF IInv, RemoteServed, Sound
  <1> QED BY <1>1, Invariant, PTL

(* The address of a remote is only freed when the master knows that it has no *)
(* temperature any more, whatever runs while a telegram is transmitted, with   *)
(* the exceptions that Overtakes lists: a change of a remote that is being     *)
(* switched off, and a switch-off while the answer to a poll is on its way.    *)
THEOREM MasterIsTold == Spec => []OffReachesMaster
  <1>1. IInv => OffReachesMaster
    BY DEF IInv, OffReachesMaster, Sound
  <1> QED BY <1>1, Invariant, PTL
=============================================================================
