------------------------------- MODULE Shower -------------------------------
(***************************************************************************)
(* The shower timer and its alert, class Shower.  The boiler's telegrams   *)
(* tell whether hot tap water is drawn; Shower::loop recognises a shower   *)
(* from the time the water runs, ends it after a pause, and on a shower    *)
(* that is too long, or on command, switches the hot water off for a short *)
(* "cold shot".                                                            *)
(*                                                                         *)
(* The code keeps instants of the uptime; here each is the time elapsed    *)
(* since, which stops counting at MaxAge.                                  *)
(***************************************************************************)
EXTENDS Naturals

CONSTANTS
    PauseTime,    \* SHOWER_PAUSE_TIME
    OffsetTime,   \* SHOWER_OFFSET_TIME
    MinDuration,  \* shower_min_duration_
    Alert,        \* shower_alert_
    Trigger,      \* shower_alert_trigger_
    ColdShot,     \* shower_alert_coldshot_
    MaxAge,       \* elapsed times are told apart up to here (bound)
    TimerModes,   \* values the showertimer command may set
    Forcing       \* is the coldshot command used

ASSUME ShowerAssumption ==
    /\ {PauseTime, OffsetTime, MinDuration, Trigger, ColdShot} \subseteq Nat
    /\ MaxAge \in Nat /\ MaxAge > Trigger + MinDuration + PauseTime + ColdShot
    /\ TimerModes \subseteq BOOLEAN /\ Forcing \in BOOLEAN /\ Alert \in BOOLEAN

VARIABLES
    timer,      \* shower_timer_
    tap,        \* EMSESP::tap_water_active_
    timing,     \* timer_start_ # 0
    age,        \* time since timer_start_
    paused,     \* timer_pause_ # 0
    pausedAge,  \* timer_pause_ - timer_start_
    pauseFor,   \* time since timer_pause_
    shower,     \* shower_state_
    cold,       \* doing_cold_shot_
    coldFor,    \* time since alert_timer_start_
    nextAlert,  \* next_alert_
    force       \* force_coldshot

clock == <<age, pauseFor, coldFor>>
vars  == <<timer, tap, timing, paused, pausedAge, shower, cold, nextAlert, force, clock>>

Init ==
    /\ timer = TRUE /\ tap = FALSE
    /\ timing = FALSE /\ age = 0 /\ paused = FALSE /\ pausedAge = 0 /\ pauseFor = 0
    /\ shower = FALSE /\ cold = FALSE /\ coldFor = 0 /\ nextAlert = 0 /\ force = FALSE

-----------------------------------------------------------------------------
(* Shower::loop, one action per branch.                                     *)

WaterStarts ==
    /\ timer /\ ~cold /\ tap /\ ~timing
    /\ timing' = TRUE /\ age' = 0
    /\ paused' = FALSE /\ shower' = FALSE /\ nextAlert' = Trigger
    /\ UNCHANGED <<timer, tap, pausedAge, pauseFor, cold, coldFor, force>>

ShowerStarts ==
    /\ timer /\ ~cold /\ tap /\ timing
    /\ ~shower /\ age > MinDuration
    /\ shower' = TRUE
    /\ UNCHANGED <<timer, tap, timing, paused, pausedAge, cold, nextAlert, force, clock>>

ColdShotStarts ==
    /\ timer /\ ~cold /\ tap /\ timing
    /\ shower \/ age <= MinDuration
    /\ (Alert /\ age > nextAlert) \/ force
    /\ cold' = TRUE /\ force' = FALSE /\ coldFor' = 0
    /\ UNCHANGED <<timer, tap, timing, paused, pausedAge, shower, nextAlert, age, pauseFor>>

PauseStarts ==
    /\ timer /\ ~cold /\ ~tap /\ timing /\ ~paused
    /\ paused' = TRUE /\ pausedAge' = age /\ pauseFor' = 0
    /\ UNCHANGED <<timer, tap, timing, shower, cold, nextAlert, force, age, coldFor>>

Reported == pausedAge > OffsetTime /\ pausedAge - OffsetTime > MinDuration

EndsInPause ==                   \* mutant: the pause is not reset
    /\ timer /\ ~cold /\ ~tap /\ paused /\ pauseFor > PauseTime
    /\ timing' = FALSE /\ shower' = FALSE
    /\ UNCHANGED <<timer, tap, paused, pausedAge, cold, nextAlert, force, clock>>

EndsIfReported ==                \* mutant: a short draw is never ended
    /\ timer /\ ~cold /\ ~tap /\ paused /\ pauseFor > PauseTime /\ Reported
    /\ timing' = FALSE /\ paused' = FALSE /\ shower' = FALSE
    /\ UNCHANGED <<timer, tap, pausedAge, cold, nextAlert, force, clock>>

ShowerEnds ==                    \* published as shower_data if Reported
    /\ timer /\ ~cold /\ ~tap /\ paused /\ pauseFor > PauseTime
    /\ timing' = FALSE /\ paused' = FALSE /\ shower' = FALSE
    /\ UNCHANGED <<timer, tap, pausedAge, cold, nextAlert, force, clock>>

StopsIfDrawn ==                  \* mutant: only while the tap is open
    /\ timer /\ cold /\ coldFor > ColdShot /\ tap
    /\ cold' = FALSE /\ force' = FALSE
    /\ nextAlert' = IF nextAlert + Trigger < MaxAge THEN nextAlert + Trigger ELSE MaxAge
    /\ UNCHANGED <<timer, tap, timing, paused, pausedAge, shower, clock>>

ColdShotStops ==
    /\ timer /\ cold /\ coldFor > ColdShot
    /\ cold' = FALSE /\ force' = FALSE
    /\ nextAlert' = IF nextAlert + Trigger < MaxAge THEN nextAlert + Trigger ELSE MaxAge
    /\ UNCHANGED <<timer, tap, timing, paused, pausedAge, shower, clock>>

Loop == WaterStarts \/ ShowerStarts \/ ColdShotStarts \/ PauseStarts \/ ShowerEnds \/ ColdShotStops

-----------------------------------------------------------------------------
(* The coldshot and showertimer commands, the boiler's telegrams, time.     *)

ForceColdShot ==
    /\ Forcing
    /\ force' = shower           \* "Coldshot failed. Shower not active"
    /\ UNCHANGED <<timer, tap, timing, paused, pausedAge, shower, cold, nextAlert, clock>>

SetTimer ==
    /\ timer' \in TimerModes
    /\ UNCHANGED <<tap, timing, paused, pausedAge, shower, cold, nextAlert, force, clock>>

TapWater ==
    /\ tap' = ~tap
    /\ UNCHANGED <<timer, timing, paused, pausedAge, shower, cold, nextAlert, force,
                   age, pauseFor, coldFor>>

Later(t) == IF t < MaxAge THEN t + 1 ELSE t

Second ==
    /\ age' = IF timing THEN Later(age) ELSE age
    /\ pauseFor' = IF paused THEN Later(pauseFor) ELSE pauseFor
    /\ coldFor' = IF cold THEN Later(coldFor) ELSE coldFor
    /\ UNCHANGED <<timer, tap, timing, paused, pausedAge, shower, cold, nextAlert, force>>

Next == Loop \/ ForceColdShot \/ SetTimer \/ TapWater \/ Second

Spec == Init /\ [][Next]_vars

(* The main loop runs each branch it can take, and time passes.             *)
FairSpec == Spec /\ WF_vars(Loop) /\ WF_vars(Second)

-----------------------------------------------------------------------------
(* A cold shot and the end of a shower exclude each other, a shower is only   *)
(* going on while its timer runs, and a pause is one of a running timer: what *)
(* shower_active and shower_data publish belongs to one draw of water.        *)
StatesAgree ==
    /\ shower \/ cold \/ paused => timing
    /\ paused => pausedAge <= age

(* The hot water a cold shot switched off is switched on again.               *)
HotWaterReturns == cold ~> ~cold

(* A draw of water that stays off comes to its end: shower_active is not left *)
(* on.                                                                        *)
ShowerIsOver == (shower /\ [](~tap)) ~> ~shower

=============================================================================
