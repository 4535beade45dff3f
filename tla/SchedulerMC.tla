---------------------------- MODULE SchedulerMC ----------------------------
(***************************************************************************)
(* Instances of Scheduler for TLC: a start-up, a condition and an on-change *)
(* schedule whose commands fetch from a server, write the entity that       *)
(* triggers the third, or do neither.                                       *)
(***************************************************************************)
EXTENDS Scheduler

CONSTANTS fetch, set, plain, boot, cond, change, other, entity, hot

Item(name, kind, arg, cmd, active) ==
    [name |-> name, kind |-> kind, arg |-> arg, cmd |-> cmd,
     active |-> active, retry |-> NoRetry]

CommandsMC   == {fetch, set, plain}
OffloadedMC  == {fetch}
EntitiesMC   == {entity}
WrittenMC    == [c \in CommandsMC |-> IF c = set THEN entity ELSE None]
ConditionsMC == {hot}

ListsMC == {
    <<Item(boot, "startup", None, fetch, TRUE), Item(cond, "condition", hot, fetch, TRUE)>>,
    <<Item(cond, "condition", hot, set, TRUE), Item(change, "onchange", entity, plain, TRUE)>>,
    <<Item(boot, "startup", None, plain, TRUE), Item(other, "interval", 2, fetch, TRUE),
      Item(change, "calendar", 2, plain, TRUE)>>}
=============================================================================
