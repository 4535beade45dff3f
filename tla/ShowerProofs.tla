---------------------------- MODULE ShowerProofs ----------------------------
(***************************************************************************)
(* Proof that the members of Shower agree with each other for every choice *)
(* of the times, and wherever the showertimer and coldshot commands fall.  *)
(***************************************************************************)
EXTENDS Shower, TLAPS

(* StatesAgree speaks of two instants; that they are numbers is all of the   *)
(* typing it needs.                                                          *)
Ages == age \in Nat /\ pausedAge \in Nat

IInv == Ages /\ StatesAgree

LEMMA MaxAgeType == MaxAge \in Nat
  BY ShowerAssumption

LEMMA LaterType ==
    ASSUME NEW t \in Nat
    PROVE  Later(t) \in Nat /\ t <= Later(t)
  BY MaxAgeType DEF Later

LEMMA InitHolds == Init => IInv
  BY DEF Init, IInv, Ages, StatesAgree

(* The branches of loop(): what begins, begins while the timer of the draw    *)
(* runs; what ends the draw ends all of it.                                   *)
LEMMA LoopKeeps ==
    ASSUME IInv, Loop PROVE IInv'
  <1>1. CASE WaterStarts
    BY <1>1 DEF WaterStarts, IInv, Ages, StatesAgree
  <1>2. CASE ShowerStarts
    BY <1>2 DEF ShowerStarts, clock, IInv, Ages, StatesAgree
  <1>3. CASE ColdShotStarts
    BY <1>3 DEF ColdShotStarts, IInv, Ages, StatesAgree
  <1>4. CASE PauseStarts
    BY <1>4 DEF PauseStarts, IInv, Ages, StatesAgree
  <1>5. CASE ShowerEnds
    BY <1>5 DEF ShowerEnds, clock, IInv, Ages, StatesAgree
  <1>6. CASE ColdShotStops
    BY <1>6 DEF ColdShotStops, clock, IInv, Ages, StatesAgree
  <1> QED BY <1>1, <1>2, <1>3, <1>4, <1>5, <1>6 DEF Loop

LEMMA CommandsKeep ==
    ASSUME IInv, ForceColdShot \/ SetTimer \/ TapWater PROVE IInv'
  <1>1. UNCHANGED <<timing, paused, pausedAge, shower, cold, age>>
    BY DEF ForceColdShot, SetTimer, TapWater, clock
  <1> QED BY <1>1 DEF IInv, Ages, StatesAgree

LEMMA SecondKeeps ==
    ASSUME IInv, Second PROVE IInv'
  <1>1. age' \in Nat /\ age <= age'
    BY LaterType DEF Second, IInv, Ages
  <1>2. UNCHANGED <<timing, paused, pausedAge, shower, cold>>
    BY DEF Second
  <1>3. paused' => pausedAge' <= age'
    BY <1>1, <1>2 DEF IInv, Ages, StatesAgree
  <1>4. shower' \/ cold' \/ paused' => timing'
    BY <1>2 DEF IInv, StatesAgree
  <1> QED BY <1>1, <1>2, <1>3, <1>4 DEF IInv, Ages, StatesAgree

(* Whatever times are configured and however often the timer is switched off  *)
(* and on in the middle of a draw, shower_active and shower_data belong to    *)
(* one draw of water (see StatesAgree).                                       *)
THEOREM OneDrawAtATime == Spec => []StatesAgree
  <1>1. IInv /\ [Next]_vars => IInv'
    <2> SUFFICES ASSUME IInv, [Next]_vars PROVE IInv'
      OBVIOUS
    <2>1. CASE Next
      BY <2>1, LoopKeeps, CommandsKeep, SecondKeeps DEF Next
    <2>2. CASE UNCHANGED vars
      BY <2>2 DEF vars, clock, IInv, Ages, StatesAgree
    <2> QED BY <2>1, <2>2
  <1>2. IInv => StatesAgree
    BY DEF IInv
  <1> QED BY InitHolds, <1>1, <1>2, PTL DEF Spec
=============================================================================
