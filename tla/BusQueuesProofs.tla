-------------------------- MODULE BusQueuesProofs ---------------------------
(***************************************************************************)
(* Proofs about the shared queues for any number of tasks, requests and    *)
(* frames and any sizes of the queues.  A task that has passed the         *)
(* overflow check and has not yet emplaced counts as one telegram: with it *)
(* the bound on the queue is inductive.                                    *)
(***************************************************************************)
EXTENDS BusQueues, SequenceTheorems, FiniteSetTheorems, TLAPS

TxEnds == {"adding", "queued", "overflow", "expired", "sent", "lost"}
RxEnds == {"queued", "overflow", "processed", "lost"}

Pending   == {a \in Adders : adding[a] # None}
Putting   == IF uart = "putting" THEN 1 ELSE 0
Receiving == IF uart = "receiving" THEN 1 ELSE 0

TxTyped ==
    /\ txFate \in Seq(TxEnds) /\ txq \in Seq(1 .. Len(txFate))
    /\ held \in 1 .. Len(txFate) \cup {None}
    /\ adding \in [Adders -> 1 .. Len(txFate) \cup {None}]
    /\ uart \in {"sending", "expiring", "putting"} => held # None

RxTyped ==
    /\ rxFate \in Seq(RxEnds) /\ rxq \in Seq(1 .. Len(rxFate))
    /\ {working, arriving} \subseteq 1 .. Len(rxFate) \cup {None}
    /\ arriving # None <=> uart = "receiving"
    /\ Len(rxq) + Receiving <= MaxRx

TxBounded == Len(txq) + Cardinality(Pending) + Putting <= MaxTx + Cardinality(Adders)

IInv ==
    /\ uart \in {"idle", "sending", "expiring", "putting", "receiving"}
    /\ disturbed \in BOOLEAN
    /\ TxTyped /\ RxTyped /\ TxBounded

-----------------------------------------------------------------------------
(* Sequences of numbers. *)

LEMMA WiderSeq ==
    ASSUME NEW m \in Nat, NEW n \in Nat, m <= n, NEW q \in Seq(1 .. m)
    PROVE  q \in Seq(1 .. n)
  <1>1. 1 .. m \subseteq 1 .. n
    OBVIOUS
  <1>2. q \in [1 .. Len(q) -> 1 .. m] /\ Len(q) \in Nat
    BY LenProperties
  <1>3. q \in [1 .. Len(q) -> 1 .. n]
    BY <1>1, <1>2
  <1> QED BY <1>2, <1>3, SeqDef

LEMMA WithoutFront ==
    ASSUME NEW S, NEW q \in Seq(S), q # <<>>
    PROVE  /\ Tail(q) \in Seq(S) /\ Head(q) \in S
           /\ Len(Tail(q)) = Len(q) - 1 /\ Len(q) \in Nat \ {0}
  BY HeadTailProperties, EmptySeq, LenProperties

LEMMA WithOneMore ==
    ASSUME NEW S, NEW q \in Seq(S), NEW x \in S
    PROVE  /\ <<x>> \o q \in Seq(S) /\ Append(q, x) \in Seq(S)
           /\ Len(<<x>> \o q) = Len(q) + 1 /\ Len(Append(q, x)) = Len(q) + 1
  <1>1. <<x>> \in Seq(S) /\ Len(<<x>>) = 1
    OBVIOUS
  <1>2. <<x>> \o q \in Seq(S) /\ Len(<<x>> \o q) = 1 + Len(q)
    BY <1>1, ConcatProperties
  <1>3. Append(q, x) \in Seq(S) /\ Len(Append(q, x)) = Len(q) + 1
    BY AppendProperties
  <1> QED BY <1>2, <1>3, LenProperties

LEMMA Updated ==
    ASSUME NEW S, NEW f \in Seq(S), NEW i \in 1 .. Len(f), NEW v \in S
    PROVE  /\ [f EXCEPT ![i] = v] \in Seq(S) /\ Len([f EXCEPT ![i] = v]) = Len(f)
           /\ [f EXCEPT ![i] = v][i] = v
           /\ \A j \in 1 .. Len(f) : j # i => [f EXCEPT ![i] = v][j] = f[j]
  BY ExceptSeq, LenProperties

-----------------------------------------------------------------------------
(* How many tasks are between check and emplace. *)

LEMMA PendingFinite ==
    /\ IsFiniteSet(Pending) /\ Cardinality(Pending) \in Nat
    /\ Cardinality(Adders) \in Nat /\ Cardinality(Pending) <= Cardinality(Adders)
  BY QueuesAssumption, FS_Subset, FS_CardinalityType DEF Pending

LEMMA OneMorePending ==
    ASSUME NEW a \in Adders, NEW n \in 1 .. Len(txFate'), TxTyped, adding[a] = None,
           adding' = [adding EXCEPT ![a] = n], Len(txFate') \in Nat
    PROVE  /\ Cardinality(Pending') = Cardinality(Pending) + 1
           /\ Cardinality(Pending') <= Cardinality(Adders)
  <1>1. n # None
    BY QueuesAssumption
  <1>2. Pending' = Pending \cup {a} /\ a \notin Pending
    BY <1>1 DEF Pending, TxTyped
  <1>3. Pending' \subseteq Adders
    BY DEF Pending
  <1> QED BY <1>2, <1>3, PendingFinite, FS_AddElement, FS_Subset, QueuesAssumption

LEMMA OneLessPending ==
    ASSUME NEW a \in Adders, TxTyped, adding[a] # None,
           adding' = [adding EXCEPT ![a] = None]
    PROVE  Cardinality(Pending') = Cardinality(Pending) - 1
  <1>1. Pending' = Pending \ {a} /\ a \in Pending
    BY DEF Pending, TxTyped
  <1> QED BY <1>1, PendingFinite, FS_RemoveElement

(* A step of one side of the module leaves the other alone. *)
LEMMA RxUntouched ==
    ASSUME RxTyped, UNCHANGED rxVars, uart' = "receiving" <=> uart = "receiving"
    PROVE  RxTyped'
  BY DEF RxTyped, Receiving, rxVars

LEMMA TxUntouched ==
    ASSUME TxTyped, TxBounded, UNCHANGED txVars, uart' \notin {"sending", "expiring", "putting"}
    PROVE  TxTyped' /\ TxBounded'
  <1>1. TxTyped'
    BY DEF TxTyped, txVars
  <1>2. Pending' = Pending /\ Len(txq') = Len(txq) /\ Putting' = 0 /\ Putting \in {0, 1}
    BY DEF Pending, Putting, txVars
  <1>3. Len(txq) \in Nat
    BY LenProperties DEF TxTyped
  <1> QED BY <1>1, <1>2, <1>3, PendingFinite, QueuesAssumption DEF TxBounded

-----------------------------------------------------------------------------
(* The actions. *)

(* What the overflow check leaves, whoever makes it. *)
LEMMA RoomMade ==
    ASSUME IInv
    PROVE  /\ Len(txFate) \in Nat /\ Len(txq) \in Nat
           /\ Dropped \in Seq(TxEnds) /\ Len(Dropped) = Len(txFate)
           /\ Append(Dropped, "adding") \in Seq(TxEnds)
           /\ Len(Append(Dropped, "adding")) = Len(txFate) + 1
           /\ Room \in Seq(1 .. Len(txFate)) /\ Room \in Seq(1 .. Len(txFate) + 1)
           /\ \/ ~Full /\ Room = txq /\ Len(Room) = Len(txq) /\ Len(txq) < MaxTx
              \/ Full /\ Len(Room) = Len(txq) - 1 /\ Len(txq) >= MaxTx
  <1>1. txFate \in Seq(TxEnds) /\ txq \in Seq(1 .. Len(txFate)) /\ Len(txFate) \in Nat
        /\ Len(txq) \in Nat
    BY LenProperties DEF IInv, TxTyped
  <1>2. Full => /\ Head(txq) \in 1 .. Len(txFate) /\ Tail(txq) \in Seq(1 .. Len(txFate))
                /\ Len(Tail(txq)) = Len(txq) - 1
    <2> SUFFICES ASSUME Full PROVE txq # <<>>
      BY <1>1, WithoutFront
    <2> QED BY QueuesAssumption, EmptySeq DEF Full
  <1>3. Dropped \in Seq(TxEnds) /\ Len(Dropped) = Len(txFate)
    <2>1. CASE Full
      <3>1. "overflow" \in TxEnds
        BY DEF TxEnds
      <3> QED BY <1>1, <1>2, <2>1, <3>1, Updated DEF Dropped
    <2>2. CASE ~Full
      BY <1>1, <2>2 DEF Dropped
    <2> QED BY <2>1, <2>2
  <1>4. Append(Dropped, "adding") \in Seq(TxEnds) /\ Len(Append(Dropped, "adding")) = Len(txFate) + 1
    BY <1>3, WithOneMore DEF TxEnds
  <1>5. Room \in Seq(1 .. Len(txFate))
    BY <1>1, <1>2 DEF Room
  <1>6. Room \in Seq(1 .. Len(txFate) + 1)
    BY <1>1, <1>5, WiderSeq
  <1>7. \/ ~Full /\ Room = txq /\ Len(txq) < MaxTx
        \/ Full /\ Len(Room) = Len(txq) - 1 /\ Len(txq) >= MaxTx
    BY <1>1, <1>2, QueuesAssumption DEF Room, Full
  <1> QED BY <1>1, <1>3, <1>4, <1>5, <1>6, <1>7

LEMMA AddRoomKeeps ==
    ASSUME IInv, NEW a \in Adders, AddRoom(a)
    PROVE  /\ IInv'
           /\ \/ Len(txq') = Len(txq)
              \/ Len(txq) >= MaxTx /\ Len(txq') = Len(txq) - 1
  <1> DEFINE n == Len(txFate) + 1
  <1>1. adding[a] = None /\ adding' = [adding EXCEPT ![a] = n] /\ txFate' = Append(Dropped, "adding")
        /\ txq' = Room /\ UNCHANGED <<uart, held, rxVars>>
        /\ disturbed' = (disturbed \/ (Full /\ FrontInUse))
    BY DEF AddRoom
  <1>2. /\ txFate' \in Seq(TxEnds) /\ Len(txFate') = n /\ Len(txFate) \in Nat /\ Len(txq) \in Nat
        /\ txq' \in Seq(1 .. Len(txFate'))
        /\ \/ Len(txq') = Len(txq)
           \/ Len(txq) >= MaxTx /\ Len(txq') = Len(txq) - 1
    BY <1>1, RoomMade
  <1>3. TxTyped'
    <2>1. held' \in 1 .. Len(txFate') \cup {None}
      BY <1>1, <1>2 DEF IInv, TxTyped
    <2>2. adding' \in [Adders -> 1 .. Len(txFate') \cup {None}]
      BY <1>1, <1>2 DEF IInv, TxTyped
    <2> QED BY <1>1, <1>2, <2>1, <2>2 DEF IInv, TxTyped
  <1>4. TxBounded'
    <2>1. Cardinality(Pending') = Cardinality(Pending) + 1 /\ Cardinality(Pending') <= Cardinality(Adders)
      <3>1. n \in 1 .. Len(txFate') /\ Len(txFate') \in Nat
        BY <1>2
      <3> HIDE DEF n
      <3> QED BY <1>1, <3>1, OneMorePending DEF IInv
    <2>2. Putting' = Putting /\ Putting \in {0, 1}
      BY <1>1 DEF Putting
    <2> DEFINE all == Cardinality(Adders)
               p == Cardinality(Pending)
               r == Putting
    <2>3. /\ Len(txq) + p + r <= MaxTx + all /\ MaxTx \in Nat
          /\ p \in Nat /\ all \in Nat /\ r \in {0, 1} /\ p + 1 <= all
      BY <2>1, <2>2, PendingFinite, QueuesAssumption DEF IInv, TxBounded
    <2>4. CASE Len(txq') = Len(txq)
      <3>1. Len(txq) < MaxTx
        BY <1>1, <1>2, <2>4, RoomMade
      <3> HIDE DEF all, p, r
      <3>2. Len(txq') + (p + 1) + r <= MaxTx + all
        BY <1>2, <2>3, <2>4, <3>1
      <3> QED BY <2>1, <2>2, <3>2 DEF TxBounded, all, p, r
    <2>5. CASE Len(txq') = Len(txq) - 1
      <3> HIDE DEF all, p, r
      <3>1. Len(txq') + (p + 1) + r <= MaxTx + all
        BY <1>2, <2>3, <2>5
      <3> QED BY <2>1, <2>2, <3>1 DEF TxBounded, all, p, r
    <2> QED BY <1>2, <2>4, <2>5
  <1>5. RxTyped'
    BY <1>1, RxUntouched DEF IInv
  <1>6. uart' \in {"idle", "sending", "expiring", "putting", "receiving"} /\ disturbed' \in BOOLEAN
    BY <1>1 DEF IInv
  <1> QED BY <1>2, <1>3, <1>4, <1>5, <1>6 DEF IInv

LEMMA AddPutKeeps ==
    ASSUME IInv, NEW a \in Adders, NEW front \in BOOLEAN, AddPut(a, front)
    PROVE  IInv' /\ Len(txq') = Len(txq) + 1
  <1> DEFINE id == adding[a]
  <1>1. id \in 1 .. Len(txFate) /\ txFate \in Seq(TxEnds) /\ txq \in Seq(1 .. Len(txFate))
        /\ Len(txq) \in Nat
    BY LenProperties DEF AddPut, IInv, TxTyped
  <1>2. adding' = [adding EXCEPT ![a] = None] /\ UNCHANGED <<uart, held, rxVars>> /\ adding[a] # None
        /\ txFate' = [txFate EXCEPT ![id] = "queued"]
        /\ txq' \in {<<id>> \o txq, Append(txq, id)}
        /\ disturbed' = (disturbed \/ (front /\ FrontInUse))
    BY DEF AddPut
  <1>3. txFate' \in Seq(TxEnds) /\ Len(txFate') = Len(txFate)
    BY <1>1, <1>2, Updated DEF TxEnds
  <1> HIDE DEF id
  <1>4. txq' \in Seq(1 .. Len(txFate)) /\ Len(txq') = Len(txq) + 1
    <2>1. /\ <<id>> \o txq \in Seq(1 .. Len(txFate)) /\ Append(txq, id) \in Seq(1 .. Len(txFate))
          /\ Len(<<id>> \o txq) = Len(txq) + 1 /\ Len(Append(txq, id)) = Len(txq) + 1
      BY <1>1, WithOneMore
    <2> QED BY <1>2, <2>1
  <1>5. TxTyped'
    <2>1. adding' \in [Adders -> 1 .. Len(txFate') \cup {None}]
      BY <1>2, <1>3 DEF IInv, TxTyped
    <2> QED BY <1>2, <1>3, <1>4, <2>1 DEF IInv, TxTyped
  <1>6. TxBounded'
    <2>1. Cardinality(Pending') = Cardinality(Pending) - 1
      BY <1>2, OneLessPending DEF IInv
    <2>2. Putting' = Putting /\ Putting \in {0, 1}
      BY <1>2 DEF Putting
    <2> QED BY <1>1, <1>4, <2>1, <2>2, PendingFinite, QueuesAssumption DEF IInv, TxBounded
  <1>7. RxTyped'
    BY <1>2, RxUntouched DEF IInv
  <1>8. uart' \in {"idle", "sending", "expiring", "putting", "receiving"} /\ disturbed' \in BOOLEAN
    BY <1>2 DEF IInv
  <1> QED BY <1>4, <1>5, <1>6, <1>7, <1>8 DEF IInv

(* The UART task looks at the front, to send it or to drop it. *)
LEMMA LookKeeps ==
    ASSUME IInv, SendFront \/ FindExpired
    PROVE  IInv' /\ txq # <<>> /\ held' = Head(txq) /\ UNCHANGED <<txq, txFate, adding, disturbed, rxq, working>>
  <1>1. txq # <<>> /\ uart = "idle" /\ uart' \in {"sending", "expiring"} /\ held' = Head(txq)
        /\ UNCHANGED <<txq, adding, txFate, rxVars, disturbed>>
    BY DEF SendFront, FindExpired
  <1>2. held' \in 1 .. Len(txFate)
    BY <1>1, WithoutFront DEF IInv, TxTyped
  <1>3. held' # None
    BY <1>2, QueuesAssumption
  <1>4. TxTyped'
    BY <1>1, <1>2, <1>3 DEF IInv, TxTyped
  <1>5. TxBounded'
    BY <1>1 DEF IInv, TxBounded, Pending, Putting
  <1>6. RxTyped'
    BY <1>1, RxUntouched DEF IInv
  <1> QED BY <1>1, <1>4, <1>5, <1>6 DEF IInv, rxVars

LEMMA PopSentKeeps ==
    ASSUME IInv, PopSent
    PROVE  IInv' /\ UNCHANGED <<rxq, working>>
  <1> DEFINE f == [txFate EXCEPT ![held] = "sent"]
             v == IF Head(txq) = held THEN "sent" ELSE "lost"
  <1>1. txq # <<>> /\ uart = "sending" /\ uart' = "idle" /\ txq' = Tail(txq)
        /\ txFate' = [f EXCEPT ![Head(txq)] = v] /\ UNCHANGED <<held, adding, rxVars, disturbed>>
    BY DEF PopSent
  <1>2. txFate \in Seq(TxEnds) /\ Len(txFate) \in Nat /\ held \in 1 .. Len(txFate)
    BY <1>1, LenProperties DEF IInv, TxTyped
  <1>3. Head(txq) \in 1 .. Len(txFate) /\ Tail(txq) \in Seq(1 .. Len(txFate))
        /\ Len(Tail(txq)) = Len(txq) - 1 /\ Len(txq) \in Nat
    BY <1>1, WithoutFront DEF IInv, TxTyped
  <1>4. f \in Seq(TxEnds) /\ Len(f) = Len(txFate)
    BY <1>2, Updated DEF TxEnds
  <1>5. v \in TxEnds
    BY DEF TxEnds
  <1> HIDE DEF f, v
  <1>6. txFate' \in Seq(TxEnds) /\ Len(txFate') = Len(txFate)
    BY <1>1, <1>3, <1>4, <1>5, Updated
  <1>7. TxTyped'
    BY <1>1, <1>3, <1>6 DEF IInv, TxTyped
  <1>8. TxBounded'
    <2>1. Pending' = Pending /\ Putting' = 0 /\ Putting = 0
      BY <1>1 DEF Pending, Putting
    <2> QED BY <1>1, <1>3, <2>1, PendingFinite, QueuesAssumption DEF IInv, TxBounded
  <1>9. RxTyped'
    BY <1>1, RxUntouched DEF IInv
  <1> QED BY <1>1, <1>7, <1>8, <1>9 DEF IInv, rxVars

LEMMA PopExpiredKeeps ==
    ASSUME IInv, PopExpired
    PROVE  IInv' /\ UNCHANGED <<rxq, working>>
  <1> DEFINE v == IF Head(txq) = held THEN "expired" ELSE "lost"
  <1>1. txq # <<>> /\ uart = "expiring" /\ uart' = "idle" /\ txq' = Tail(txq) /\ held' = None
        /\ txFate' = [txFate EXCEPT ![Head(txq)] = v] /\ UNCHANGED <<adding, rxVars, disturbed>>
    BY DEF PopExpired
  <1>2. Head(txq) \in 1 .. Len(txFate) /\ Tail(txq) \in Seq(1 .. Len(txFate))
        /\ Len(Tail(txq)) = Len(txq) - 1 /\ Len(txq) \in Nat /\ txFate \in Seq(TxEnds)
    BY <1>1, WithoutFront DEF IInv, TxTyped
  <1>3. v \in TxEnds
    BY DEF TxEnds
  <1> HIDE DEF v
  <1>4. txFate' \in Seq(TxEnds) /\ Len(txFate') = Len(txFate)
    BY <1>1, <1>2, <1>3, Updated
  <1>5. TxTyped'
    BY <1>1, <1>2, <1>4 DEF IInv, TxTyped
  <1>6. TxBounded'
    <2>1. Pending' = Pending /\ Putting' = 0 /\ Putting = 0
      BY <1>1 DEF Pending, Putting
    <2> QED BY <1>1, <1>2, <2>1, PendingFinite, QueuesAssumption DEF IInv, TxBounded
  <1>7. RxTyped'
    BY <1>1, RxUntouched DEF IInv
  <1> QED BY <1>1, <1>5, <1>6, <1>7 DEF IInv, rxVars

LEMMA AnsweredKeeps ==
    ASSUME IInv, Answered
    PROVE  IInv' /\ UNCHANGED <<uart, txq, rxq, working>>
  <1>1. uart = "idle" /\ held' = None /\ UNCHANGED <<txq, uart, adding, txFate, rxVars, disturbed>>
    BY DEF Answered
  <1>2. TxTyped'
    BY <1>1 DEF IInv, TxTyped
  <1>3. TxBounded'
    BY <1>1 DEF IInv, TxBounded, Pending, Putting
  <1>4. RxTyped'
    BY <1>1, RxUntouched DEF IInv
  <1> QED BY <1>1, <1>2, <1>3, <1>4 DEF IInv, rxVars

(* The check of a follow-up read reserves the place of its emplace_front. *)
LEMMA AskMoreKeeps ==
    ASSUME IInv, AskMore
    PROVE  IInv' /\ UNCHANGED <<rxq, working>>
  <1> DEFINE n == Len(txFate) + 1
  <1>1. uart = "idle" /\ uart' = "putting" /\ held' = n /\ txFate' = Append(Dropped, "adding")
        /\ txq' = Room /\ UNCHANGED <<adding, rxVars, disturbed>>
    BY DEF AskMore
  <1>2. /\ txFate' \in Seq(TxEnds) /\ Len(txFate') = n /\ Len(txFate) \in Nat /\ Len(txq) \in Nat
        /\ txq' \in Seq(1 .. Len(txFate'))
        /\ \/ Len(txq') = Len(txq) /\ Len(txq) < MaxTx
           \/ Len(txq') = Len(txq) - 1
    BY <1>1, RoomMade
  <1>3. n \in 1 .. Len(txFate') /\ n # None
    BY <1>2, QueuesAssumption
  <1>4. adding' \in [Adders -> 1 .. Len(txFate') \cup {None}]
    <2>1. 1 .. Len(txFate) \subseteq 1 .. Len(txFate')
      BY <1>2
    <2> QED BY <1>1, <2>1 DEF IInv, TxTyped
  <1> HIDE DEF n
  <1>5. TxTyped'
    BY <1>1, <1>2, <1>3, <1>4 DEF TxTyped
  <1>6. TxBounded'
    <2>1. Pending' = Pending /\ Putting = 0 /\ Putting' = 1
      BY <1>1 DEF Pending, Putting
    <2> DEFINE all == Cardinality(Adders)
               p == Cardinality(Pending)
    <2>2. Len(txq) + p + 0 <= MaxTx + all /\ MaxTx \in Nat /\ p \in Nat /\ all \in Nat /\ p <= all
      BY <2>1, PendingFinite, QueuesAssumption DEF IInv, TxBounded
    <2> HIDE DEF all, p
    <2>3. Len(txq') + p + 1 <= MaxTx + all
      BY <1>2, <2>2
    <2> QED BY <2>1, <2>3 DEF TxBounded, all, p
  <1>7. RxTyped'
    BY <1>1, RxUntouched DEF IInv
  <1> QED BY <1>1, <1>5, <1>6, <1>7 DEF IInv, rxVars

(* So does the check of retry_tx. *)
LEMMA RetryRoomKeeps ==
    ASSUME IInv, RetryRoom
    PROVE  IInv' /\ uart' \in {"idle", "putting"} /\ UNCHANGED <<rxq, working>>
  <1>1. uart = "idle" /\ held # None /\ UNCHANGED <<txq, adding, txFate, rxVars, disturbed>>
        /\ \/ uart' = "idle" /\ held' = None
           \/ uart' = "putting" /\ held' = held /\ ~(Len(txq) >= MaxTx)
    BY DEF RetryRoom, Full
  <1>2. TxTyped'
    BY <1>1 DEF IInv, TxTyped
  <1>3. TxBounded'
    <2>1. Pending' = Pending /\ Putting = 0
      BY <1>1 DEF Pending, Putting
    <2>2. Len(txq) \in Nat
      BY LenProperties DEF IInv, TxTyped
    <2>3. CASE uart' = "idle"
      <3>1. Putting' = 0
        BY <2>3 DEF Putting
      <3> QED BY <1>1, <2>1, <3>1 DEF IInv, TxBounded
    <2>4. CASE uart' = "putting" /\ ~(Len(txq) >= MaxTx)
      <3>1. Putting' = 1
        BY <2>4 DEF Putting
      <3> QED BY <1>1, <2>1, <2>2, <2>4, <3>1, PendingFinite, QueuesAssumption DEF TxBounded
    <2> QED BY <1>1, <2>3, <2>4
  <1>4. RxTyped'
    BY <1>1, RxUntouched DEF IInv
  <1> QED BY <1>1, <1>2, <1>3, <1>4 DEF IInv, rxVars

LEMMA PutInFrontKeeps ==
    ASSUME IInv, PutInFront
    PROVE  IInv' /\ uart' = "idle" /\ UNCHANGED <<rxq, working>>
  <1>1. uart = "putting" /\ uart' = "idle" /\ held' = None /\ txq' = <<held>> \o txq
        /\ txFate' = [txFate EXCEPT ![held] = "queued"] /\ UNCHANGED <<adding, rxVars, disturbed>>
    BY DEF PutInFront
  <1>2. txFate \in Seq(TxEnds) /\ held \in 1 .. Len(txFate) /\ txq \in Seq(1 .. Len(txFate))
        /\ Len(txq) \in Nat
    BY <1>1, LenProperties DEF IInv, TxTyped
  <1>3. txFate' \in Seq(TxEnds) /\ Len(txFate') = Len(txFate)
    BY <1>1, <1>2, Updated DEF TxEnds
  <1>4. txq' \in Seq(1 .. Len(txFate)) /\ Len(txq') = Len(txq) + 1
    BY <1>1, <1>2, WithOneMore
  <1>5. TxTyped'
    BY <1>1, <1>3, <1>4 DEF IInv, TxTyped
  <1>6. TxBounded'
    <2>1. Pending' = Pending /\ Putting = 1 /\ Putting' = 0
      BY <1>1 DEF Pending, Putting
    <2> QED BY <1>2, <1>4, <2>1, PendingFinite, QueuesAssumption DEF IInv, TxBounded
  <1>7. RxTyped'
    BY <1>1, RxUntouched DEF IInv
  <1> QED BY <1>1, <1>5, <1>6, <1>7 DEF IInv, rxVars

-----------------------------------------------------------------------------
(* The Rx queue. *)

LEMMA ReceiveRoomKeeps ==
    ASSUME IInv, ReceiveRoom
    PROVE  /\ IInv' /\ uart' = "receiving" /\ UNCHANGED <<txq, txFate, working>>
           /\ \/ Len(rxq') = Len(rxq)
              \/ Len(rxq) >= MaxRx /\ Len(rxq') = Len(rxq) - 1
  <1> DEFINE full == Len(rxq) >= MaxRx
             f == IF full /\ rxFate[Head(rxq)] = "queued"
                  THEN [rxFate EXCEPT ![Head(rxq)] = "overflow"] ELSE rxFate
             n == Len(rxFate) + 1
  <1>1. uart = "idle" /\ uart' = "receiving" /\ arriving' = n
        /\ rxq' = (IF full THEN Tail(rxq) ELSE rxq) /\ rxFate' = Append(f, "queued")
        /\ UNCHANGED <<txVars, working, disturbed>>
    BY DEF ReceiveRoom
  <1>2. rxFate \in Seq(RxEnds) /\ rxq \in Seq(1 .. Len(rxFate)) /\ Len(rxFate) \in Nat
        /\ Len(rxq) \in Nat /\ Len(rxq) <= MaxRx
    BY <1>1, LenProperties, QueuesAssumption DEF IInv, RxTyped, Receiving
  <1>3. full => /\ Head(rxq) \in 1 .. Len(rxFate) /\ Tail(rxq) \in Seq(1 .. Len(rxFate))
                /\ Len(Tail(rxq)) = Len(rxq) - 1
    <2> SUFFICES ASSUME full PROVE rxq # <<>>
      BY <1>2, WithoutFront
    <2> QED BY QueuesAssumption, EmptySeq
  <1>4. f \in Seq(RxEnds) /\ Len(f) = Len(rxFate)
    <2>1. "overflow" \in RxEnds
      BY DEF RxEnds
    <2>2. full => /\ [rxFate EXCEPT ![Head(rxq)] = "overflow"] \in Seq(RxEnds)
                  /\ Len([rxFate EXCEPT ![Head(rxq)] = "overflow"]) = Len(rxFate)
      BY <1>2, <1>3, <2>1, Updated
    <2> QED BY <1>2, <2>2
  <1> HIDE DEF f
  <1>5. rxFate' \in Seq(RxEnds) /\ Len(rxFate') = n
    BY <1>1, <1>4, WithOneMore DEF RxEnds
  <1>6. rxq' \in Seq(1 .. Len(rxFate'))
    <2>1. rxq' \in Seq(1 .. Len(rxFate))
      BY <1>1, <1>2, <1>3
    <2> QED BY <1>2, <1>5, <2>1, WiderSeq
  <1>7. /\ Len(rxq') + 1 <= MaxRx
        /\ \/ Len(rxq') = Len(rxq)
           \/ full /\ Len(rxq') = Len(rxq) - 1
    BY <1>1, <1>2, <1>3, QueuesAssumption
  <1>8. {working', arriving'} \subseteq 1 .. Len(rxFate') \cup {None} /\ arriving' # None
    <2>1. working \in 1 .. Len(rxFate) \cup {None}
      BY DEF IInv, RxTyped
    <2>2. working' \in 1 .. Len(rxFate') \cup {None} /\ arriving' \in 1 .. Len(rxFate')
      BY <1>1, <1>2, <1>5, <2>1
    <2> QED BY <2>2, QueuesAssumption
  <1>9. RxTyped'
    <2>1. Receiving' = 1
      BY <1>1 DEF Receiving
    <2> QED BY <1>1, <1>5, <1>6, <1>7, <1>8, <2>1 DEF RxTyped
  <1>10. TxTyped' /\ TxBounded'
    BY <1>1, TxUntouched DEF IInv
  <1> QED BY <1>1, <1>7, <1>9, <1>10 DEF IInv, txVars

LEMMA ReceivePutKeeps ==
    ASSUME IInv, ReceivePut
    PROVE  IInv' /\ uart' = "idle" /\ UNCHANGED <<txq, txFate, working>> /\ rxq' # <<>>
  <1>1. uart = "receiving" /\ uart' = "idle" /\ rxq' = Append(rxq, arriving) /\ arriving' = None
        /\ UNCHANGED <<txVars, working, rxFate, disturbed>>
    BY DEF ReceivePut
  <1>2. arriving \in 1 .. Len(rxFate) /\ rxq \in Seq(1 .. Len(rxFate)) /\ Len(rxq) \in Nat
        /\ Len(rxq) + 1 <= MaxRx
    BY <1>1, LenProperties DEF IInv, RxTyped, Receiving
  <1>3. rxq' \in Seq(1 .. Len(rxFate)) /\ Len(rxq') = Len(rxq) + 1
    BY <1>1, <1>2, WithOneMore
  <1>4. RxTyped'
    <2>1. Receiving' = 0
      BY <1>1 DEF Receiving
    <2>2. Len(rxq') + Receiving' <= MaxRx
      BY <1>2, <1>3, <2>1
    <2> QED BY <1>1, <1>3, <2>2 DEF IInv, RxTyped
  <1>5. TxTyped' /\ TxBounded'
    BY <1>1, TxUntouched DEF IInv
  <1>6. rxq' # <<>>
    BY <1>2, <1>3, EmptySeq
  <1> QED BY <1>1, <1>4, <1>5, <1>6 DEF IInv, txVars

LEMMA ProcessFrontKeeps ==
    ASSUME IInv, ProcessFront
    PROVE  IInv' /\ rxq # <<>> /\ UNCHANGED <<uart, txVars, rxq>>
  <1>1. working' = Head(rxq) /\ rxq # <<>> /\ rxFate' = [rxFate EXCEPT ![Head(rxq)] = "processed"]
        /\ UNCHANGED <<txVars, uart, rxq, arriving, disturbed>>
    BY DEF ProcessFront
  <1>2. Head(rxq) \in 1 .. Len(rxFate) /\ rxFate \in Seq(RxEnds)
    BY <1>1, WithoutFront DEF IInv, RxTyped
  <1>3. rxFate' \in Seq(RxEnds) /\ Len(rxFate') = Len(rxFate)
    BY <1>1, <1>2, Updated DEF RxEnds
  <1>4. RxTyped'
    BY <1>1, <1>2, <1>3 DEF IInv, RxTyped, Receiving
  <1>5. TxTyped' /\ TxBounded'
    BY <1>1 DEF IInv, TxTyped, TxBounded, Pending, Putting, txVars
  <1> QED BY <1>1, <1>4, <1>5 DEF IInv

LEMMA PopProcessedKeeps ==
    ASSUME IInv, PopProcessed
    PROVE  IInv' /\ working' = None /\ UNCHANGED <<uart, txVars>>
  <1>1. working' = None /\ rxq # <<>> /\ rxq' = Tail(rxq)
        /\ rxFate' \in {rxFate, [rxFate EXCEPT ![Head(rxq)] = "lost"]}
        /\ UNCHANGED <<txVars, uart, arriving, disturbed>>
    BY DEF PopProcessed
  <1>2. Head(rxq) \in 1 .. Len(rxFate) /\ rxFate \in Seq(RxEnds) /\ Tail(rxq) \in Seq(1 .. Len(rxFate))
        /\ Len(Tail(rxq)) = Len(rxq) - 1 /\ Len(rxq) \in Nat
    BY <1>1, WithoutFront DEF IInv, RxTyped
  <1>3. rxFate' \in Seq(RxEnds) /\ Len(rxFate') = Len(rxFate)
    <2>1. "lost" \in RxEnds
      BY DEF RxEnds
    <2>2. /\ [rxFate EXCEPT ![Head(rxq)] = "lost"] \in Seq(RxEnds)
          /\ Len([rxFate EXCEPT ![Head(rxq)] = "lost"]) = Len(rxFate)
      BY <1>2, <2>1, Updated
    <2> QED BY <1>1, <1>2, <2>2
  <1>4. RxTyped'
    <2>1. Receiving' = Receiving /\ Receiving \in {0, 1}
      BY <1>1 DEF Receiving
    <2>2. Len(rxq') + Receiving' <= MaxRx
      BY <1>1, <1>2, <2>1, QueuesAssumption DEF IInv, RxTyped
    <2> QED BY <1>1, <1>2, <1>3, <2>2 DEF IInv, RxTyped
  <1>5. TxTyped' /\ TxBounded'
    BY <1>1 DEF IInv, TxTyped, TxBounded, Pending, Putting, txVars
  <1> QED BY <1>1, <1>4, <1>5 DEF IInv

LEMMA InitHolds == Init => IInv
  <1> SUFFICES ASSUME Init PROVE IInv
    OBVIOUS
  <1>1. Pending = {}
    BY DEF Init, Pending
  <1>2. Cardinality(Pending) = 0
    BY <1>1, FS_EmptySet
  <1>3. <<>> \in Seq(TxEnds) /\ <<>> \in Seq(RxEnds) /\ Len(<<>>) = 0
    BY EmptySeq
  <1>4. txq \in Seq(1 .. Len(txFate)) /\ rxq \in Seq(1 .. Len(rxFate)) /\ Len(txq) = 0 /\ Len(rxq) = 0
    BY EmptySeq DEF Init
  <1>5. TxTyped
    BY <1>3, <1>4 DEF Init, TxTyped
  <1>6. Putting = 0 /\ Receiving = 0
    BY DEF Init, Putting, Receiving
  <1>7. TxBounded
    BY <1>2, <1>4, <1>6, PendingFinite, QueuesAssumption DEF TxBounded
  <1>8. RxTyped
    BY <1>3, <1>4, <1>6, QueuesAssumption DEF Init, RxTyped
  <1> QED BY <1>5, <1>7, <1>8 DEF Init, IInv

LEMMA StutterKeeps == IInv /\ UNCHANGED vars => IInv'
  BY DEF vars, txVars, rxVars, IInv, TxTyped, RxTyped, TxBounded, Pending, Putting, Receiving

LEMMA NextKeeps == IInv /\ [Next]_vars => IInv'
  <1> SUFFICES ASSUME IInv, Next PROVE IInv'
    BY StutterKeeps
  <1>1. CASE UartTask
    BY <1>1, LookKeeps, PopSentKeeps, PopExpiredKeeps, AnsweredKeeps, AskMoreKeeps,
       RetryRoomKeeps, PutInFrontKeeps, ReceiveRoomKeeps, ReceivePutKeeps DEF UartTask
  <1>2. CASE OtherTasks
    BY <1>2, AddRoomKeeps, AddPutKeeps, ProcessFrontKeeps, PopProcessedKeeps DEF OtherTasks
  <1> QED BY <1>1, <1>2 DEF Next

(* However the tasks interleave, on one core or on two, the Tx queue exceeds   *)
(* MAX_TX_TELEGRAMS by at most one telegram per task that queues requests and  *)
(* the Rx queue never exceeds its limit (see TypeOK).                          *)
THEOREM QueuesWithinLimits == Spec => []TypeOK
  <1>1. IInv => TypeOK
    <2> SUFFICES ASSUME IInv PROVE TypeOK
      OBVIOUS
    <2>1. DOMAIN txFate = 1 .. Len(txFate) /\ DOMAIN rxFate = 1 .. Len(rxFate)
      BY LenProperties DEF IInv, TxTyped, RxTyped
    <2>2. Len(txq) \in Nat /\ Len(rxq) \in Nat /\ Putting \in {0, 1} /\ Receiving \in {0, 1}
      BY LenProperties DEF IInv, TxTyped, RxTyped, Putting, Receiving
    <2>3. Len(txq) <= MaxTx + Cardinality(Adders)
      BY <2>2, PendingFinite, QueuesAssumption DEF IInv, TxBounded
    <2>4. Len(rxq) <= MaxRx
      BY <2>2, QueuesAssumption DEF IInv, RxTyped
    <2> QED BY <2>1, <2>3, <2>4 DEF IInv, TxTyped, RxTyped, TypeOK, WithinLimits
  <1> QED BY InitHolds, NextKeeps, <1>1, PTL DEF Spec

-----------------------------------------------------------------------------
(* pop_front. *)

LEMMA LengthTypes ==
    ASSUME IInv
    PROVE  /\ Len(txq) \in Nat /\ (txq = <<>> <=> Len(txq) = 0)
           /\ Len(rxq) \in Nat /\ (rxq = <<>> <=> Len(rxq) = 0)
  BY LenProperties, EmptySeq DEF IInv, TxTyped, RxTyped

(* A queue of at least two never becomes empty between the check for an       *)
(* element and its removal: another task only takes an element out of a full   *)
(* queue, and puts one in (see PopSafe).                                       *)
THEOREM PopFrontIsSafe ==
    ASSUME MaxTx > 1, MaxRx > 1
    PROVE  Spec => []PopSafe
  <1> DEFINE I == IInv /\ PopSafe
  <1>1. Init => I
    BY InitHolds DEF Init, PopSafe, FrontInUse
  <1>2. I /\ [Next]_vars => I'
    <2> SUFFICES ASSUME I, [Next]_vars PROVE PopSafe'
      BY NextKeeps
    <2>1. /\ Len(txq) \in Nat /\ (txq = <<>> <=> Len(txq) = 0)
          /\ Len(rxq) \in Nat /\ (rxq = <<>> <=> Len(rxq) = 0)
      BY LengthTypes
    <2>2. /\ Len(txq') \in Nat /\ (txq' = <<>> <=> Len(txq') = 0)
          /\ Len(rxq') \in Nat /\ (rxq' = <<>> <=> Len(rxq') = 0)
      <3>1. IInv'
        BY NextKeeps
      <3> QED BY <3>1, LenProperties, EmptySeq DEF IInv, TxTyped, RxTyped
    <2>3. ASSUME NEW a \in Adders, AddRoom(a) PROVE PopSafe'
      <3>1. txq # <<>> => txq' # <<>>
        BY <2>1, <2>2, <2>3, AddRoomKeeps, QueuesAssumption
      <3> QED BY <2>3, <3>1 DEF AddRoom, rxVars, PopSafe, FrontInUse
    <2>4. ASSUME NEW a \in Adders, NEW front \in BOOLEAN, AddPut(a, front) PROVE PopSafe'
      <3>1. txq' # <<>>
        BY <2>1, <2>2, <2>4, AddPutKeeps
      <3> QED BY <2>4, <3>1 DEF AddPut, rxVars, PopSafe, FrontInUse
    <2>5. CASE SendFront \/ FindExpired
      BY <2>5, LookKeeps DEF PopSafe
    <2>6. CASE PopSent \/ PopExpired \/ Answered \/ AskMore \/ RetryRoom \/ PutInFront
      <3>1. UNCHANGED <<rxq, working>>
        BY <2>6, PopSentKeeps, PopExpiredKeeps, AnsweredKeeps, AskMoreKeeps, RetryRoomKeeps,
           PutInFrontKeeps
      <3>2. uart' \in {"idle", "putting"}
        BY <2>6, RetryRoomKeeps DEF PopSent, PopExpired, Answered, AskMore, PutInFront
      <3> QED BY <3>1, <3>2 DEF PopSafe, FrontInUse
    <2>7. CASE ReceiveRoom
      <3>1. rxq # <<>> => rxq' # <<>>
        BY <2>1, <2>2, <2>7, ReceiveRoomKeeps, QueuesAssumption
      <3> QED BY <2>7, <3>1, ReceiveRoomKeeps DEF PopSafe, FrontInUse
    <2>8. CASE ReceivePut
      BY <2>8, ReceivePutKeeps DEF PopSafe, FrontInUse
    <2>9. CASE ProcessFront
      BY <2>9, ProcessFrontKeeps DEF PopSafe, FrontInUse, txVars
    <2>10. CASE PopProcessed
      BY <2>10, PopProcessedKeeps DEF PopSafe, FrontInUse, txVars
    <2>11. CASE UNCHANGED vars
      BY <2>11 DEF vars, txVars, rxVars, PopSafe, FrontInUse
    <2> QED BY <2>3, <2>4, <2>5, <2>7, <2>8, <2>9, <2>10, <2>11, <2>6 DEF Next, UartTask, OtherTasks
  <1> QED BY <1>1, <1>2, PTL DEF Spec

-----------------------------------------------------------------------------
(* As long as the front is not replaced under the UART task. *)

NoneLost == \A i \in 1 .. Len(txFate) : txFate[i] # "lost"

FrontIsHeld == FrontInUse => txq # <<>> /\ held = Head(txq)

(* Other tasks then only add at the back while the UART task uses the front. *)
LEMMA FrontStays ==
    ASSUME IInv, FrontIsHeld, [Next]_vars, ~disturbed'
    PROVE  ~disturbed /\ FrontIsHeld'
  <1>1. ASSUME NEW a \in Adders, AddRoom(a) PROVE ~disturbed /\ FrontIsHeld'
    <2>1. ~disturbed /\ ~(Full /\ FrontInUse) /\ txq' = Room /\ UNCHANGED <<uart, held>>
      BY <1>1 DEF AddRoom
    <2>2. FrontInUse' => FrontInUse /\ txq' = txq
      BY <2>1 DEF FrontInUse, Room
    <2> QED BY <2>1, <2>2 DEF FrontIsHeld
  <1>2. ASSUME NEW a \in Adders, NEW front \in BOOLEAN, AddPut(a, front)
        PROVE  ~disturbed /\ FrontIsHeld'
    <2> DEFINE id == adding[a]
    <2>1. ~disturbed /\ ~(front /\ FrontInUse) /\ UNCHANGED <<uart, held>> /\ id # None
          /\ txq' = (IF front THEN <<id>> \o txq ELSE Append(txq, id))
      BY <1>2 DEF AddPut
    <2>2. txq \in Seq(1 .. Len(txFate)) /\ id \in 1 .. Len(txFate)
      BY <2>1 DEF IInv, TxTyped
    <2> HIDE DEF id
    <2>3. ASSUME FrontInUse' PROVE txq' # <<>> /\ held' = Head(txq')
      <3>1. FrontInUse /\ txq' = Append(txq, id) /\ held = Head(txq) /\ txq # <<>> /\ held' = held
        BY <2>1, <2>3 DEF FrontInUse, FrontIsHeld
      <3>2. Head(Append(txq, id)) = Head(txq) /\ Append(txq, id) # <<>>
        <4>1. Len(txq) \in Nat \ {0} /\ Len(Append(txq, id)) = Len(txq) + 1
              /\ Append(txq, id)[1] = txq[1]
          BY <2>2, <3>1, WithoutFront, AppendProperties
        <4>2. Append(txq, id) \in Seq(1 .. Len(txFate))
          BY <2>2, AppendProperties
        <4>3. Append(txq, id) # <<>>
          BY <4>1, EmptySeq
        <4>4. Head(txq) = txq[1] /\ Head(Append(txq, id)) = Append(txq, id)[1]
          BY <2>2, <3>1, <4>2, <4>3, HeadTailProperties
        <4> QED BY <4>1, <4>3, <4>4
      <3> QED BY <3>1, <3>2
    <2> QED BY <2>1, <2>3 DEF FrontIsHeld
  <1>3. CASE SendFront \/ FindExpired
    BY <1>3, LookKeeps DEF FrontIsHeld
  <1>4. CASE PopSent \/ PopExpired \/ Answered \/ AskMore \/ RetryRoom \/ PutInFront
             \/ ReceiveRoom \/ ReceivePut
    <2>1. uart' \in {"idle", "putting", "receiving"} /\ UNCHANGED disturbed
      BY <1>4 DEF PopSent, PopExpired, Answered, AskMore, RetryRoom, PutInFront,
         ReceiveRoom, ReceivePut
    <2> QED BY <2>1 DEF FrontIsHeld, FrontInUse
  <1>5. CASE ProcessFront \/ PopProcessed \/ UNCHANGED vars
    BY <1>5 DEF ProcessFront, PopProcessed, vars, txVars, FrontIsHeld, FrontInUse
  <1> QED BY <1>1, <1>2, <1>3, <1>4, <1>5 DEF Next, UartTask, OtherTasks

LEMMA DisturbedStays ==
    ASSUME [Next]_vars, disturbed
    PROVE  disturbed'
  BY DEF Next, UartTask, OtherTasks, AddRoom, AddPut, SendFront, PopSent, FindExpired, PopExpired,
     Answered, AskMore, RetryRoom, PutInFront, ReceiveRoom, ReceivePut, ProcessFront,
     PopProcessed, vars

LEMMA PopSentTakesFront ==
    ASSUME IInv, FrontIsHeld, NoneLost, PopSent
    PROVE  NoneLost'
  <1> DEFINE f == [txFate EXCEPT ![held] = "sent"]
  <1>1. held = Head(txq) /\ held \in 1 .. Len(txFate) /\ txFate \in Seq(TxEnds)
    BY DEF PopSent, FrontIsHeld, FrontInUse, IInv, TxTyped
  <1>2. txFate' = [f EXCEPT ![held] = "sent"]
    BY <1>1 DEF PopSent
  <1>3. "sent" \in TxEnds
    BY DEF TxEnds
  <1>4. f \in Seq(TxEnds) /\ Len(f) = Len(txFate) /\ f[held] = "sent"
        /\ \A j \in 1 .. Len(txFate) : j # held => f[j] = txFate[j]
    BY <1>1, <1>3, Updated
  <1> HIDE DEF f
  <1>5. Len(txFate') = Len(f) /\ txFate'[held] = "sent"
        /\ \A j \in 1 .. Len(f) : j # held => txFate'[j] = f[j]
    BY <1>1, <1>2, <1>3, <1>4, Updated
  <1> QED BY <1>4, <1>5 DEF NoneLost

(* A new request: the one dropped for it is counted. *)
LEMMA RoomCounted ==
    ASSUME IInv, NoneLost, txFate' = Append(Dropped, "adding")
    PROVE  NoneLost'
  <1>1. txFate \in Seq(TxEnds) /\ Len(txFate) \in Nat
    BY LenProperties DEF IInv, TxTyped
  <1>2. Dropped \in Seq(TxEnds) /\ Len(Dropped) = Len(txFate)
    BY RoomMade
  <1>3. \A i \in 1 .. Len(Dropped) : Dropped[i] # "lost"
    <2>1. CASE Full
      <3>1. txq # <<>>
        BY <2>1, EmptySeq, QueuesAssumption DEF Full
      <3>2. Head(txq) \in 1 .. Len(txFate) /\ "overflow" \in TxEnds
        BY <3>1, WithoutFront DEF IInv, TxTyped, TxEnds
      <3> QED BY <1>1, <2>1, <3>2, Updated DEF NoneLost, Dropped
    <2>2. CASE ~Full
      BY <1>1, <2>2 DEF NoneLost, Dropped
    <2> QED BY <2>1, <2>2
  <1>4. "adding" \in TxEnds
    BY DEF TxEnds
  <1>5. Len(txFate') = Len(Dropped) + 1 /\ txFate'[Len(Dropped) + 1] = "adding"
        /\ \A i \in 1 .. Len(Dropped) : txFate'[i] = Dropped[i]
    BY <1>2, <1>4, AppendProperties
  <1> QED BY <1>1, <1>2, <1>3, <1>5 DEF NoneLost

(* No accepted request disappears unless the front is replaced between the    *)
(* look at it and pop_front: TxService::send removes the telegram it has sent, *)
(* get_send_id the one it looked at (see NothingLost).                         *)
THEOREM RequestsKept == Spec => []NothingLost
  <1> DEFINE I == IInv /\ (~disturbed => FrontIsHeld /\ NoneLost)
  <1>1. Init => I
    BY InitHolds, EmptySeq DEF Init, FrontIsHeld, FrontInUse, NoneLost
  <1>2. I /\ [Next]_vars => I'
    <2> SUFFICES ASSUME I, [Next]_vars, ~disturbed' PROVE FrontIsHeld' /\ NoneLost'
      BY NextKeeps
    <2>1. ~disturbed /\ FrontIsHeld /\ NoneLost /\ FrontIsHeld'
      <3>1. CASE disturbed
        <4>1. disturbed'
          BY <3>1, DisturbedStays
        <4> QED BY <4>1
      <3>2. CASE ~disturbed
        BY <3>2, FrontStays
      <3> QED BY <3>1, <3>2
    <2>2. txFate \in Seq(TxEnds) /\ Len(txFate) \in Nat
      BY LenProperties DEF IInv, TxTyped
    <2>3. ASSUME NEW a \in Adders, AddRoom(a) PROVE NoneLost'
      BY <2>1, <2>3, RoomCounted DEF AddRoom
    <2>4. ASSUME NEW a \in Adders, NEW front \in BOOLEAN, AddPut(a, front) PROVE NoneLost'
      <3>1. adding[a] \in 1 .. Len(txFate) /\ "queued" \in TxEnds
            /\ txFate' = [txFate EXCEPT ![adding[a]] = "queued"]
        BY <2>4 DEF AddPut, IInv, TxTyped, TxEnds
      <3> QED BY <2>1, <2>2, <3>1, Updated DEF NoneLost
    <2>5. CASE SendFront \/ FindExpired
      BY <2>1, <2>5, LookKeeps DEF NoneLost
    <2>6. CASE PopSent
      BY <2>1, <2>6, PopSentTakesFront
    <2>7. CASE PopExpired
      <3>1. held = Head(txq) /\ held \in 1 .. Len(txFate) /\ "expired" \in TxEnds
            /\ txFate' = [txFate EXCEPT ![Head(txq)] = "expired"]
        BY <2>1, <2>7 DEF PopExpired, FrontIsHeld, FrontInUse, IInv, TxTyped, TxEnds
      <3> QED BY <2>1, <2>2, <3>1, Updated DEF NoneLost
    <2>8. CASE AskMore
      BY <2>1, <2>8, RoomCounted DEF AskMore
    <2>9. CASE PutInFront
      <3>1. held \in 1 .. Len(txFate) /\ "queued" \in TxEnds
            /\ txFate' = [txFate EXCEPT ![held] = "queued"]
        BY <2>9 DEF PutInFront, IInv, TxTyped, TxEnds
      <3> QED BY <2>1, <2>2, <3>1, Updated DEF NoneLost
    <2>10. CASE UNCHANGED txFate
      BY <2>1, <2>10 DEF NoneLost
    <2> QED BY <2>1, <2>3, <2>4, <2>5, <2>6, <2>7, <2>8, <2>9, <2>10
        DEF Next, UartTask, OtherTasks, Answered, RetryRoom, ReceiveRoom, ReceivePut,
            ProcessFront, PopProcessed, vars, txVars
  <1>3. I => NothingLost
    <2>1. IInv => DOMAIN txFate = 1 .. Len(txFate)
      BY LenProperties DEF IInv, TxTyped
    <2> QED BY <2>1 DEF NoneLost, NothingLost
  <1> QED BY <1>1, <1>2, <1>3, PTL DEF Spec

(* The requests of queue q are those f says are queued, each at one place.    *)
Once(q, f) ==
    /\ \A i, j \in 1 .. Len(q) : q[i] = q[j] => i = j
    /\ \A u \in 1 .. Len(f) : f[u] = "queued" <=> \E i \in 1 .. Len(q) : q[i] = u

(* A request is queued, being queued by one task, or held by the UART task:   *)
(* never two of them at a time.                                               *)
OnceInv ==
    /\ Once(txq, txFate)
    /\ \A a \in Adders : adding[a] # None =>
          /\ txFate[adding[a]] = "adding"
          /\ \A b \in Adders : adding[b] = adding[a] => b = a
    /\ held # None /\ uart \in {"idle", "receiving"} => txFate[held] = "sent"
    /\ uart = "putting" =>
          /\ txFate[held] \in {"adding", "sent"}
          /\ \A a \in Adders : adding[a] # held

LEMMA OncePop ==
    ASSUME NEW f \in Seq(TxEnds), NEW q \in Seq(1 .. Len(f)), q # <<>>, Once(q, f),
           NEW v \in TxEnds \ {"queued"}
    PROVE  Once(Tail(q), [f EXCEPT ![Head(q)] = v])
  <1> DEFINE g == [f EXCEPT ![Head(q)] = v]
  <1>1. /\ Len(q) \in Nat \ {0} /\ Len(Tail(q)) = Len(q) - 1 /\ Head(q) = q[1]
        /\ \A i \in 1 .. Len(Tail(q)) : Tail(q)[i] = q[i + 1]
        /\ Head(q) \in 1 .. Len(f)
    BY HeadTailProperties, WithoutFront
  <1>2. /\ Len(g) = Len(f) /\ g[q[1]] = v
        /\ \A u \in 1 .. Len(f) : u # q[1] => g[u] = f[u]
    BY <1>1, Updated
  <1> HIDE DEF g
  <1>3. \A i \in 1 .. Len(Tail(q)) : i + 1 \in 1 .. Len(q) /\ i + 1 # 1
    BY <1>1
  <1>4. ASSUME NEW i \in 1 .. Len(q), i # 1
        PROVE  i - 1 \in 1 .. Len(Tail(q)) /\ Tail(q)[i - 1] = q[i]
    BY <1>1, <1>4
  <1>5. \A i, j \in 1 .. Len(Tail(q)) : Tail(q)[i] = Tail(q)[j] => i = j
    BY <1>1, <1>3 DEF Once
  <1>6. ASSUME NEW u \in 1 .. Len(f)
        PROVE  g[u] = "queued" <=> \E i \in 1 .. Len(Tail(q)) : Tail(q)[i] = u
    <2>1. CASE u = q[1]
      BY <1>1, <1>2, <1>3, <2>1 DEF Once
    <2>2. CASE u # q[1]
      <3>1. ASSUME g[u] = "queued" PROVE \E i \in 1 .. Len(Tail(q)) : Tail(q)[i] = u
        <4>1. PICK i \in 1 .. Len(q) : q[i] = u
          BY <1>2, <2>2, <3>1 DEF Once
        <4> QED BY <1>4, <2>2, <4>1
      <3>2. ASSUME NEW i \in 1 .. Len(Tail(q)), Tail(q)[i] = u PROVE g[u] = "queued"
        BY <1>1, <1>2, <1>3, <2>2, <3>2 DEF Once
      <3> QED BY <3>1, <3>2
    <2> QED BY <2>1, <2>2
  <1> QED BY <1>2, <1>5, <1>6 DEF Once, g

LEMMA OncePut ==
    ASSUME NEW f \in Seq(TxEnds), NEW q \in Seq(1 .. Len(f)), Once(q, f),
           NEW u \in 1 .. Len(f), f[u] # "queued"
    PROVE  /\ Once(<<u>> \o q, [f EXCEPT ![u] = "queued"])
           /\ Once(Append(q, u), [f EXCEPT ![u] = "queued"])
  <1> DEFINE g == [f EXCEPT ![u] = "queued"]
             front == <<u>> \o q
             back == Append(q, u)
  <1>1. /\ Len(g) = Len(f) /\ g[u] = "queued" /\ Len(q) \in Nat
        /\ \A w \in 1 .. Len(f) : w # u => g[w] = f[w]
    BY Updated, LenProperties DEF TxEnds
  <1>2. \A i \in 1 .. Len(q) : q[i] # u /\ q[i] \in 1 .. Len(f)
    BY ElementOfSeq DEF Once
  <1> HIDE DEF g
  <1>3. /\ Len(front) = Len(q) + 1 /\ front[1] = u
        /\ \A i \in 1 .. Len(q) : i + 1 \in 1 .. Len(front) /\ front[i + 1] = q[i]
    <2>1. /\ <<u>> \in Seq(1 .. Len(f)) /\ Len(<<u>>) = 1 /\ <<u>>[1] = u
      OBVIOUS
    <2> QED BY <1>1, <2>1, ConcatProperties
  <1>4. /\ Len(back) = Len(q) + 1 /\ back[Len(q) + 1] = u
        /\ \A i \in 1 .. Len(q) : i \in 1 .. Len(back) /\ back[i] = q[i]
    BY <1>1, AppendProperties
  <1> HIDE DEF front, back
  <1>5. \A i \in 1 .. Len(front) : i = 1 \/ (i - 1 \in 1 .. Len(q) /\ front[i] = q[i - 1])
    <2>1. ASSUME NEW i \in 1 .. Len(front), i # 1
          PROVE  i - 1 \in 1 .. Len(q) /\ (i - 1) + 1 = i
      BY <1>1, <1>3, <2>1
    <2> QED BY <1>3, <2>1
  <1>6. \A i \in 1 .. Len(back) : i = Len(q) + 1 \/ i \in 1 .. Len(q)
    BY <1>1, <1>4
  <1>7. \A i, j \in 1 .. Len(front) : front[i] = front[j] => i = j
    <2> SUFFICES ASSUME NEW i \in 1 .. Len(front), NEW j \in 1 .. Len(front), front[i] = front[j]
                 PROVE  i = j
      OBVIOUS
    <2>1. CASE i = 1
      <3>1. j = 1 \/ (j - 1 \in 1 .. Len(q) /\ q[j - 1] = u)
        BY <1>3, <1>5, <2>1
      <3> QED BY <1>2, <2>1, <3>1
    <2>2. CASE j = 1
      <3>1. i = 1 \/ (i - 1 \in 1 .. Len(q) /\ q[i - 1] = u)
        BY <1>3, <1>5, <2>2
      <3> QED BY <1>2, <2>2, <3>1
    <2>3. CASE i # 1 /\ j # 1
      <3>1. i - 1 \in 1 .. Len(q) /\ j - 1 \in 1 .. Len(q) /\ q[i - 1] = q[j - 1]
        BY <1>5, <2>3
      <3>2. i - 1 = j - 1
        BY <3>1 DEF Once
      <3> QED BY <1>1, <1>3, <3>2
    <2> QED BY <2>1, <2>2, <2>3
  <1>8. \A i, j \in 1 .. Len(back) : back[i] = back[j] => i = j
    BY <1>2, <1>4, <1>6 DEF Once
  <1>9. ASSUME NEW w \in 1 .. Len(f)
        PROVE  /\ g[w] = "queued" <=> \E i \in 1 .. Len(front) : front[i] = w
               /\ g[w] = "queued" <=> \E i \in 1 .. Len(back) : back[i] = w
    <2>1. 1 \in 1 .. Len(front) /\ Len(q) + 1 \in 1 .. Len(back)
      BY <1>1, <1>3, <1>4
    <2>2. CASE w = u
      BY <1>1, <1>3, <1>4, <2>1, <2>2
    <2>3. CASE w # u
      <3>1. g[w] = "queued" <=> \E i \in 1 .. Len(q) : q[i] = w
        BY <1>1, <2>3 DEF Once
      <3>2. (\E i \in 1 .. Len(q) : q[i] = w) <=> \E i \in 1 .. Len(front) : front[i] = w
        <4>1. ASSUME NEW i \in 1 .. Len(q), q[i] = w PROVE \E j \in 1 .. Len(front) : front[j] = w
          BY <1>3, <4>1
        <4>2. ASSUME NEW i \in 1 .. Len(front), front[i] = w PROVE \E j \in 1 .. Len(q) : q[j] = w
          BY <1>3, <1>5, <2>3, <4>2
        <4> QED BY <4>1, <4>2
      <3>3. (\E i \in 1 .. Len(q) : q[i] = w) <=> \E i \in 1 .. Len(back) : back[i] = w
        BY <1>4, <1>6, <2>3
      <3> QED BY <3>1, <3>2, <3>3
    <2> QED BY <2>2, <2>3
  <1> QED BY <1>1, <1>7, <1>8, <1>9 DEF Once, g, front, back

LEMMA OnceNew ==
    ASSUME NEW f \in Seq(TxEnds), NEW q \in Seq(1 .. Len(f)), Once(q, f)
    PROVE  Once(q, Append(f, "adding"))
  <1>1. "adding" \in TxEnds /\ Len(f) \in Nat
    BY LenProperties DEF TxEnds
  <1>2. /\ Len(Append(f, "adding")) = Len(f) + 1 /\ Append(f, "adding")[Len(f) + 1] = "adding"
        /\ \A u \in 1 .. Len(f) : Append(f, "adding")[u] = f[u]
    BY <1>1, AppendProperties
  <1>3. \A i \in 1 .. Len(q) : q[i] \in 1 .. Len(f)
    BY ElementOfSeq
  <1>4. \A u \in 1 .. Len(f) + 1 : u \in 1 .. Len(f) \/ u = Len(f) + 1
    BY <1>1
  <1>5. Len(f) + 1 \notin 1 .. Len(f)
    BY <1>1
  <1> QED BY <1>2, <1>3, <1>4, <1>5 DEF Once

(* The overflow check and a new request. *)
LEMMA RoomOnce ==
    ASSUME IInv, OnceInv, txq' = Room, txFate' = Append(Dropped, "adding")
    PROVE  /\ Once(txq', txFate')
           /\ Len(txFate') = Len(txFate) + 1 /\ txFate'[Len(txFate) + 1] = "adding"
           /\ \A u \in 1 .. Len(txFate) : txFate[u] # "queued" => txFate'[u] = txFate[u]
           /\ Len(txFate) + 1 \notin 1 .. Len(txFate) /\ Len(txFate) + 1 # None
  <1>1. /\ txFate \in Seq(TxEnds) /\ txq \in Seq(1 .. Len(txFate)) /\ Len(txFate) \in Nat
        /\ Once(txq, txFate)
    BY LenProperties DEF IInv, TxTyped, OnceInv
  <1>2. ASSUME Full
        PROVE  /\ txq # <<>> /\ Tail(txq) \in Seq(1 .. Len(txFate)) /\ "overflow" \in TxEnds \ {"queued"}
               /\ Head(txq) \in 1 .. Len(txFate) /\ txFate[Head(txq)] = "queued"
    <2>1. txq # <<>>
      BY <1>2, EmptySeq, QueuesAssumption DEF Full
    <2>2. Head(txq) \in 1 .. Len(txFate) /\ Head(txq) = txq[1] /\ 1 \in 1 .. Len(txq)
          /\ Tail(txq) \in Seq(1 .. Len(txFate))
      BY <1>1, <2>1, HeadTailProperties, WithoutFront
    <2> QED BY <1>1, <2>1, <2>2 DEF Once, TxEnds
  <1>3. /\ Dropped \in Seq(TxEnds) /\ Len(Dropped) = Len(txFate)
        /\ Room \in Seq(1 .. Len(Dropped)) /\ Once(Room, Dropped)
        /\ \A u \in 1 .. Len(Dropped) : txFate[u] # "queued" => Dropped[u] = txFate[u]
    <2>1. CASE Full
      <3>1. Room = Tail(txq) /\ Dropped = [txFate EXCEPT ![Head(txq)] = "overflow"]
        BY <2>1 DEF Room, Dropped
      <3>2. /\ txq # <<>> /\ Tail(txq) \in Seq(1 .. Len(txFate))
            /\ "overflow" \in TxEnds \ {"queued"} /\ "overflow" \in TxEnds
            /\ Head(txq) \in 1 .. Len(txFate) /\ txFate[Head(txq)] = "queued"
        BY <1>2, <2>1
      <3>3. Once(Room, Dropped)
        BY <1>1, <3>1, <3>2, OncePop
      <3>4. /\ Dropped \in Seq(TxEnds) /\ Len(Dropped) = Len(txFate)
            /\ \A u \in 1 .. Len(txFate) : u # Head(txq) => Dropped[u] = txFate[u]
        BY <1>1, <3>1, <3>2, Updated
      <3> QED BY <3>1, <3>2, <3>3, <3>4
    <2>2. CASE ~Full
      BY <1>1, <2>2 DEF Room, Dropped
    <2> QED BY <2>1, <2>2
  <1>4. Once(txq', txFate')
    BY <1>3, OnceNew
  <1>5. "adding" \in TxEnds
    BY DEF TxEnds
  <1>6. /\ Len(txFate') = Len(Dropped) + 1 /\ txFate'[Len(Dropped) + 1] = "adding"
        /\ \A u \in 1 .. Len(Dropped) : txFate'[u] = Dropped[u]
    BY <1>3, <1>5, AppendProperties
  <1>7. Len(txFate) + 1 \notin 1 .. Len(txFate) /\ Len(txFate) + 1 # None
    BY <1>1, QueuesAssumption
  <1> QED BY <1>3, <1>4, <1>6, <1>7

LEMMA AddRoomOnce ==
    ASSUME IInv, OnceInv, NEW a \in Adders, AddRoom(a)
    PROVE  OnceInv'
  <1> DEFINE n == Len(txFate) + 1
  <1>1. /\ UNCHANGED <<uart, held>>
        /\ adding[a] = None /\ adding' = [adding EXCEPT ![a] = n]
        /\ txFate' = Append(Dropped, "adding") /\ txq' = Room
    BY DEF AddRoom
  <1>2. /\ held \in 1 .. Len(txFate) \cup {None}
        /\ adding \in [Adders -> 1 .. Len(txFate) \cup {None}]
    BY DEF IInv, TxTyped
  <1>3. /\ Once(txq', txFate') /\ txFate'[n] = "adding"
        /\ \A u \in 1 .. Len(txFate) : txFate[u] # "queued" => txFate'[u] = txFate[u]
        /\ n \notin 1 .. Len(txFate) /\ n # None
    BY <1>1, RoomOnce
  <1> HIDE DEF n
  <1>4. /\ \A b \in Adders : adding'[b] = IF b = a THEN n ELSE adding[b]
        /\ \A b \in Adders : adding[b] # n
    BY <1>1, <1>2, <1>3
  <1>5. \A b \in Adders : adding'[b] # None =>
            /\ txFate'[adding'[b]] = "adding"
            /\ \A c \in Adders : adding'[c] = adding'[b] => c = b
    <2>1. \A b \in Adders : adding[b] # None =>
              txFate'[adding[b]] = "adding" /\ \A c \in Adders : adding[c] = adding[b] => c = b
      BY <1>2, <1>3 DEF OnceInv
    <2> QED BY <1>3, <1>4, <2>1
  <1>6. held' # None /\ uart' \in {"idle", "receiving"} => txFate'[held'] = "sent"
    BY <1>1, <1>2, <1>3 DEF OnceInv
  <1>7. ASSUME uart' = "putting"
        PROVE  txFate'[held'] \in {"adding", "sent"} /\ \A b \in Adders : adding'[b] # held'
    <2>1. held \in 1 .. Len(txFate) /\ txFate[held] \in {"adding", "sent"}
          /\ \A b \in Adders : adding[b] # held
      BY <1>1, <1>2, <1>7 DEF OnceInv, IInv, TxTyped
    <2> QED BY <1>1, <1>3, <1>4, <2>1
  <1> QED BY <1>3, <1>5, <1>6, <1>7 DEF OnceInv

LEMMA AddPutOnce ==
    ASSUME IInv, OnceInv, NEW a \in Adders, NEW front \in BOOLEAN, AddPut(a, front)
    PROVE  OnceInv'
  <1> DEFINE id == adding[a]
  <1>1. /\ txFate \in Seq(TxEnds) /\ txq \in Seq(1 .. Len(txFate))
        /\ held \in 1 .. Len(txFate) \cup {None} /\ Once(txq, txFate)
        /\ adding \in [Adders -> 1 .. Len(txFate) \cup {None}]
    BY DEF IInv, TxTyped, OnceInv
  <1>2. /\ UNCHANGED <<uart, held>> /\ id # None
        /\ adding' = [adding EXCEPT ![a] = None]
        /\ txFate' = [txFate EXCEPT ![id] = "queued"]
        /\ txq' \in {<<id>> \o txq, Append(txq, id)}
    BY DEF AddPut
  <1>3. id \in 1 .. Len(txFate) /\ txFate[id] = "adding"
    BY <1>1, <1>2 DEF OnceInv
  <1>4. Once(txq', txFate')
    <2> HIDE DEF id
    <2> QED BY <1>1, <1>2, <1>3, OncePut
  <1>5. \A u \in 1 .. Len(txFate) : u # id => txFate'[u] = txFate[u]
    BY <1>1, <1>2, <1>3, Updated DEF TxEnds
  <1>6. \A b \in Adders : adding'[b] = IF b = a THEN None ELSE adding[b]
    BY <1>1, <1>2
  <1>7. \A b \in Adders : adding'[b] # None =>
            /\ txFate'[adding'[b]] = "adding"
            /\ \A c \in Adders : adding'[c] = adding'[b] => c = b
    <2>1. ASSUME NEW b \in Adders, adding'[b] # None
          PROVE  /\ b # a /\ adding'[b] = adding[b] /\ adding[b] # id /\ adding[b] \in 1 .. Len(txFate)
                 /\ txFate[adding[b]] = "adding"
                 /\ \A c \in Adders : adding[c] = adding[b] => c = b
      BY <1>1, <1>2, <1>6, <2>1 DEF OnceInv
    <2> HIDE DEF id
    <2>2. ASSUME NEW b \in Adders, adding'[b] # None
          PROVE  /\ txFate'[adding'[b]] = "adding"
                 /\ \A c \in Adders : adding'[c] = adding'[b] => c = b
      <3>1. txFate'[adding'[b]] = "adding"
        BY <1>5, <2>1, <2>2
      <3>2. ASSUME NEW c \in Adders, adding'[c] = adding'[b] PROVE c = b
        BY <1>6, <2>1, <2>2, <3>2
      <3> QED BY <3>1, <3>2
    <2> QED BY <2>2
  <1>8. held' # None /\ uart' \in {"idle", "receiving"} => txFate'[held'] = "sent"
    BY <1>1, <1>2, <1>3, <1>5 DEF OnceInv
  <1>9. ASSUME uart' = "putting"
        PROVE  txFate'[held'] \in {"adding", "sent"} /\ \A b \in Adders : adding'[b] # held'
    <2>1. held \in 1 .. Len(txFate) /\ held # None /\ txFate[held] \in {"adding", "sent"}
          /\ \A b \in Adders : adding[b] # held
      BY <1>1, <1>2, <1>9 DEF OnceInv, IInv, TxTyped
    <2>2. held # id /\ held' = held
      BY <1>2, <2>1
    <2> HIDE DEF id
    <2> QED BY <1>5, <1>6, <2>1, <2>2
  <1> QED BY <1>4, <1>7, <1>8, <1>9 DEF OnceInv

(* The front is queued, once. *)
LEMMA HeldIsQueued ==
    ASSUME IInv, OnceInv, FrontIsHeld, FrontInUse
    PROVE  /\ held \in 1 .. Len(txFate) /\ held = Head(txq) /\ txq # <<>>
           /\ txFate[held] = "queued"
           /\ \A a \in Adders : adding[a] # held
  <1>1. /\ txFate \in Seq(TxEnds) /\ txq \in Seq(1 .. Len(txFate)) /\ Once(txq, txFate)
        /\ held \in 1 .. Len(txFate) /\ held # None /\ held = Head(txq) /\ txq # <<>>
    BY DEF IInv, TxTyped, OnceInv, FrontIsHeld, FrontInUse
  <1>2. Head(txq) = txq[1] /\ 1 \in 1 .. Len(txq)
    BY <1>1, HeadTailProperties, WithoutFront
  <1>3. txFate[held] = "queued"
    BY <1>1, <1>2 DEF Once
  <1> QED BY <1>1, <1>3 DEF OnceInv

(* Only request u changes, and no task is queueing it. *)
LEMMA OthersAdding ==
    ASSUME IInv, OnceInv, adding' = adding, NEW u,
           \A w \in 1 .. Len(txFate) : w # u => txFate'[w] = txFate[w],
           \A a \in Adders : adding[a] # u
    PROVE  \A b \in Adders : adding'[b] # None =>
              /\ txFate'[adding'[b]] = "adding"
              /\ \A c \in Adders : adding'[c] = adding'[b] => c = b
  BY DEF OnceInv, IInv, TxTyped

LEMMA PopSentOnce ==
    ASSUME IInv, OnceInv, FrontIsHeld, PopSent
    PROVE  OnceInv'
  <1> DEFINE f == [txFate EXCEPT ![held] = "sent"]
  <1>1. /\ held \in 1 .. Len(txFate) /\ held = Head(txq) /\ txq # <<>> /\ txFate[held] = "queued"
        /\ \A a \in Adders : adding[a] # held
    BY HeldIsQueued DEF PopSent, FrontInUse
  <1>2. /\ held' = held /\ uart' = "idle" /\ adding' = adding
        /\ txq' = Tail(txq) /\ txFate' = [f EXCEPT ![held] = "sent"]
    BY <1>1 DEF PopSent
  <1>3. "sent" \in TxEnds \ {"queued"}
    BY DEF TxEnds
  <1>4. txFate \in Seq(TxEnds) /\ txq \in Seq(1 .. Len(txFate)) /\ Once(txq, txFate)
    BY DEF IInv, TxTyped, OnceInv
  <1>5. /\ f \in Seq(TxEnds) /\ Len(f) = Len(txFate) /\ f[held] = "sent"
        /\ \A u \in 1 .. Len(txFate) : u # held => f[u] = txFate[u]
    BY <1>1, <1>3, <1>4, Updated
  <1>6. Once(Tail(txq), f)
    BY <1>1, <1>3, <1>4, OncePop
  <1> HIDE DEF f
  <1>7. /\ Len(txFate') = Len(f) /\ txFate'[held] = "sent"
        /\ \A u \in 1 .. Len(f) : txFate'[u] = f[u]
    BY <1>1, <1>2, <1>3, <1>5, Updated
  <1>8. Once(txq', txFate')
    BY <1>2, <1>6, <1>7 DEF Once
  <1>9. \A b \in Adders : adding'[b] # None =>
            /\ txFate'[adding'[b]] = "adding"
            /\ \A c \in Adders : adding'[c] = adding'[b] => c = b
    <2>1. \A u \in 1 .. Len(txFate) : u # held => txFate'[u] = txFate[u]
      BY <1>5, <1>7
    <2> QED BY <1>1, <1>2, <2>1, OthersAdding
  <1> QED BY <1>2, <1>7, <1>8, <1>9 DEF OnceInv

LEMMA PopExpiredOnce ==
    ASSUME IInv, OnceInv, FrontIsHeld, PopExpired
    PROVE  OnceInv'
  <1>1. /\ held \in 1 .. Len(txFate) /\ held = Head(txq) /\ txq # <<>> /\ txFate[held] = "queued"
        /\ \A a \in Adders : adding[a] # held
    BY HeldIsQueued DEF PopExpired, FrontInUse
  <1>2. /\ held' = None /\ uart' = "idle" /\ adding' = adding
        /\ txq' = Tail(txq) /\ txFate' = [txFate EXCEPT ![Head(txq)] = "expired"]
    BY <1>1 DEF PopExpired
  <1>3. "expired" \in TxEnds \ {"queued"}
    BY DEF TxEnds
  <1>4. txFate \in Seq(TxEnds) /\ txq \in Seq(1 .. Len(txFate)) /\ Once(txq, txFate)
    BY DEF IInv, TxTyped, OnceInv
  <1>5. Once(txq', txFate')
    BY <1>1, <1>2, <1>3, <1>4, OncePop
  <1>6. \A u \in 1 .. Len(txFate) : u # held => txFate'[u] = txFate[u]
    BY <1>1, <1>2, <1>3, <1>4, Updated
  <1>7. \A b \in Adders : adding'[b] # None =>
            /\ txFate'[adding'[b]] = "adding"
            /\ \A c \in Adders : adding'[c] = adding'[b] => c = b
    BY <1>1, <1>2, <1>6, OthersAdding
  <1> QED BY <1>2, <1>5, <1>7 DEF OnceInv

LEMMA AskMoreOnce ==
    ASSUME IInv, OnceInv, AskMore
    PROVE  OnceInv'
  <1> DEFINE n == Len(txFate) + 1
  <1>1. /\ uart' = "putting" /\ held' = n /\ adding' = adding
        /\ txFate' = Append(Dropped, "adding") /\ txq' = Room
    BY DEF AskMore
  <1>2. adding \in [Adders -> 1 .. Len(txFate) \cup {None}]
    BY DEF IInv, TxTyped
  <1>3. /\ Once(txq', txFate') /\ txFate'[n] = "adding"
        /\ \A u \in 1 .. Len(txFate) : txFate[u] # "queued" => txFate'[u] = txFate[u]
        /\ n \notin 1 .. Len(txFate) /\ n # None
    BY <1>1, RoomOnce
  <1> HIDE DEF n
  <1>4. \A b \in Adders : adding'[b] # None =>
            /\ txFate'[adding'[b]] = "adding"
            /\ \A c \in Adders : adding'[c] = adding'[b] => c = b
    BY <1>1, <1>2, <1>3 DEF OnceInv
  <1>5. \A b \in Adders : adding'[b] # held'
    BY <1>1, <1>2, <1>3
  <1> QED BY <1>1, <1>3, <1>4, <1>5 DEF OnceInv

LEMMA PutInFrontOnce ==
    ASSUME IInv, OnceInv, PutInFront
    PROVE  OnceInv'
  <1>1. /\ txFate \in Seq(TxEnds) /\ txq \in Seq(1 .. Len(txFate)) /\ Once(txq, txFate)
        /\ held \in 1 .. Len(txFate) /\ txFate[held] \in {"adding", "sent"}
        /\ \A a \in Adders : adding[a] # held
    BY DEF IInv, TxTyped, OnceInv, PutInFront
  <1>2. /\ held' = None /\ uart' = "idle" /\ adding' = adding
        /\ txq' = <<held>> \o txq /\ txFate' = [txFate EXCEPT ![held] = "queued"]
    BY DEF PutInFront
  <1>3. Once(txq', txFate')
    BY <1>1, <1>2, OncePut
  <1>4. \A u \in 1 .. Len(txFate) : u # held => txFate'[u] = txFate[u]
    BY <1>1, <1>2, Updated DEF TxEnds
  <1>5. \A b \in Adders : adding'[b] # None =>
            /\ txFate'[adding'[b]] = "adding"
            /\ \A c \in Adders : adding'[c] = adding'[b] => c = b
    BY <1>1, <1>2, <1>4, OthersAdding
  <1> QED BY <1>2, <1>3, <1>5 DEF OnceInv

LEMMA OnceCounts ==
    ASSUME IInv, OnceInv, NEW u \in DOMAIN txFate
    PROVE  Cardinality({p \in DOMAIN txq : txq[p] = u}) = IF txFate[u] = "queued" THEN 1 ELSE 0
  <1> DEFINE P == {p \in DOMAIN txq : txq[p] = u}
  <1>1. DOMAIN txq = 1 .. Len(txq) /\ u \in 1 .. Len(txFate)
    BY LenProperties DEF IInv, TxTyped
  <1>2. CASE txFate[u] = "queued"
    <2>1. PICK p \in 1 .. Len(txq) : txq[p] = u
      BY <1>1, <1>2 DEF OnceInv, Once
    <2>2. P = {p}
      BY <1>1, <2>1 DEF OnceInv, Once
    <2> QED BY <1>2, <2>2, FS_Singleton
  <1>3. CASE txFate[u] # "queued"
    <2>1. P = {}
      BY <1>1, <1>3 DEF OnceInv, Once
    <2> QED BY <1>3, <2>1, FS_EmptySet
  <1> QED BY <1>2, <1>3

(* Under the same condition TxService sends no request twice that it did not   *)
(* retry, nor one it has dropped (see QueuedOnce).                             *)
THEOREM RequestsQueuedOnce == Spec => []QueuedOnce
  <1> DEFINE I == IInv /\ (~disturbed => FrontIsHeld /\ OnceInv)
  <1>1. Init => I
    <2> SUFFICES ASSUME Init PROVE FrontIsHeld /\ OnceInv
      BY InitHolds
    <2>1. /\ txq = <<>> /\ txFate = <<>> /\ held = None /\ uart = "idle"
          /\ \A a \in Adders : adding[a] = None
      BY DEF Init
    <2>2. Len(txq) = 0 /\ Len(txFate) = 0
      BY <2>1
    <2> QED BY <2>1, <2>2 DEF FrontIsHeld, FrontInUse, OnceInv, Once
  <1>2. I /\ [Next]_vars => I'
    <2> SUFFICES ASSUME I, [Next]_vars, ~disturbed' PROVE FrontIsHeld' /\ OnceInv'
      BY NextKeeps
    <2>1. ~disturbed /\ FrontIsHeld /\ OnceInv /\ FrontIsHeld'
      BY DisturbedStays, FrontStays
    <2>2. ASSUME NEW a \in Adders, AddRoom(a) PROVE OnceInv'
      BY <2>1, <2>2, AddRoomOnce
    <2>3. ASSUME NEW a \in Adders, NEW front \in BOOLEAN, AddPut(a, front) PROVE OnceInv'
      BY <2>1, <2>3, AddPutOnce
    <2>4. CASE SendFront \/ FindExpired
      BY <2>1, <2>4 DEF SendFront, FindExpired, OnceInv
    <2>5. CASE PopSent \/ PopExpired \/ AskMore \/ PutInFront
      BY <2>1, <2>5, PopSentOnce, PopExpiredOnce, AskMoreOnce, PutInFrontOnce
    <2>6. CASE Answered
      BY <2>1, <2>6 DEF Answered, OnceInv
    <2>7. CASE RetryRoom
      <3>1. uart = "idle" /\ held # None /\ UNCHANGED <<txq, adding, txFate>>
            /\ \/ held' = None /\ uart' = "idle"
               \/ held' = held /\ uart' = "putting"
        BY <2>7 DEF RetryRoom
      <3>2. txFate[held] = "sent"
        BY <2>1, <3>1 DEF OnceInv
      <3>3. \A a \in Adders : adding[a] # held
        BY <2>1, <3>1, <3>2 DEF OnceInv
      <3> QED BY <2>1, <3>1, <3>2, <3>3 DEF OnceInv
    <2>8. CASE ReceiveRoom \/ ReceivePut
      BY <2>1, <2>8 DEF ReceiveRoom, ReceivePut, txVars, OnceInv
    <2>9. CASE ProcessFront \/ PopProcessed \/ UNCHANGED vars
      BY <2>1, <2>9 DEF ProcessFront, PopProcessed, vars, txVars, OnceInv
    <2> QED BY <2>1, <2>2, <2>3, <2>4, <2>5, <2>6, <2>7, <2>8, <2>9
        DEF Next, UartTask, OtherTasks
  <1>3. I => QueuedOnce
    BY OnceCounts DEF QueuedOnce
  <1> QED BY <1>1, <1>2, <1>3, PTL DEF Spec

-----------------------------------------------------------------------------
(* Frames are numbered in the order they arrive and stay in that order; only  *)
(* the front one may be in work.                                              *)
RxInOrder ==
    /\ \A i, j \in 1 .. Len(rxq) : i < j => rxq[i] < rxq[j]
    /\ \A i \in 1 .. Len(rxq) : rxFate[rxq[i]] # "queued" => i = 1 /\ working = rxq[1]
    /\ arriving # None =>
          /\ rxFate[arriving] = "queued"
          /\ \A i \in 1 .. Len(rxq) : rxq[i] < arriving

LEMMA TailInOrder ==
    ASSUME NEW q \in Seq(Nat), q # <<>>, \A i, j \in 1 .. Len(q) : i < j => q[i] < q[j]
    PROVE  /\ Len(Tail(q)) = Len(q) - 1 /\ Len(q) \in Nat \ {0} /\ Head(q) = q[1]
           /\ \A i \in 1 .. Len(Tail(q)) : Tail(q)[i] = q[i + 1] /\ q[1] < Tail(q)[i]
           /\ \A i, j \in 1 .. Len(Tail(q)) : i < j => Tail(q)[i] < Tail(q)[j]
  <1>1. Len(Tail(q)) = Len(q) - 1 /\ Len(q) \in Nat \ {0} /\ Head(q) = q[1]
        /\ \A i \in 1 .. Len(Tail(q)) : Tail(q)[i] = q[i + 1]
    BY HeadTailProperties, EmptySeq, LenProperties
  <1>2. \A i \in 1 .. Len(Tail(q)) : i + 1 \in 1 .. Len(q) /\ 1 < i + 1 /\ 1 \in 1 .. Len(q)
    BY <1>1
  <1> QED BY <1>1, <1>2

LEMMA RxSeq ==
    ASSUME IInv
    PROVE  /\ rxq \in Seq(Nat) /\ rxFate \in Seq(RxEnds)
           /\ Len(rxq) \in Nat /\ Len(rxFate) \in Nat
           /\ \A i \in 1 .. Len(rxq) : rxq[i] \in 1 .. Len(rxFate)
  <1>1. rxq \in Seq(1 .. Len(rxFate)) /\ Len(rxq) \in Nat /\ Len(rxFate) \in Nat
        /\ rxFate \in Seq(RxEnds)
    BY LenProperties DEF IInv, RxTyped
  <1>2. \A i \in 1 .. Len(rxq) : rxq[i] \in 1 .. Len(rxFate)
    BY <1>1, ElementOfSeq
  <1>3. rxq \in [1 .. Len(rxq) -> Nat]
    BY <1>1, <1>2, LenProperties
  <1>4. rxq \in Seq(Nat)
    BY <1>1, <1>3, SeqDef
  <1> QED BY <1>1, <1>2, <1>4

LEMMA ReceiveRoomInOrder ==
    ASSUME IInv, RxInOrder, ReceiveRoom
    PROVE  RxInOrder'
  <1> DEFINE full == Len(rxq) >= MaxRx
             f == IF full /\ rxFate[Head(rxq)] = "queued"
                  THEN [rxFate EXCEPT ![Head(rxq)] = "overflow"] ELSE rxFate
  <1>1. arriving' = Len(rxFate) + 1 /\ working' = working
        /\ rxq' = (IF full THEN Tail(rxq) ELSE rxq) /\ rxFate' = Append(f, "queued")
    BY DEF ReceiveRoom
  <1>2. /\ rxq \in Seq(Nat) /\ rxFate \in Seq(RxEnds)
        /\ Len(rxq) \in Nat /\ Len(rxFate) \in Nat
        /\ \A i \in 1 .. Len(rxq) : rxq[i] \in 1 .. Len(rxFate)
    BY RxSeq
  <1>3. full => rxq # <<>>
    BY QueuesAssumption, EmptySeq
  <1>4. full => /\ Head(rxq) = rxq[1] /\ 1 \in 1 .. Len(rxq) /\ Len(Tail(rxq)) = Len(rxq) - 1
                /\ \A i \in 1 .. Len(Tail(rxq)) : Tail(rxq)[i] = rxq[i + 1] /\ rxq[1] < Tail(rxq)[i]
                /\ \A i, j \in 1 .. Len(Tail(rxq)) : i < j => Tail(rxq)[i] < Tail(rxq)[j]
    <2> SUFFICES ASSUME full
                 PROVE  /\ Head(rxq) = rxq[1] /\ 1 \in 1 .. Len(rxq) /\ Len(Tail(rxq)) = Len(rxq) - 1
                        /\ \A i \in 1 .. Len(Tail(rxq)) : Tail(rxq)[i] = rxq[i + 1] /\ rxq[1] < Tail(rxq)[i]
                        /\ \A i, j \in 1 .. Len(Tail(rxq)) : i < j => Tail(rxq)[i] < Tail(rxq)[j]
      OBVIOUS
    <2>1. rxq # <<>> /\ \A i, j \in 1 .. Len(rxq) : i < j => rxq[i] < rxq[j]
      BY <1>3 DEF RxInOrder
    <2> QED BY <1>2, <2>1, TailInOrder
  <1>5. f \in Seq(RxEnds) /\ Len(f) = Len(rxFate)
        /\ \A n \in 1 .. Len(rxFate) : (full => n # rxq[1]) => f[n] = rxFate[n]
    <2>1. "overflow" \in RxEnds
      BY DEF RxEnds
    <2>2. CASE full
      <3>1. /\ [rxFate EXCEPT ![rxq[1]] = "overflow"] \in Seq(RxEnds)
            /\ Len([rxFate EXCEPT ![rxq[1]] = "overflow"]) = Len(rxFate)
            /\ \A n \in 1 .. Len(rxFate) : n # rxq[1] =>
                  [rxFate EXCEPT ![rxq[1]] = "overflow"][n] = rxFate[n]
        BY <1>2, <1>4, <2>1, <2>2, Updated
      <3> QED BY <1>2, <1>4, <2>2, <3>1
    <2>3. CASE ~full
      BY <1>2, <2>3
    <2> QED BY <2>2, <2>3
  <1> HIDE DEF f
  <1>6. "queued" \in RxEnds
    BY DEF RxEnds
  <1>7. rxFate'[arriving'] = "queued" /\ \A n \in 1 .. Len(rxFate) : rxFate'[n] = f[n]
    BY <1>1, <1>2, <1>5, <1>6, AppendProperties
  <1>8. \A n \in 1 .. Len(rxFate) : n < arriving'
    BY <1>1, <1>2
  <1> HIDE DEF full
  <1>9. CASE full
    <2>1. \A i \in 1 .. Len(rxq') : /\ rxq'[i] = rxq[i + 1] /\ rxq[1] < rxq'[i]
                                     /\ i + 1 \in 1 .. Len(rxq) /\ i + 1 # 1
      <3>1. rxq' = Tail(rxq) /\ Len(rxq') = Len(rxq) - 1
        BY <1>1, <1>4, <1>9
      <3>2. \A i \in 1 .. Len(rxq') : rxq'[i] = rxq[i + 1] /\ rxq[1] < rxq'[i]
        BY <1>4, <1>9, <3>1
      <3>3. \A i \in 1 .. Len(rxq') : i + 1 \in 1 .. Len(rxq) /\ i + 1 # 1
        BY <1>2, <3>1
      <3> QED BY <3>2, <3>3
    <2>2. \A i \in 1 .. Len(rxq') : rxq'[i] \in 1 .. Len(rxFate) /\ rxq'[i] # rxq[1]
      <3> SUFFICES ASSUME NEW i \in 1 .. Len(rxq')
                   PROVE  rxq'[i] \in 1 .. Len(rxFate) /\ rxq'[i] # rxq[1]
        OBVIOUS
      <3>1. rxq'[i] \in 1 .. Len(rxFate) /\ rxq[1] \in 1 .. Len(rxFate)
        BY <1>2, <1>4, <1>9, <2>1
      <3>2. rxq[1] < rxq'[i]
        BY <2>1
      <3> QED BY <3>1, <3>2, <1>2
    <2>3. \A i \in 1 .. Len(rxq') : rxFate'[rxq'[i]] = "queued"
      BY <1>5, <1>7, <2>1, <2>2 DEF RxInOrder
    <2>4. \A i, j \in 1 .. Len(rxq') : i < j => rxq'[i] < rxq'[j]
      BY <1>1, <1>4, <1>9
    <2>5. \A i \in 1 .. Len(rxq') : rxq'[i] < arriving'
      BY <1>8, <2>2
    <2> QED BY <1>7, <2>3, <2>4, <2>5 DEF RxInOrder
  <1>10. CASE ~full
    <2>1. rxq' = rxq /\ \A n \in 1 .. Len(rxFate) : rxFate'[n] = rxFate[n]
      BY <1>1, <1>5, <1>7, <1>10
    <2>2. \A i \in 1 .. Len(rxq) : rxFate'[rxq[i]] = rxFate[rxq[i]] /\ rxq[i] < arriving'
      BY <1>2, <1>8, <2>1
    <2> QED BY <1>1, <1>7, <2>1, <2>2 DEF RxInOrder
  <1> QED BY <1>9, <1>10

LEMMA ReceivePutInOrder ==
    ASSUME IInv, RxInOrder, ReceivePut
    PROVE  RxInOrder'
  <1>1. rxq' = Append(rxq, arriving) /\ arriving' = None /\ uart = "receiving"
        /\ UNCHANGED <<working, rxFate>>
    BY DEF ReceivePut
  <1>2. rxq \in Seq(Nat) /\ Len(rxq) \in Nat /\ Len(rxFate) \in Nat
    BY RxSeq
  <1>3. arriving # None /\ arriving \in 1 .. Len(rxFate)
    BY <1>1 DEF IInv, RxTyped
  <1>4. arriving \in Nat
    BY <1>2, <1>3
  <1>5. Len(rxq') = Len(rxq) + 1 /\ rxq'[Len(rxq) + 1] = arriving
        /\ \A i \in 1 .. Len(rxq) : rxq'[i] = rxq[i]
    BY <1>1, <1>2, <1>4, AppendProperties
  <1>6. \A i \in 1 .. Len(rxq') : i \in 1 .. Len(rxq) \/ i = Len(rxq) + 1
    BY <1>2, <1>5
  <1>7. \A i, j \in 1 .. Len(rxq') : i < j => rxq'[i] < rxq'[j]
    <2> SUFFICES ASSUME NEW i \in 1 .. Len(rxq'), NEW j \in 1 .. Len(rxq'), i < j
                 PROVE  rxq'[i] < rxq'[j]
      OBVIOUS
    <2>1. i \in 1 .. Len(rxq)
      BY <1>2, <1>5
    <2>2. CASE j \in 1 .. Len(rxq)
      BY <1>5, <2>1, <2>2 DEF RxInOrder
    <2>3. CASE j = Len(rxq) + 1
      BY <1>3, <1>5, <2>1, <2>3 DEF RxInOrder
    <2> QED BY <1>6, <2>2, <2>3
  <1>8. \A i \in 1 .. Len(rxq') : rxFate'[rxq'[i]] # "queued" => i = 1 /\ working' = rxq'[1]
    <2> SUFFICES ASSUME NEW i \in 1 .. Len(rxq'), rxFate'[rxq'[i]] # "queued"
                 PROVE  i = 1 /\ working' = rxq'[1]
      OBVIOUS
    <2>1. i \in 1 .. Len(rxq)
      BY <1>1, <1>3, <1>5, <1>6 DEF RxInOrder
    <2>2. i = 1 /\ working = rxq[1]
      BY <1>1, <1>5, <2>1 DEF RxInOrder
    <2> QED BY <1>1, <1>5, <2>1, <2>2
  <1> QED BY <1>1, <1>7, <1>8 DEF RxInOrder

LEMMA ProcessFrontInOrder ==
    ASSUME IInv, RxInOrder, ProcessFront
    PROVE  RxInOrder' /\ rxFate[working'] = "queued"
  <1>1. working = None /\ working' = Head(rxq) /\ rxq # <<>>
        /\ rxFate' = [rxFate EXCEPT ![Head(rxq)] = "processed"] /\ UNCHANGED <<rxq, arriving>>
    BY DEF ProcessFront
  <1>2. /\ rxq \in Seq(Nat) /\ rxFate \in Seq(RxEnds) /\ Len(rxFate) \in Nat
        /\ \A i \in 1 .. Len(rxq) : rxq[i] \in 1 .. Len(rxFate)
    BY RxSeq
  <1>3. Head(rxq) = rxq[1] /\ 1 \in 1 .. Len(rxq)
    BY <1>1, <1>2, HeadTailProperties, EmptySeq, LenProperties
  <1>4. rxq[1] \in 1 .. Len(rxFate) /\ rxq[1] # None
    BY <1>2, <1>3, QueuesAssumption
  <1>5. rxFate[rxq[1]] = "queued"
    BY <1>1, <1>3, <1>4 DEF RxInOrder
  <1>6. \A n \in 1 .. Len(rxFate) : n # rxq[1] => rxFate'[n] = rxFate[n]
    BY <1>1, <1>2, <1>3, <1>4, Updated DEF RxEnds
  <1>7. \A i \in 1 .. Len(rxq) : i # 1 => rxq[1] < rxq[i] /\ rxq[i] # rxq[1]
    <2> SUFFICES ASSUME NEW i \in 1 .. Len(rxq), i # 1 PROVE rxq[1] < rxq[i] /\ rxq[i] # rxq[1]
      OBVIOUS
    <2>1. 1 < i
      OBVIOUS
    <2>2. rxq[1] < rxq[i]
      BY <1>3, <2>1 DEF RxInOrder
    <2> QED BY <1>2, <1>3, <2>2
  <1>8. \A i \in 1 .. Len(rxq') : rxFate'[rxq'[i]] # "queued" => i = 1 /\ working' = rxq'[1]
    <2> SUFFICES ASSUME NEW i \in 1 .. Len(rxq), rxFate'[rxq[i]] # "queued"
                 PROVE  i = 1
      BY <1>1, <1>3
    <2> SUFFICES ASSUME i # 1 PROVE FALSE
      OBVIOUS
    <2>1. rxFate'[rxq[i]] = rxFate[rxq[i]]
      BY <1>2, <1>6, <1>7
    <2> QED BY <2>1 DEF RxInOrder
  <1>9. arriving' # None => rxFate'[arriving'] = "queued"
    <2> SUFFICES ASSUME arriving # None PROVE rxFate'[arriving] = "queued"
      BY <1>1
    <2>1. arriving \in 1 .. Len(rxFate)
      BY DEF IInv, RxTyped
    <2>2. rxq[1] < arriving
      BY <1>3 DEF RxInOrder
    <2>3. arriving # rxq[1]
      BY <1>2, <1>4, <2>1, <2>2
    <2> QED BY <1>6, <2>1, <2>3 DEF RxInOrder
  <1> QED BY <1>1, <1>3, <1>5, <1>8, <1>9 DEF RxInOrder

LEMMA PopProcessedInOrder ==
    ASSUME IInv, RxInOrder, PopProcessed
    PROVE  RxInOrder'
  <1>1. working' = None /\ rxq # <<>> /\ rxq' = Tail(rxq) /\ UNCHANGED arriving
        /\ rxFate' \in {rxFate, [rxFate EXCEPT ![Head(rxq)] = "lost"]}
    BY DEF PopProcessed
  <1>2. /\ rxq \in Seq(Nat) /\ rxFate \in Seq(RxEnds) /\ Len(rxFate) \in Nat
        /\ \A i \in 1 .. Len(rxq) : rxq[i] \in 1 .. Len(rxFate)
    BY RxSeq
  <1>3. /\ Len(rxq') = Len(rxq) - 1 /\ Len(rxq) \in Nat \ {0} /\ Head(rxq) = rxq[1]
        /\ \A i \in 1 .. Len(rxq') : rxq'[i] = rxq[i + 1] /\ rxq[1] < rxq'[i]
        /\ \A i, j \in 1 .. Len(rxq') : i < j => rxq'[i] < rxq'[j]
    BY <1>1, <1>2, TailInOrder DEF RxInOrder
  <1>4. \A n \in 1 .. Len(rxFate) : n # rxq[1] => rxFate'[n] = rxFate[n]
    <2>1. rxq[1] \in 1 .. Len(rxFate) /\ "lost" \in RxEnds
      BY <1>2, <1>3 DEF RxEnds
    <2> QED BY <1>1, <1>2, <1>3, <2>1, Updated
  <1>5. \A i \in 1 .. Len(rxq') : rxFate'[rxq'[i]] = "queued"
    <2> SUFFICES ASSUME NEW i \in 1 .. Len(rxq') PROVE rxFate'[rxq'[i]] = "queued"
      OBVIOUS
    <2>1. i + 1 \in 1 .. Len(rxq) /\ i + 1 # 1 /\ 1 \in 1 .. Len(rxq)
      BY <1>3
    <2>2. rxq[i + 1] \in 1 .. Len(rxFate) /\ rxq[1] \in 1 .. Len(rxFate)
      BY <1>2, <2>1
    <2>3. rxq'[i] = rxq[i + 1] /\ rxq[i + 1] # rxq[1]
      BY <1>2, <1>3, <2>2
    <2>4. rxFate[rxq[i + 1]] = "queued"
      BY <2>1 DEF RxInOrder
    <2> QED BY <1>4, <2>2, <2>3, <2>4
  <1>6. arriving' # None => /\ rxFate'[arriving'] = "queued"
                            /\ \A i \in 1 .. Len(rxq') : rxq'[i] < arriving'
    <2> SUFFICES ASSUME arriving # None
                 PROVE  /\ rxFate'[arriving] = "queued"
                        /\ \A i \in 1 .. Len(rxq') : rxq'[i] < arriving
      BY <1>1
    <2>1. arriving \in 1 .. Len(rxFate) /\ rxFate[arriving] = "queued"
          /\ \A i \in 1 .. Len(rxq) : rxq[i] < arriving
      BY DEF IInv, RxTyped, RxInOrder
    <2>2. 1 \in 1 .. Len(rxq) /\ \A i \in 1 .. Len(rxq') : i + 1 \in 1 .. Len(rxq)
      BY <1>3
    <2>3. arriving # rxq[1]
      BY <1>2, <2>1, <2>2
    <2> QED BY <1>3, <1>4, <2>1, <2>2, <2>3
  <1> QED BY <1>3, <1>5, <1>6 DEF RxInOrder

(* RxService::loop handles no received telegram twice, though the UART task    *)
(* may take the front telegram away from under it (see ProcessedOnce).         *)
THEOREM FramesProcessedOnce == Spec => ProcessedOnce
  <1> DEFINE I == IInv /\ RxInOrder
  <1>1. Init => I
    BY InitHolds, EmptySeq DEF Init, RxInOrder
  <1>2. ASSUME I, [Next]_vars
        PROVE  I' /\ (working = None /\ working' # None => rxFate[working'] = "queued")
    <2>1. IInv'
      BY <1>2, NextKeeps
    <2>2. CASE ReceiveRoom
      BY <1>2, <2>1, <2>2, ReceiveRoomInOrder, ReceiveRoomKeeps
    <2>3. CASE ReceivePut
      BY <1>2, <2>1, <2>3, ReceivePutInOrder, ReceivePutKeeps
    <2>4. CASE ProcessFront
      BY <1>2, <2>1, <2>4, ProcessFrontInOrder
    <2>5. CASE PopProcessed
      BY <1>2, <2>1, <2>5, PopProcessedInOrder, PopProcessedKeeps
    <2>6. CASE UNCHANGED rxVars
      BY <1>2, <2>1, <2>6 DEF rxVars, RxInOrder
    <2> QED BY <1>2, <2>2, <2>3, <2>4, <2>5, <2>6
        DEF Next, UartTask, OtherTasks, vars, SendFront, PopSent, FindExpired, PopExpired,
            Answered, AskMore, RetryRoom, PutInFront, AddRoom, AddPut
  <1> QED BY <1>1, <1>2, PTL DEF Spec, ProcessedOnce
=============================================================================
