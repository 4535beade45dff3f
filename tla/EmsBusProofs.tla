---------------------------- MODULE EmsBusProofs ----------------------------
(***************************************************************************)
(* Theorems about EmsBus, for every choice of its constants.               *)
(*                                                                         *)
(* TypeOK alone is not inductive: retry_tx puts telegram_last_ back into   *)
(* the queue and read_next_tx asks for the block after it, which are       *)
(* telegrams only because one is there while an answer is awaited          *)
(* (AwaitedTelegram).  The second part says what becomes of a request, the *)
(* third that EmsBus implements Requests.                                  *)
(***************************************************************************)
EXTENDS EmsBus, SequenceTheorems, TLAPS

IInv == TypeOK /\ AwaitedTelegram

TxQueues == {q \in Seq(Telegrams) : Len(q) <= MaxTx}
RxQueues == {q \in Seq(RxTelegrams) : Len(q) <= MaxRx}

-----------------------------------------------------------------------------
(* The operators on queues and telegrams.                                   *)

(* TxService::add never lets the queue exceed MAX_TX_TELEGRAMS.             *)
LEMMA InsertTxType ==
    ASSUME NEW q \in TxQueues, NEW t \in Telegrams, NEW front
    PROVE  InsertTx(q, t, front) \in TxQueues
<1> DEFINE room == MakeRoom(q)
<1>1. room \in Seq(Telegrams) /\ Len(room) < MaxTx
  <2>1. CASE Len(q) >= MaxTx
    <3>1. q # <<>>
      BY <2>1, BoundsAssumption
    <3>2. Tail(q) \in Seq(Telegrams) /\ Len(Tail(q)) = Len(q) - 1
      BY <3>1, HeadTailProperties DEF TxQueues
    <3> QED
      BY <2>1, <3>2, BoundsAssumption, LenProperties DEF TxQueues, MakeRoom
  <2>2. CASE ~(Len(q) >= MaxTx)
    BY <2>2, BoundsAssumption, LenProperties DEF TxQueues, MakeRoom
  <2> QED
    BY <2>1, <2>2
<1>2. <<t>> \in Seq(Telegrams) /\ Len(<<t>>) = 1
  OBVIOUS
<1>3. <<t>> \o room \in Seq(Telegrams) /\ Len(<<t>> \o room) = 1 + Len(room)
  BY <1>1, <1>2, ConcatProperties
<1>4. Append(room, t) \in Seq(Telegrams) /\ Len(Append(room, t)) = Len(room) + 1
  BY <1>1, AppendProperties
<1> QED
  BY <1>1, <1>3, <1>4, BoundsAssumption, LenProperties DEF InsertTx, TxQueues

(* A telegram stays one when its history, its answer or its part changes.   *)
LEMMA UpdateType ==
    ASSUME NEW t \in Telegrams, NEW b \in BOOLEAN, NEW v \in Types \cup {NoType}
    PROVE  /\ [t EXCEPT !.begun = b] \in Telegrams
           /\ [t EXCEPT !.val = v] \in Telegrams
BY DEF Telegrams

LEMMA FieldTypes ==
    ASSUME NEW t \in Telegrams
    PROVE  /\ t.begun \in BOOLEAN /\ t.fifo \in BOOLEAN
           /\ t.op \in Operations
           /\ t.type \in Types /\ t.part \in 0 .. MaxParts
           /\ t.val \in Types \cup {NoType}
BY DEF Telegrams

(* A queue without its head is a queue.                                     *)
LEMMA RemovedType ==
    ASSUME NEW q \in TxQueues, q # <<>>
    PROVE  Removed(q) \in TxQueues /\ Head(q) \in Telegrams
BY HeadTailProperties, LenProperties, BoundsAssumption DEF Removed, TxQueues

(* get_send_id drops the head or leaves the queue as it is.                 *)
LEMMA AfterExpiryType ==
    ASSUME NEW q \in TxQueues
    PROVE  AfterExpiry(q) \in TxQueues
<1>1. CASE Expires(q)
  BY <1>1, RemovedType DEF AfterExpiry, Expires, ForeignHead, Removed
<1>2. CASE ~Expires(q)
  BY <1>2 DEF AfterExpiry
<1> QED
  BY <1>1, <1>2

LEMMA SettleType ==
    ASSUME NEW f \in Seq(Fates), NEW t, NEW outcome \in Fates
    PROVE  Settle(f, t, outcome) \in Seq(Fates)
<1>1. CASE t.uid \in 1 .. Len(f)
  BY <1>1, ExceptSeq DEF Settle
<1>2. CASE t.uid \notin 1 .. Len(f)
  <2>1. Settle(f, t, outcome) = f
    BY <1>2, LenProperties DEF Settle
  <2> QED
    BY <2>1
<1> QED
  BY <1>1, <1>2

LEMMA InsertFateType ==
    ASSUME NEW f \in Seq(Fates), NEW q
    PROVE  InsertFate(f, q) \in Seq(Fates)
<1>1. "overflow" \in Fates /\ "open" \in Fates
  BY DEF Fates
<1>2. Settle(f, Head(q), "overflow") \in Seq(Fates)
  BY <1>1, SettleType
<1> QED
  BY <1>1, <1>2, AppendProperties DEF InsertFate

LEMMA FateAfterExpiryType ==
    ASSUME NEW f \in Seq(Fates), NEW q
    PROVE  FateAfterExpiry(q, f) \in Seq(Fates)
BY SettleType DEF FateAfterExpiry, Fates

LEMMA AddRxType ==
    ASSUME NEW q \in RxQueues, NEW r \in RxTelegrams
    PROVE  AddRx(q, r) \in RxQueues
<1> DEFINE room == IF Len(q) >= MaxRx THEN Tail(q) ELSE q
<1>1. room \in Seq(RxTelegrams) /\ Len(room) < MaxRx
  <2>1. CASE Len(q) >= MaxRx
    <3>1. q # <<>>
      BY <2>1, BoundsAssumption
    <3>2. Tail(q) \in Seq(RxTelegrams) /\ Len(Tail(q)) = Len(q) - 1
      BY <3>1, HeadTailProperties DEF RxQueues
    <3> QED
      BY <2>1, <3>2, BoundsAssumption, LenProperties DEF RxQueues
  <2>2. CASE ~(Len(q) >= MaxRx)
    BY <2>2, BoundsAssumption, LenProperties DEF RxQueues
  <2> QED
    BY <2>1, <2>2
<1>2. Append(room, r) \in Seq(RxTelegrams) /\ Len(Append(room, r)) = Len(room) + 1
  BY <1>1, AppendProperties
<1> QED
  BY <1>1, <1>2, BoundsAssumption, LenProperties DEF AddRx, RxQueues

LEMMA AddEmptyRxType ==
    ASSUME NEW q \in RxQueues, NEW type \in Types
    PROVE  AddEmptyRx(q, type) \in RxQueues
<1> DEFINE r == [type |-> type, toUs |-> TRUE, read |-> FALSE, own |-> FALSE, empty |-> TRUE]
<1>1. r \in RxTelegrams
  BY DEF RxTelegrams
<1>2. CASE Len(q) < MaxRx
  <2>1. Append(q, r) \in Seq(RxTelegrams) /\ Len(Append(q, r)) = Len(q) + 1
    BY <1>1, AppendProperties DEF RxQueues
  <2> QED
    BY <1>2, <2>1, BoundsAssumption, LenProperties DEF AddEmptyRx, RxQueues
<1>3. CASE ~(Len(q) < MaxRx)
  BY <1>3 DEF AddEmptyRx
<1> QED
  BY <1>2, <1>3

(* The telegrams that enter the queues.                                     *)
LEMMA NewTelegramType ==
    ASSUME NEW r \in RequestSet, fate \in Seq(Fates)
    PROVE  NewTelegram(r) \in Telegrams
<1>1. Len(fate) + 1 \in Nat \ {0}
  BY LenProperties
<1> QED
  BY <1>1 DEF NewTelegram, RequestSet, Telegrams

LEMMA InternalReadType ==
    ASSUME NEW type \in Types, NEW part \in 0 .. MaxParts, fate \in Seq(Fates)
    PROVE  InternalRead(type, part) \in Telegrams
<1> DEFINE r == [op |-> "TX_READ", src |-> "own", type |-> type, part |-> part,
                 val |-> NoType, size |-> "fits", full |-> FALSE, front |-> TRUE]
<1>1. r \in RequestSet
  BY DEF RequestSet, Operations, Sources, Sizes
<1>2. NewTelegram(r) \in Telegrams
  <2> HIDE DEF r
  <2> QED
    BY <1>1, NewTelegramType
<1> QED
  BY <1>2 DEF InternalRead

-----------------------------------------------------------------------------
(* What a transmission leaves behind, whatever the queue it looks at.       *)

TypeIds == Types \cup {NoType}

TxOK ==
    /\ txq \in TxQueues /\ fate \in Seq(Fates)
    /\ txState \in {"NONE", "TX_READ", "TX_WRITE"}
    /\ last \in Telegrams \cup {Null} /\ psq \in TypeIds
    /\ delayed \in BOOLEAN /\ echo \in Telegrams \cup {Null}
    /\ responseId \in TypeIds /\ readId \in TypeIds

(* TxService::send keeps the types, and what it puts on the wire is the      *)
(* telegram whose answer is awaited.                                         *)
LEMMA SendKeeps ==
    ASSUME TxOK, NEW q \in TxQueues, NEW f \in Seq(Fates), Send(q, f)
    PROVE  TxOK' /\ AwaitedTelegram'
<1> DEFINE t == Head(q)
<1>1. CASE SendNothing(q, f)
  BY <1>1 DEF SendNothing, TxOK, AwaitedTelegram
<1>2. ASSUME q # <<>>
      PROVE  /\ t \in Telegrams /\ Removed(q) \in TxQueues
             /\ t.val \in TypeIds /\ t.type \in TypeIds /\ t.op \in Operations
  BY <1>2, RemovedType, FieldTypes DEF TypeIds
<1>3. \A o \in Fates : Settle(f, t, o) \in Seq(Fates)
  BY SettleType
<1>4. CASE SendDiscard(q, f)
  <2>1. Settle(f, t, "discarded") \in Seq(Fates)
    BY <1>3 DEF Fates
  <2> HIDE DEF t
  <2>2. txq' = Removed(q) /\ delayed' = TRUE /\ txState' = "NONE" /\ last' \in {last, t}
        /\ fate' = Settle(f, t, "discarded") /\ q # <<>>
        /\ psq' = psq /\ echo' = echo /\ responseId' = responseId /\ readId' = readId
    BY <1>4 DEF SendDiscard, t
  <2> QED
    BY <1>2, <2>1, <2>2 DEF TxOK, AwaitedTelegram
<1>5. CASE SendFails(q, f)
  <2>1. Settle(f, t, "failed") \in Seq(Fates)
    BY <1>3 DEF Fates
  <2> QED
    BY <1>5, <1>2, <2>1 DEF SendFails, TxOK, AwaitedTelegram
<1>6. CASE Transmit(q, f)
  <2> DEFINE sent == [t EXCEPT !.begun = TRUE]
  <2>1. q # <<>> /\ last' = sent /\ psq' = t.val /\ txState' = Awaits(t) /\ echo' = t
        /\ txq' = Removed(q) /\ delayed' = TRUE
    BY <1>6, Zenon DEF Transmit
  <2>2. sent \in Telegrams
    BY <1>2, <2>1, UpdateType, NoTypeAssumption, Zenon
  <2>3. sent.op = t.op /\ sent.val = t.val
    BY <1>2, <2>1 DEF Telegrams
  <2>4. Awaits(sent) = Awaits(t) /\ Awaits(t) \in {"NONE", "TX_READ", "TX_WRITE"}
    BY <1>2, <2>1, <2>3 DEF Awaits, Operations
  <2>5. Settle(f, t, "sent") \in Seq(Fates)
    BY <1>3 DEF Fates
  <2>6. fate' \in Seq(Fates)
    BY <1>6, <2>5 DEF Transmit
  <2>7. responseId' \in TypeIds /\ readId' \in TypeIds
    BY <1>6, <1>2, <2>1 DEF Transmit, TxOK
  <2> HIDE DEF t, sent
  <2>8. sent # Null
    BY <2>2, NullAssumption
  <2>9. AwaitedTelegram'
    BY <2>1, <2>3, <2>4, <2>8, Zenon DEF AwaitedTelegram, Awaits
  <2>10. TxOK'
    BY <1>2, <2>1, <2>2, <2>4, <2>6, <2>7 DEF TxOK
  <2> QED
    BY <2>9, <2>10
<1> QED
  BY <1>1, <1>4, <1>5, <1>6 DEF Send

OthersOK ==
    /\ connected \in BOOLEAN /\ waitKm \in BOOLEAN /\ txOff \in BOOLEAN /\ readOnly \in BOOLEAN
    /\ retry \in 0 .. MaxRetries /\ polls \in 0 .. MaxPolls
    /\ rxq \in RxQueues
    /\ waitValidate \in TypeIds /\ publishId \in TypeIds /\ readNext \in BOOLEAN
    /\ adds \in 0 .. MaxAdds /\ outages \in 0 .. MaxOutages

LEMMA TypeParts == TypeOK <=> TxOK /\ OthersOK
BY DEF TypeOK, TxOK, OthersOK, TxQueues, RxQueues, TypeIds

LEMMA TypePartsNext == TypeOK' <=> TxOK' /\ OthersOK'
BY DEF TypeOK, TxOK, OthersOK, TxQueues, RxQueues, TypeIds

LEMMA InitIInv == Init => IInv
<1> SUFFICES ASSUME Init PROVE IInv
  OBVIOUS
<1>1. <<>> \in TxQueues /\ <<>> \in RxQueues /\ <<>> \in Seq(Fates)
  BY EmptySeq, BoundsAssumption DEF TxQueues, RxQueues
<1>2. TxOK
  BY <1>1 DEF Init, TxOK, TypeIds
<1>3. /\ 0 \in 0 .. MaxRetries /\ 0 \in 0 .. MaxPolls
      /\ 0 \in 0 .. MaxAdds /\ 0 \in 0 .. MaxOutages
  BY BoundsAssumption
<1>4. OthersOK
  BY <1>1, <1>3, Zenon DEF Init, OthersOK, TypeIds
<1> QED
  BY <1>2, <1>4, TypeParts DEF IInv, AwaitedTelegram, Init

(* get_send_id and the wait for the gateway leave the queue a queue.        *)
LEMMA NotPolledKeeps ==
    ASSUME NEW id, NEW q \in TxQueues, NEW f \in Seq(Fates), OthersOK, NotPolled(id, q, f)
    PROVE  /\ txq' \in TxQueues /\ fate' \in Seq(Fates)
           /\ waitKm' \in BOOLEAN /\ polls' \in 0 .. MaxPolls
<1>1. AfterExpiry(q) \in TxQueues /\ FateAfterExpiry(q, f) \in Seq(Fates)
  BY AfterExpiryType, FateAfterExpiryType
<1>2. CASE Held(id) /\ txq' = q /\ fate' = f
  BY <1>2 DEF Held, OthersOK
<1>3. CASE Passed(id, q) /\ txq' = AfterExpiry(q) /\ fate' = FateAfterExpiry(q, f)
  <2>1. polls' \in 0 .. MaxPolls
    BY <1>3, BoundsAssumption DEF Passed, CountPoll, Expires, OthersOK
  <2> QED
    BY <1>1, <1>3, <2>1 DEF Passed
<1> QED
  BY <1>2, <1>3 DEF NotPolled

LEMMA PollKeeps ==
    ASSUME IInv, NEW id, Poll(id)
    PROVE  IInv'
<1>1. TxOK /\ OthersOK /\ AwaitedTelegram
  BY TypeParts DEF IInv
<1>2. txq \in TxQueues /\ fate \in Seq(Fates)
  BY <1>1 DEF TxOK
<1>3. CASE /\ NotPolled(id, txq, fate)
           /\ UNCHANGED <<txState, last, psq, delayed, echo, responseId, readId>>
  <2>1. /\ txq' \in TxQueues /\ fate' \in Seq(Fates)
        /\ waitKm' \in BOOLEAN /\ polls' \in 0 .. MaxPolls
    BY <1>1, <1>2, <1>3, NotPolledKeeps
  <2>2. TxOK'
    BY <1>1, <1>3, <2>1 DEF TxOK
  <2>3. OthersOK'
    BY <1>1, <2>1 DEF Poll, OthersOK, mode
  <2>4. AwaitedTelegram'
    BY <1>1, <1>3, Zenon DEF AwaitedTelegram, Awaits
  <2> QED
    BY <2>2, <2>3, <2>4, TypePartsNext DEF IInv
<1>4. CASE /\ Passed(id, txq) /\ id = SendId(AfterExpiry(txq))
           /\ Send(AfterExpiry(txq), FateAfterExpiry(txq, fate))
  <2>1. AfterExpiry(txq) \in TxQueues /\ FateAfterExpiry(txq, fate) \in Seq(Fates)
    BY <1>2, AfterExpiryType, FateAfterExpiryType
  <2>2. TxOK' /\ AwaitedTelegram'
    BY <1>1, <1>4, <2>1, SendKeeps
  <2>3. waitKm' = FALSE /\ polls' \in 0 .. MaxPolls
    BY <1>1, <1>4, BoundsAssumption DEF Passed, CountPoll, Expires, OthersOK
  <2>4. OthersOK'
    BY <1>1, <2>3 DEF Poll, OthersOK, mode
  <2> QED
    BY <2>2, <2>4, TypePartsNext DEF IInv
<1> QED
  BY <1>3, <1>4 DEF Poll

LEMMA EchoKeeps ==
    ASSUME IInv, Echo
    PROVE  IInv'
<1>1. TxOK /\ OthersOK /\ AwaitedTelegram
  BY TypeParts DEF IInv
<1> DEFINE r == [type |-> echo.type, toUs |-> FALSE, own |-> echo.src = "own",
                 read |-> echo.op \in {"TX_READ", "TX_RAW"}, empty |-> FALSE]
<1>2. echo \in Telegrams
  BY <1>1 DEF Echo, TxOK
<1>3. r \in RxTelegrams
  BY <1>2, FieldTypes DEF RxTelegrams
<1>4. AddRx(rxq, r) \in RxQueues
  <2> HIDE DEF r
  <2> QED
    BY <1>1, <1>3, AddRxType DEF OthersOK
<1>5. rxq' \in RxQueues
  BY <1>1, <1>4 DEF Echo, OthersOK
<1>6. TxOK'
  BY <1>1 DEF Echo, TxOK, ids
<1>7. OthersOK'
  BY <1>1, <1>5 DEF Echo, OthersOK, ids, conn, mode
<1>8. AwaitedTelegram'
  BY <1>1, Zenon DEF Echo, AwaitedTelegram, Awaits
<1> QED
  BY <1>6, <1>7, <1>8, TypePartsNext DEF IInv

LEMMA WriteAckedKeeps ==
    ASSUME IInv, WriteAcked
    PROVE  IInv'
<1>1. TxOK /\ OthersOK /\ AwaitedTelegram
  BY TypeParts DEF IInv
<1>2. last \in Telegrams /\ psq \in TypeIds /\ txq \in TxQueues /\ fate \in Seq(Fates)
  BY <1>1 DEF WriteAcked, AwaitedTelegram, TxOK
<1> DEFINE settled  == Settle(fate, last, "written")
           readback == InternalRead(psq, IF psq = last.type THEN last.part ELSE 0)
           q == IF psq = NoType THEN txq ELSE InsertTx(txq, readback, TRUE)
           f == IF psq = NoType THEN settled ELSE InsertFate(settled, txq)
<1>3. settled \in Seq(Fates)
  BY <1>2, SettleType DEF Fates
<1>4. psq # NoType => readback \in Telegrams
  <2>1. (IF psq = last.type THEN last.part ELSE 0) \in 0 .. MaxParts
    BY <1>2, FieldTypes, BoundsAssumption
  <2> QED
    BY <1>2, <2>1, InternalReadType DEF TypeIds
<1>5. q \in TxQueues /\ f \in Seq(Fates)
  <2> HIDE DEF settled, readback
  <2> QED
    BY <1>2, <1>3, <1>4, InsertTxType, InsertFateType
<1>6. NotPolled("ack", q, f)
  BY Zenon DEF WriteAcked
<1>7. /\ txq' \in TxQueues /\ fate' \in Seq(Fates)
      /\ waitKm' \in BOOLEAN /\ polls' \in 0 .. MaxPolls
  <2> HIDE DEF q, f
  <2> QED
    BY <1>1, <1>5, <1>6, NotPolledKeeps
<1>8. delayed' \in BOOLEAN /\ retry' \in 0 .. MaxRetries
  <2>1. delayed' = (IF psq = NoType THEN delayed ELSE psq # last.type)
    BY Zenon DEF WriteAcked
  <2>2. delayed \in BOOLEAN /\ (psq # last.type) \in BOOLEAN
    BY <1>1 DEF TxOK
  <2>3. delayed' \in BOOLEAN
    BY <2>1, <2>2, Zenon
  <2>4. retry' = 0
    BY Zenon DEF WriteAcked
  <2>5. retry' \in 0 .. MaxRetries
    BY <2>4, BoundsAssumption
  <2> QED
    BY <2>3, <2>5
<1>9. /\ txState' = "NONE" /\ psq' = NoType /\ publishId' = psq
      /\ UNCHANGED <<last, echo, rxq, waitValidate, responseId, readId, readNext,
                     connected, outages, mode, adds>>
  BY Zenon DEF WriteAcked
<1>10. TxOK' /\ OthersOK'
  BY <1>1, <1>7, <1>8, <1>9 DEF TxOK, OthersOK, TypeIds, mode
<1> QED
  BY <1>10, TypePartsNext DEF IInv, AwaitedTelegram, WriteAcked

LEMMA WriteRejectedKeeps ==
    ASSUME IInv, WriteRejected
    PROVE  IInv'
<1>1. TxOK /\ OthersOK /\ AwaitedTelegram
  BY TypeParts DEF IInv
<1>2. txq \in TxQueues /\ Settle(fate, last, "rejected") \in Seq(Fates)
  BY <1>1, SettleType DEF TxOK, Fates
<1>3. /\ txq' \in TxQueues /\ fate' \in Seq(Fates)
      /\ waitKm' \in BOOLEAN /\ polls' \in 0 .. MaxPolls
  BY <1>1, <1>2, NotPolledKeeps DEF WriteRejected
<1>4. TxOK' /\ OthersOK'
  BY <1>1, <1>3, BoundsAssumption DEF WriteRejected, TxOK, OthersOK, TypeIds, mode, ids
<1> QED
  BY <1>4, TypePartsNext DEF IInv, AwaitedTelegram, WriteRejected

LEMMA AnswerKeeps ==
    ASSUME OthersOK, NEW type \in Types, NEW crc \in BOOLEAN, Answer(type, crc)
    PROVE  rxq' \in RxQueues
<1> DEFINE r == [type |-> type, toUs |-> TRUE, read |-> FALSE, own |-> FALSE, empty |-> FALSE]
<1>1. r \in RxTelegrams
  BY DEF RxTelegrams
<1>2. AddRx(rxq, r) \in RxQueues
  <2> HIDE DEF r
  <2> QED
    BY <1>1, AddRxType DEF OthersOK
<1> QED
  BY <1>2 DEF Answer, OthersOK

LEMMA ReadAnsweredKeeps ==
    ASSUME IInv, NEW type \in Types, NEW crc \in BOOLEAN, NEW more \in BOOLEAN,
           ReadAnswered(type, crc, more)
    PROVE  IInv'
<1>1. TxOK /\ OthersOK /\ AwaitedTelegram
  BY TypeParts DEF IInv
<1>2. last \in Telegrams /\ txq \in TxQueues /\ fate \in Seq(Fates)
  BY <1>1 DEF ReadAnswered, AwaitedTelegram, TxOK
<1> DEFINE settled == Settle(fate, last, "read")
           next    == InternalRead(last.type, last.part + 1)
<1>3. settled \in Seq(Fates)
  BY <1>2, SettleType DEF Fates
<1>4. rxq' \in RxQueues
  BY <1>1, AnswerKeeps, Zenon DEF ReadAnswered
<1>5. OthersOK'
  <2>1. retry' \in 0 .. MaxRetries
    BY BoundsAssumption DEF ReadAnswered
  <2>2. readNext' \in BOOLEAN
    BY DEF ReadAnswered
  <2>3. UNCHANGED <<polls, waitValidate, publishId, conn, mode, adds>>
    BY Zenon DEF ReadAnswered
  <2> QED
    BY <1>1, <1>4, <2>1, <2>2, <2>3 DEF OthersOK, conn, mode
<1>6. CASE more
  <2>1. last.part + 1 \in 0 .. MaxParts /\ last.type \in Types
    BY <1>2, <1>6, FieldTypes, BoundsAssumption DEF ReadAnswered
  <2>2. next \in Telegrams
    BY <1>2, <2>1, InternalReadType
  <2>3. InsertTx(txq, next, TRUE) \in TxQueues /\ InsertFate(settled, txq) \in Seq(Fates)
    <3> HIDE DEF settled, next
    <3> QED
      BY <1>2, <1>3, <2>2, InsertTxType, InsertFateType
  <2>4. Send(InsertTx(txq, next, TRUE), InsertFate(settled, txq))
    BY <1>6, Zenon DEF ReadAnswered
  <2>5. TxOK' /\ AwaitedTelegram'
    <3> HIDE DEF settled, next
    <3> QED
      BY <1>1, <2>3, <2>4, SendKeeps
  <2> QED
    BY <1>5, <2>5, TypePartsNext DEF IInv
<1>7. CASE ~more
  <2>1. /\ txState' = "NONE" /\ fate' = settled
        /\ UNCHANGED <<txq, last, psq, delayed, echo, responseId, readId>>
    BY <1>7, Zenon DEF ReadAnswered
  <2>2. TxOK' /\ AwaitedTelegram'
    <3> HIDE DEF settled
    <3> QED
      BY <1>1, <1>3, <2>1 DEF TxOK, AwaitedTelegram
  <2> QED
    BY <1>5, <2>2, TypePartsNext DEF IInv
<1> QED
  BY <1>6, <1>7

(* retry_tx: the telegram put back is the one in telegram_last_, with the   *)
(* type to read back that was taken from it.                                *)
LEMMA NoAnswerKeeps ==
    ASSUME IInv, NoAnswer
    PROVE  IInv'
<1>1. TxOK /\ OthersOK /\ AwaitedTelegram
  BY TypeParts DEF IInv
<1>2. last \in Telegrams /\ psq \in TypeIds /\ txq \in TxQueues /\ fate \in Seq(Fates)
      /\ rxq \in RxQueues /\ last.type \in Types
  BY <1>1, FieldTypes DEF NoAnswer, AwaitedTelegram, TxOK, OthersOK
<1>3. /\ txState' = "NONE"
      /\ UNCHANGED <<psq, polls, echo, publishId, readNext, conn, mode, adds>>
  BY Zenon DEF NoAnswer
<1>4. \A o \in Fates : Settle(fate, last, o) \in Seq(Fates)
  BY <1>2, SettleType
<1>5. ASSUME /\ txq' \in TxQueues /\ fate' \in Seq(Fates) /\ rxq' \in RxQueues
             /\ last' \in Telegrams \cup {Null} /\ delayed' \in BOOLEAN
             /\ retry' \in 0 .. MaxRetries /\ waitValidate' \in TypeIds
             /\ responseId' \in TypeIds /\ readId' \in TypeIds
      PROVE  IInv'
  <2>1. TxOK' /\ OthersOK'
    BY <1>1, <1>3, <1>5 DEF TxOK, OthersOK, conn, mode
  <2> QED
    BY <1>3, <2>1, TypePartsNext DEF IInv, AwaitedTelegram
<1>6. CASE GiveUp
  <2>1. retry' = 0 /\ waitValidate' = NoType /\ UNCHANGED <<txq, last, delayed>>
    BY <1>6 DEF GiveUp
  <2>2. fate' \in Seq(Fates)
    BY <1>4, <1>6 DEF GiveUp, Fates
  <2>3. AddEmptyRx(rxq, last.type) \in RxQueues
    BY <1>2, AddEmptyRxType
  <2>4. rxq' \in RxQueues
    BY <1>2, <1>6, <2>3 DEF GiveUp
  <2>5. responseId' \in TypeIds /\ readId' \in TypeIds
    BY <1>1, <1>6 DEF GiveUp, TxOK, TypeIds
  <2>6. retry' \in 0 .. MaxRetries /\ waitValidate' \in TypeIds
    BY <2>1, BoundsAssumption DEF TypeIds
  <2> QED
    BY <1>1, <1>5, <2>1, <2>2, <2>4, <2>5, <2>6 DEF TxOK
<1>7. CASE SkipRetry
  <2>1. /\ retry' = 0 /\ waitValidate' = NoType /\ fate' = Settle(fate, last, "skipped")
        /\ UNCHANGED <<txq, last, delayed, rxq, responseId, readId>>
    BY <1>7 DEF SkipRetry
  <2>2. fate' \in Seq(Fates)
    BY <1>4, <2>1 DEF Fates
  <2>3. retry' \in 0 .. MaxRetries /\ waitValidate' \in TypeIds
    BY <2>1, BoundsAssumption DEF TypeIds
  <2> QED
    BY <1>1, <1>5, <2>1, <2>2, <2>3 DEF TxOK, OthersOK
<1>8. CASE RetryLast
  <2> DEFINE again == [last EXCEPT !.val = psq]
  <2>1. again \in Telegrams
    BY <1>2, UpdateType, Zenon DEF TypeIds
  <2>2. /\ txq' = Requeue(txq, again) /\ last' = Null /\ retry' = retry + 1
        /\ delayed' = (retry' = MaxRetries)
        /\ UNCHANGED <<fate, rxq, waitValidate, responseId, readId>>
    BY <1>8, Zenon DEF RetryLast
  <2>3. Requeue(txq, again) \in TxQueues
    <3> HIDE DEF again
    <3>1. <<again>> \in Seq(Telegrams) /\ Len(<<again>>) = 1
      BY <2>1
    <3>2. <<again>> \o txq \in Seq(Telegrams) /\ Len(<<again>> \o txq) = 1 + Len(txq)
      BY <1>2, <3>1, ConcatProperties DEF TxQueues
    <3>3. Len(txq) < MaxTx
      BY <1>8 DEF RetryLast
    <3> QED
      BY <1>2, <3>2, <3>3, BoundsAssumption, LenProperties DEF Requeue, TxQueues
  <2>4. retry' \in 0 .. MaxRetries
    BY <1>1, <1>8, <2>2, BoundsAssumption DEF RetryLast, RetriesUsedUp, OthersOK
  <2>5. delayed' \in BOOLEAN
    BY <2>2, Zenon
  <2> QED
    BY <1>1, <1>5, <2>2, <2>3, <2>4, <2>5 DEF TxOK, OthersOK
<1> QED
  BY <1>6, <1>7, <1>8, Zenon DEF NoAnswer

LEMMA BroadcastKeeps ==
    ASSUME IInv, NEW r \in Broadcasts, Broadcast(r)
    PROVE  IInv'
<1>1. TxOK /\ OthersOK /\ AwaitedTelegram
  BY TypeParts DEF IInv
<1>2. rxq' \in RxQueues
  BY <1>1, AddRxType, BroadcastsAssumption DEF Broadcast, OthersOK
<1>3. TxOK' /\ OthersOK'
  BY <1>1, <1>2 DEF Broadcast, TxOK, OthersOK, tx, ids, conn, mode
<1> QED
  BY <1>1, <1>3, TypePartsNext DEF IInv, AwaitedTelegram, Broadcast, tx

LEMMA AddKeeps ==
    ASSUME IInv, NEW r \in Requests, Add(r)
    PROVE  IInv'
<1>1. TxOK /\ OthersOK /\ AwaitedTelegram
  BY TypeParts DEF IInv
<1>2. r \in RequestSet /\ r.type \in TypeIds /\ r.val \in TypeIds
  BY RequestsAssumption DEF RequestSet, TypeIds
<1> DEFINE front == r.front /\ (r.op = "TX_RAW" => responseId = NoType)
           placed == [r EXCEPT !.front = front]
           t == NewTelegram(placed)
<1>3. placed \in RequestSet
  BY <1>2 DEF RequestSet
<1>4. t \in Telegrams /\ txq \in TxQueues /\ fate \in Seq(Fates)
  <2> HIDE DEF placed
  <2> QED
    BY <1>1, <1>3, NewTelegramType DEF TxOK
<1>5. InsertTx(txq, t, front) \in TxQueues /\ InsertFate(fate, txq) \in Seq(Fates)
  <2> HIDE DEF t, front
  <2> QED
    BY <1>4, InsertTxType, InsertFateType
<1>6. txq' \in TxQueues /\ fate' \in Seq(Fates)
  BY <1>5, Zenon DEF Add
<1>7. /\ adds < MaxAdds /\ adds' = adds + 1
      /\ waitValidate' \in {r.val, waitValidate} /\ readId' \in {r.type, readId}
      /\ UNCHANGED <<txState, last, psq, retry, delayed, polls, echo, rxq, publishId,
                     responseId, readNext, conn, mode>>
  BY Zenon DEF Add
<1>8. adds' \in 0 .. MaxAdds
  BY <1>1, <1>7, BoundsAssumption DEF OthersOK
<1>9. TxOK' /\ OthersOK'
  BY <1>1, <1>2, <1>6, <1>7, <1>8 DEF TxOK, OthersOK, conn, mode
<1> QED
  BY <1>1, <1>7, <1>9, TypePartsNext, Zenon DEF IInv, AwaitedTelegram, Awaits

LEMMA ProcessTelegramKeeps ==
    ASSUME IInv, NEW published \in BOOLEAN, NEW unknown \in BOOLEAN,
           ProcessTelegram(published, unknown)
    PROVE  IInv'
<1>1. TxOK /\ OthersOK /\ AwaitedTelegram
  BY TypeParts DEF IInv
<1> DEFINE r == [op |-> "TX_READ", src |-> "own", type |-> VersionType, part |-> 0,
                 val |-> NoType, size |-> "fits", full |-> FALSE, front |-> FALSE]
           t == NewTelegram(r)
<1>2. r \in RequestSet
  BY NoTypeAssumption, BoundsAssumption DEF RequestSet, Operations, Sources, Sizes
<1>3. t \in Telegrams /\ txq \in TxQueues /\ fate \in Seq(Fates)
  <2> HIDE DEF r
  <2> QED
    BY <1>1, <1>2, NewTelegramType DEF TxOK
<1>4. InsertTx(txq, t, FALSE) \in TxQueues /\ InsertFate(fate, txq) \in Seq(Fates)
  <2> HIDE DEF t
  <2> QED
    BY <1>3, InsertTxType, InsertFateType
<1>5. \/ /\ txq' = InsertTx(txq, t, FALSE) /\ fate' = InsertFate(fate, txq)
         /\ adds' = adds + 1 /\ adds < MaxAdds
      \/ UNCHANGED <<txq, fate, adds>>
  BY Zenon DEF ProcessTelegram
<1>6. txq' \in TxQueues /\ fate' \in Seq(Fates)
  BY <1>3, <1>4, <1>5, Zenon
<1>7. adds' \in 0 .. MaxAdds
  <2>1. (adds' = adds + 1 /\ adds < MaxAdds) \/ adds' = adds
    BY <1>5, Zenon
  <2> QED
    BY <1>1, <2>1, BoundsAssumption DEF OthersOK
<1>8. rxq # <<>> /\ rxq' = Tail(rxq)
  BY Zenon DEF ProcessTelegram
<1>9. rxq' \in RxQueues
  <2>1. rxq \in Seq(RxTelegrams) /\ Len(rxq) <= MaxRx
    BY <1>1 DEF OthersOK, RxQueues
  <2>2. Tail(rxq) \in Seq(RxTelegrams) /\ Len(Tail(rxq)) = Len(rxq) - 1
    BY <1>8, <2>1, HeadTailProperties
  <2> QED
    BY <1>8, <2>1, <2>2, BoundsAssumption, LenProperties DEF RxQueues
<1>10. /\ responseId' \in {NoType, responseId} /\ readId' \in {NoType, readId}
       /\ waitValidate' \in {NoType, waitValidate} /\ publishId' \in {NoType, publishId}
       /\ UNCHANGED <<txState, last, psq, retry, delayed, polls, echo, conn, mode>>
  BY Zenon DEF ProcessTelegram
<1>11. readNext' \in BOOLEAN
  BY Zenon DEF ProcessTelegram
<1>12. TxOK' /\ OthersOK'
  BY <1>1, <1>6, <1>7, <1>9, <1>10, <1>11 DEF TxOK, OthersOK, TypeIds, conn, mode
<1> QED
  BY <1>1, <1>10, <1>12, TypePartsNext, Zenon DEF IInv, AwaitedTelegram, Awaits

LEMMA SettingsAndTimeKeep ==
    ASSUME IInv, SetModes \/ DelayOver \/ BusTimeout \/ UNCHANGED vars
    PROVE  IInv'
<1>1. TxOK /\ OthersOK /\ AwaitedTelegram
  BY TypeParts DEF IInv
<1>2. CASE SetModes
  <2>1. txOff' \in BOOLEAN /\ readOnly' \in BOOLEAN
    BY <1>2, ModesAssumption DEF SetModes
  <2>2. TxOK' /\ OthersOK'
    BY <1>1, <1>2, <2>1 DEF SetModes, TxOK, OthersOK, tx, ids, conn
  <2> QED
    BY <1>1, <1>2, <2>2, TypePartsNext, Zenon DEF IInv, SetModes, AwaitedTelegram, Awaits, tx
<1>3. CASE DelayOver
  <2>1. TxOK' /\ OthersOK'
    BY <1>1, <1>3 DEF DelayOver, TxOK, OthersOK, ids, conn, mode
  <2> QED
    BY <1>1, <1>3, <2>1, TypePartsNext, Zenon DEF IInv, DelayOver, AwaitedTelegram, Awaits
<1>4. CASE BusTimeout
  <2>1. outages' \in 0 .. MaxOutages
    BY <1>1, <1>4, BoundsAssumption DEF BusTimeout, OthersOK
  <2>2. TxOK' /\ OthersOK'
    BY <1>1, <1>4, <2>1 DEF BusTimeout, TxOK, OthersOK, tx, ids, mode
  <2> QED
    BY <1>1, <1>4, <2>2, TypePartsNext, Zenon DEF IInv, BusTimeout, AwaitedTelegram, Awaits, tx
<1>5. CASE UNCHANGED vars
  <2>1. TxOK' /\ OthersOK'
    BY <1>1, <1>5 DEF vars, TxOK, OthersOK, tx, ids, conn, mode
  <2> QED
    BY <1>1, <1>5, <2>1, TypePartsNext, Zenon DEF IInv, vars, AwaitedTelegram, Awaits, tx
<1> QED
  BY <1>2, <1>3, <1>4, <1>5

LEMMA NextKeeps == IInv /\ [Next]_vars => IInv'
<1> SUFFICES ASSUME IInv, [Next]_vars PROVE IInv'
  OBVIOUS
<1>1. CASE Bus
  BY <1>1, EchoKeeps, PollKeeps, WriteAckedKeeps, WriteRejectedKeeps, ReadAnsweredKeeps,
     NoAnswerKeeps, BroadcastKeeps, Zenon DEF Bus
<1>2. CASE Main
  BY <1>2, AddKeeps, ProcessTelegramKeeps, SettingsAndTimeKeep, Zenon DEF Main
<1>3. CASE Time \/ UNCHANGED vars
  BY <1>3, SettingsAndTimeKeep, Zenon DEF Time
<1> QED
  BY <1>1, <1>2, <1>3, Zenon DEF Next

-----------------------------------------------------------------------------
(* TxService and RxService keep their queues within MAX_TX_TELEGRAMS and     *)
(* MAX_RX_TELEGRAMS and retry_count_ within MAXIMUM_TX_RETRIES, whatever the *)
(* bus and the rest of the firmware do.                                      *)
THEOREM TypesCorrect == Spec => []TypeOK
<1>1. Spec => []IInv
  BY InitIInv, NextKeeps, PTL DEF Spec
<1>2. IInv => TypeOK
  BY DEF IInv
<1> QED
  BY <1>1, <1>2, PTL

(* incoming_telegram never dereferences an empty telegram_last_: whenever it *)
(* takes a frame for an answer, telegram_last_ is the telegram asked about.  *)
THEOREM AnswerHasRequest == Spec => []AwaitedTelegram
<1>1. Spec => []IInv
  BY InitIInv, NextKeeps, PTL DEF Spec
<1>2. IInv => AwaitedTelegram
  BY DEF IInv
<1> QED
  BY <1>1, <1>2, PTL

-----------------------------------------------------------------------------
(***************************************************************************)
(* What becomes of a request: it is open exactly while it is queued or in  *)
(* flight, held once, settled once, and those queued at the back stay in   *)
(* order.  None of the four is inductive alone: a telegram put in the      *)
(* queue is a new one only because the uids handed out so far are those of *)
(* the history, and a retried one goes back in its place only because it   *)
(* was in front of the rest.                                               *)
(***************************************************************************)

Flight == IF txState = "NONE" THEN {} ELSE {last}

Positions(q) == 1 .. Len(q)

(* The queue q and the telegrams L in flight are what the history f calls   *)
(* open.                                                                    *)
Distinct(q)     == \A i, j \in Positions(q) : q[i].uid = q[j].uid => i = j
Numbered(q, f)  == \A i \in Positions(q) : q[i].uid \in 1 .. Len(f)
Apart(q, f, L)  == \A l \in L : /\ l.uid \in 1 .. Len(f)
                                /\ \A i \in Positions(q) : q[i].uid # l.uid
Holds(q, L, u)  == (\E i \in Positions(q) : q[i].uid = u) \/ (\E l \in L : l.uid = u)
OpenHeld(q, f, L) == \A u \in 1 .. Len(f) : f[u] = "open" <=> Holds(q, L, u)
InOrder(q)      == \A i, j \in Positions(q) :
                       i < j /\ q[i].fifo /\ q[j].fifo => q[i].uid < q[j].uid
Ahead(q, L)     == \A l \in L : l.fifo =>
                       \A i \in Positions(q) : q[i].fifo => l.uid < q[i].uid

Accounted(q, f, L) ==
    /\ Distinct(q) /\ Numbered(q, f) /\ Apart(q, f, L)
    /\ OpenHeld(q, f, L) /\ InOrder(q) /\ Ahead(q, L)

(* The history g records all that f does.                                   *)
Kept(f, g) == Len(f) <= Len(g) /\ \A u \in 1 .. Len(f) : f[u] # "open" => g[u] = f[u]

Settled == Fates \ {"open"}

AInv == IInv /\ Accounted(txq, fate, Flight)

-----------------------------------------------------------------------------
(* Histories.                                                               *)

LEMMA SettleFacts ==
    ASSUME NEW f \in Seq(Fates), NEW t, NEW o \in Fates, t.uid \in 1 .. Len(f)
    PROVE  /\ Settle(f, t, o) \in Seq(Fates)
           /\ Len(Settle(f, t, o)) = Len(f)
           /\ \A u \in 1 .. Len(f) : Settle(f, t, o)[u] = IF u = t.uid THEN o ELSE f[u]
BY ExceptSeq DEF Settle

LEMMA KeptTransitive ==
    ASSUME NEW f \in Seq(Fates), NEW g \in Seq(Fates), NEW h \in Seq(Fates),
           Kept(f, g), Kept(g, h)
    PROVE  Kept(f, h)
<1>1. Len(f) \in Nat /\ Len(g) \in Nat /\ Len(h) \in Nat
  BY LenProperties
<1> QED
  BY <1>1 DEF Kept

LEMMA KeptSame == ASSUME NEW f \in Seq(Fates) PROVE Kept(f, f)
BY LenProperties DEF Kept

LEMMA SettleKept ==
    ASSUME NEW f \in Seq(Fates), NEW t, NEW o \in Fates, t.uid \in 1 .. Len(f),
           f[t.uid] = "open"
    PROVE  Kept(f, Settle(f, t, o))
BY SettleFacts, LenProperties DEF Kept

LEMMA OpenedFacts ==
    ASSUME NEW f \in Seq(Fates)
    PROVE  /\ Append(f, "open") \in Seq(Fates)
           /\ Len(Append(f, "open")) = Len(f) + 1
           /\ \A u \in 1 .. Len(f) : Append(f, "open")[u] = f[u]
           /\ Append(f, "open")[Len(f) + 1] = "open"
           /\ Kept(f, Append(f, "open"))
<1>1. "open" \in Fates
  BY DEF Fates
<1>2. /\ Append(f, "open") \in Seq(Fates)
      /\ Len(Append(f, "open")) = Len(f) + 1
      /\ \A u \in 1 .. Len(f) : Append(f, "open")[u] = f[u]
      /\ Append(f, "open")[Len(f) + 1] = "open"
  BY <1>1, AppendProperties
<1> QED
  BY <1>2, LenProperties DEF Kept

-----------------------------------------------------------------------------
(* Queues.                                                                  *)

LEMMA QueueFacts ==
    ASSUME NEW q \in TxQueues
    PROVE  /\ q \in Seq(Telegrams) /\ Len(q) \in Nat
           /\ \A i \in Positions(q) : q[i] \in Telegrams /\ q[i].uid \in Nat /\ q[i].fifo \in BOOLEAN
<1>1. q \in Seq(Telegrams) /\ Len(q) \in Nat
  BY LenProperties DEF TxQueues
<1>2. \A i \in Positions(q) : q[i] \in Telegrams
  BY <1>1, ElementOfSeq DEF Positions
<1>3. \A t \in Telegrams : t.uid \in Nat /\ t.fifo \in BOOLEAN
  BY DEF Telegrams
<1> QED
  BY <1>1, <1>2, <1>3

LEMMA WithoutHead ==
    ASSUME NEW q \in TxQueues, q # <<>>
    PROVE  /\ Tail(q) \in TxQueues /\ Len(Tail(q)) = Len(q) - 1 /\ Len(q) \in Nat \ {0}
           /\ Head(q) = q[1] /\ Head(q) \in Telegrams
           /\ \A i \in Positions(Tail(q)) : i + 1 \in Positions(q) /\ Tail(q)[i] = q[i + 1]
           /\ \A j \in Positions(q) \ {1} : j - 1 \in Positions(Tail(q)) /\ q[j] = Tail(q)[j - 1]
<1>1. q \in Seq(Telegrams) /\ Len(q) \in Nat
  BY QueueFacts
<1>2. /\ Tail(q) \in Seq(Telegrams) /\ Len(Tail(q)) = Len(q) - 1
      /\ Head(q) = q[1] /\ Head(q) \in Telegrams
      /\ \A i \in 1 .. Len(Tail(q)) : Tail(q)[i] = q[i + 1]
  BY <1>1, HeadTailProperties
<1>3. Len(q) # 0
  BY <1>1, EmptySeq
<1>4. Tail(q) \in TxQueues
  BY <1>1, <1>2, BoundsAssumption DEF TxQueues
<1> QED
  BY <1>1, <1>2, <1>3, <1>4 DEF Positions

LEMMA WithFront ==
    ASSUME NEW q \in TxQueues, NEW t \in Telegrams
    PROVE  /\ Len(<<t>> \o q) = Len(q) + 1
           /\ (<<t>> \o q)[1] = t
           /\ \A i \in Positions(q) : (<<t>> \o q)[i + 1] = q[i]
           /\ \A j \in Positions(<<t>> \o q) \ {1} :
                 j - 1 \in Positions(q) /\ (<<t>> \o q)[j] = q[j - 1]
<1>1. q \in Seq(Telegrams) /\ Len(q) \in Nat
  BY QueueFacts
<1>2. <<t>> \in Seq(Telegrams) /\ Len(<<t>>) = 1 /\ <<t>>[1] = t
  OBVIOUS
<1>3. /\ Len(<<t>> \o q) = 1 + Len(q)
      /\ \A j \in 1 .. 1 + Len(q) : (<<t>> \o q)[j] = IF j <= 1 THEN <<t>>[j] ELSE q[j - 1]
  BY <1>1, <1>2, ConcatProperties
<1>4. \A i \in Positions(q) : i + 1 \in 1 .. 1 + Len(q) /\ ~(i + 1 <= 1) /\ (i + 1) - 1 = i
  BY <1>1 DEF Positions
<1>5. \A j \in (1 .. 1 + Len(q)) \ {1} : j - 1 \in Positions(q) /\ ~(j <= 1)
  BY <1>1 DEF Positions
<1>6. Positions(<<t>> \o q) = 1 .. 1 + Len(q) /\ 1 \in 1 .. 1 + Len(q)
  BY <1>1, <1>3 DEF Positions
<1> DEFINE p == <<t>> \o q
           s == <<t>>
<1>7. /\ Len(p) = Len(q) + 1 /\ s[1] = t /\ Positions(p) = 1 .. 1 + Len(q)
      /\ \A j \in 1 .. 1 + Len(q) : p[j] = IF j <= 1 THEN s[j] ELSE q[j - 1]
  BY <1>1, <1>2, <1>3, <1>6
<1> HIDE DEF p, s
<1>8. p[1] = t
  BY <1>6, <1>7
<1>9. \A i \in Positions(q) : p[i + 1] = q[i]
  BY <1>4, <1>7
<1>10. \A j \in Positions(p) \ {1} : j - 1 \in Positions(q) /\ p[j] = q[j - 1]
  BY <1>5, <1>7
<1> QED
  BY <1>7, <1>8, <1>9, <1>10 DEF p

LEMMA WithBack ==
    ASSUME NEW q \in TxQueues, NEW t \in Telegrams
    PROVE  /\ Len(Append(q, t)) = Len(q) + 1
           /\ Append(q, t)[Len(q) + 1] = t
           /\ \A i \in Positions(q) : Append(q, t)[i] = q[i]
BY QueueFacts, AppendProperties DEF Positions

-----------------------------------------------------------------------------
(* The accounts of a request through its life.                              *)

(* The head of the queue is settled: expired, pushed out, sent or failed.   *)
LEMMA HeadSettled ==
    ASSUME NEW q \in TxQueues, NEW f \in Seq(Fates), NEW L \in SUBSET Telegrams,
           NEW o \in Settled, Accounted(q, f, L), q # <<>>
    PROVE  Accounted(Tail(q), Settle(f, Head(q), o), L) /\ Kept(f, Settle(f, Head(q), o))
<1> DEFINE p == Tail(q)
           t == Head(q)
           g == Settle(f, t, o)
<1>1. /\ p \in TxQueues /\ Len(p) = Len(q) - 1 /\ Len(q) \in Nat \ {0}
      /\ t = q[1] /\ t \in Telegrams /\ 1 \in Positions(q)
      /\ \A i \in Positions(p) : i + 1 \in Positions(q) /\ p[i] = q[i + 1]
      /\ \A j \in Positions(q) \ {1} : j - 1 \in Positions(p) /\ q[j] = p[j - 1]
  BY WithoutHead DEF Positions
<1>2. o \in Fates /\ o # "open"
  BY DEF Settled
<1>3. t.uid \in 1 .. Len(f) /\ f[t.uid] = "open"
  BY <1>1 DEF Accounted, Numbered, OpenHeld, Holds
<1>4. /\ g \in Seq(Fates) /\ Len(g) = Len(f)
      /\ \A u \in 1 .. Len(f) : g[u] = IF u = t.uid THEN o ELSE f[u]
  BY <1>2, <1>3, SettleFacts
<1>5. Kept(f, g)
  BY <1>2, <1>3, SettleKept
<1> HIDE DEF p, t, g
<1>6. Positions(p) \subseteq Nat \ {0} /\ Positions(q) \subseteq Nat
  BY <1>1 DEF Positions
<1>7. Distinct(p)
  BY <1>1, <1>6 DEF Accounted, Distinct
<1>8. Numbered(p, g)
  BY <1>1, <1>4 DEF Accounted, Numbered
<1>9. Apart(p, g, L)
  BY <1>1, <1>4 DEF Accounted, Apart
<1>10. InOrder(p)
  BY <1>1, <1>6 DEF Accounted, InOrder
<1>11. Ahead(p, L)
  BY <1>1 DEF Accounted, Ahead
<1>12. \A i \in Positions(p) : p[i].uid # t.uid
  <2> TAKE i \in Positions(p)
  <2>1. i + 1 \in Positions(q) /\ p[i] = q[i + 1] /\ i + 1 # 1
    BY <1>1, <1>6
  <2>2. q[i + 1].uid = q[1].uid => i + 1 = 1
    BY <1>1, <2>1 DEF Accounted, Distinct
  <2> QED
    BY <1>1, <2>1, <2>2
<1>13. \A u : Holds(p, L, u) <=> Holds(q, L, u) /\ u # t.uid
  <2> TAKE u
  <2>1. Holds(p, L, u) => Holds(q, L, u) /\ u # t.uid
    BY <1>1, <1>12 DEF Holds, Accounted, Apart
  <2>2. Holds(q, L, u) /\ u # t.uid => Holds(p, L, u)
    BY <1>1 DEF Holds
  <2> QED
    BY <2>1, <2>2
<1>14. OpenHeld(p, g, L)
  BY <1>2, <1>4, <1>13 DEF Accounted, OpenHeld
<1> QED
  BY <1>5, <1>7, <1>8, <1>9, <1>10, <1>11, <1>14 DEF Accounted, p, t, g

(* The telegram in flight is settled: acknowledged, answered or given up.   *)
LEMMA FlightSettled ==
    ASSUME NEW q \in TxQueues, NEW f \in Seq(Fates), NEW l \in Telegrams,
           NEW o \in Settled, Accounted(q, f, {l})
    PROVE  /\ Accounted(q, Settle(f, l, o), {}) /\ Kept(f, Settle(f, l, o))
           /\ Len(Settle(f, l, o)) = Len(f) /\ Settle(f, l, o) \in Seq(Fates)
<1> DEFINE g == Settle(f, l, o)
<1>1. o \in Fates /\ o # "open"
  BY DEF Settled
<1>2. /\ l.uid \in 1 .. Len(f) /\ f[l.uid] = "open"
      /\ \A i \in Positions(q) : q[i].uid # l.uid
  BY DEF Accounted, Apart, OpenHeld, Holds
<1>3. /\ g \in Seq(Fates) /\ Len(g) = Len(f)
      /\ \A u \in 1 .. Len(f) : g[u] = IF u = l.uid THEN o ELSE f[u]
  BY <1>1, <1>2, SettleFacts
<1>4. Kept(f, g)
  BY <1>1, <1>2, SettleKept
<1> HIDE DEF g
<1>5. Distinct(q) /\ Numbered(q, g) /\ Apart(q, g, {}) /\ InOrder(q) /\ Ahead(q, {})
  BY <1>3 DEF Accounted, Numbered, Apart, Ahead
<1>6. \A u : Holds(q, {}, u) <=> Holds(q, {l}, u) /\ u # l.uid
  BY <1>2 DEF Holds
<1>7. OpenHeld(q, g, {})
  BY <1>1, <1>3, <1>6 DEF Accounted, OpenHeld
<1> QED
  BY <1>3, <1>4, <1>5, <1>7 DEF Accounted, g

(* A new request at the back.                                               *)
LEMMA QueuedAtBack ==
    ASSUME NEW q \in TxQueues, NEW f \in Seq(Fates), NEW L \in SUBSET Telegrams,
           NEW t \in Telegrams, t.uid = Len(f) + 1, Accounted(q, f, L)
    PROVE  Accounted(Append(q, t), Append(f, "open"), L)
<1> DEFINE p == Append(q, t)
           g == Append(f, "open")
<1>1. /\ Len(p) = Len(q) + 1 /\ p[Len(q) + 1] = t
      /\ \A i \in Positions(q) : p[i] = q[i]
  BY WithBack
<1>2. /\ Len(g) = Len(f) + 1 /\ g[Len(f) + 1] = "open"
      /\ \A u \in 1 .. Len(f) : g[u] = f[u]
  BY OpenedFacts
<1>3. Len(q) \in Nat /\ Len(f) \in Nat
  BY QueueFacts, LenProperties
<1> HIDE DEF p, g
<1>4. /\ Positions(p) = Positions(q) \cup {Len(q) + 1}
      /\ \A i \in Positions(q) : i \in Nat /\ i < Len(q) + 1
      /\ 1 .. Len(g) = 1 .. Len(f) \cup {t.uid}
  BY <1>1, <1>2, <1>3 DEF Positions
<1>5. \A i \in Positions(q) : q[i].uid \in Nat /\ q[i].uid < t.uid
  BY <1>3 DEF Accounted, Numbered
<1>6. \A l \in L : l.uid \in Nat /\ l.uid < t.uid
  BY <1>3 DEF Accounted, Apart
<1>7. Distinct(p)
  BY <1>1, <1>3, <1>4, <1>5 DEF Accounted, Distinct
<1>8. Numbered(p, g)
  BY <1>1, <1>4 DEF Accounted, Numbered
<1>9. Apart(p, g, L)
  BY <1>1, <1>3, <1>4, <1>6 DEF Accounted, Apart
<1>10. InOrder(p)
  BY <1>1, <1>3, <1>4, <1>5 DEF Accounted, InOrder
<1>11. Ahead(p, L)
  BY <1>1, <1>4, <1>6 DEF Accounted, Ahead
<1>12. \A u : Holds(p, L, u) <=> Holds(q, L, u) \/ u = t.uid
  BY <1>1, <1>4 DEF Holds
<1>13. OpenHeld(p, g, L)
  BY <1>2, <1>3, <1>4, <1>12 DEF Accounted, OpenHeld
<1> QED
  BY <1>7, <1>8, <1>9, <1>10, <1>11, <1>13 DEF Accounted, p, g

(* A new request in front of the others, which does not take its turn.      *)
LEMMA QueuedInFront ==
    ASSUME NEW q \in TxQueues, NEW f \in Seq(Fates), NEW L \in SUBSET Telegrams,
           NEW t \in Telegrams, t.uid = Len(f) + 1, ~t.fifo, Accounted(q, f, L)
    PROVE  Accounted(<<t>> \o q, Append(f, "open"), L)
<1> DEFINE p == <<t>> \o q
<1>1. /\ Len(p) = Len(q) + 1 /\ p[1] = t
      /\ \A i \in Positions(q) : p[i + 1] = q[i]
      /\ \A j \in Positions(p) \ {1} : j - 1 \in Positions(q) /\ p[j] = q[j - 1]
  <2>1. q \in TxQueues /\ t \in Telegrams
    OBVIOUS
  <2> QED
    BY ONLY <2>1, WithFront, Zenon DEF p
<1> DEFINE g == Append(f, "open")
<1>2. /\ Len(g) = Len(f) + 1 /\ g[Len(f) + 1] = "open"
      /\ \A u \in 1 .. Len(f) : g[u] = f[u]
  BY OpenedFacts
<1>3. Len(q) \in Nat /\ Len(f) \in Nat
  BY QueueFacts, LenProperties
<1> HIDE DEF p, g
<1>4. /\ 1 \in Positions(p) /\ Positions(p) \subseteq Nat /\ Positions(q) \subseteq Nat
      /\ \A i \in Positions(q) : i + 1 \in Positions(p)
      /\ 1 .. Len(g) = 1 .. Len(f) \cup {t.uid}
  BY <1>1, <1>2, <1>3 DEF Positions
<1>5. \A i \in Positions(q) : q[i].uid \in Nat /\ q[i].uid < t.uid
  BY <1>3 DEF Accounted, Numbered
<1>6. \A l \in L : l.uid \in Nat /\ l.uid < t.uid
  BY <1>3 DEF Accounted, Apart
<1>7. Distinct(p)
  <2> SUFFICES ASSUME NEW i \in Positions(p), NEW j \in Positions(p), p[i].uid = p[j].uid
               PROVE  i = j
    BY DEF Distinct
  <2>1. CASE i # 1 /\ j # 1
    <3>1. /\ i - 1 \in Positions(q) /\ j - 1 \in Positions(q)
          /\ q[i - 1].uid = q[j - 1].uid
      BY <1>1, <2>1
    <3>2. i - 1 = j - 1
      BY <3>1 DEF Accounted, Distinct
    <3> QED
      BY <1>4, <3>2
  <2>2. CASE i = 1
    <3>1. p[i] = t /\ (j # 1 => j - 1 \in Positions(q) /\ p[j] = q[j - 1])
      BY <1>1, <2>2
    <3> QED
      BY <1>4, <1>5, <2>2, <3>1
  <2>3. CASE j = 1
    <3>1. p[j] = t /\ (i # 1 => i - 1 \in Positions(q) /\ p[i] = q[i - 1])
      BY <1>1, <2>3
    <3> QED
      BY <1>4, <1>5, <2>3, <3>1
  <2> QED
    BY <2>1, <2>2, <2>3
<1>8. Numbered(p, g)
  BY <1>1, <1>4 DEF Accounted, Numbered
<1>9. Apart(p, g, L)
  BY <1>1, <1>4, <1>6 DEF Accounted, Apart
<1>10. InOrder(p)
  <2> SUFFICES ASSUME NEW i \in Positions(p), NEW j \in Positions(p),
                      i < j, p[i].fifo, p[j].fifo
               PROVE  p[i].uid < p[j].uid
    BY DEF InOrder
  <2>1. i # 1 /\ j # 1
    BY <1>1
  <2>2. /\ i - 1 \in Positions(q) /\ j - 1 \in Positions(q) /\ i - 1 < j - 1
        /\ p[i] = q[i - 1] /\ p[j] = q[j - 1]
    BY <1>1, <1>4, <2>1
  <2> QED
    BY <2>2 DEF Accounted, InOrder
<1>11. Ahead(p, L)
  BY <1>1, <1>4 DEF Accounted, Ahead
<1>12. \A u : Holds(p, L, u) <=> Holds(q, L, u) \/ u = t.uid
  <2> TAKE u
  <2>1. Holds(p, L, u) => Holds(q, L, u) \/ u = t.uid
    BY <1>1 DEF Holds
  <2>2. Holds(q, L, u) \/ u = t.uid => Holds(p, L, u)
    BY <1>1, <1>4 DEF Holds
  <2> QED
    BY <2>1, <2>2
<1>13. OpenHeld(p, g, L)
  BY <1>2, <1>3, <1>4, <1>12 DEF Accounted, OpenHeld
<1> QED
  BY <1>7, <1>8, <1>9, <1>10, <1>11, <1>13 DEF Accounted, p, g

(* TxService::add: the oldest telegram makes room, the new one is queued.    *)
LEMMA InsertAccounted ==
    ASSUME NEW q \in TxQueues, NEW f \in Seq(Fates), NEW L \in SUBSET Telegrams,
           NEW t \in Telegrams, NEW front \in BOOLEAN,
           t.uid = Len(f) + 1, front => ~t.fifo, Accounted(q, f, L)
    PROVE  Accounted(InsertTx(q, t, front), InsertFate(f, q), L) /\ Kept(f, InsertFate(f, q))
<1> DEFINE room == MakeRoom(q)
           g == IF Len(q) >= MaxTx THEN Settle(f, Head(q), "overflow") ELSE f
<1>1. /\ room \in TxQueues /\ g \in Seq(Fates) /\ Len(g) = Len(f)
      /\ Accounted(room, g, L) /\ Kept(f, g)
  <2>1. CASE Len(q) >= MaxTx
    <3>1. q # <<>>
      BY <2>1, BoundsAssumption
    <3>2. "overflow" \in Settled /\ "overflow" \in Fates
      BY DEF Settled, Fates
    <3>3. /\ Accounted(Tail(q), Settle(f, Head(q), "overflow"), L)
          /\ Kept(f, Settle(f, Head(q), "overflow"))
      BY <3>1, <3>2, HeadSettled
    <3>4. Head(q).uid \in 1 .. Len(f)
      BY <3>1, WithoutHead DEF Accounted, Numbered, Positions
    <3>5. /\ Settle(f, Head(q), "overflow") \in Seq(Fates)
          /\ Len(Settle(f, Head(q), "overflow")) = Len(f)
      BY <3>2, <3>4, SettleFacts
    <3>6. Tail(q) \in TxQueues
      BY <3>1, WithoutHead
    <3> QED
      BY <2>1, <3>3, <3>5, <3>6, Zenon DEF MakeRoom
  <2>2. CASE ~(Len(q) >= MaxTx)
    BY <2>2, KeptSame, Zenon DEF MakeRoom
  <2> QED
    BY <2>1, <2>2
<1>2. InsertFate(f, q) = Append(g, "open")
  BY DEF InsertFate
<1>3. InsertTx(q, t, front) = IF front THEN <<t>> \o room ELSE Append(room, t)
  BY DEF InsertTx
<1> HIDE DEF room, g
<1>4. Kept(f, InsertFate(f, q))
  <2>1. Append(g, "open") \in Seq(Fates) /\ Kept(g, Append(g, "open"))
    BY <1>1, OpenedFacts
  <2> QED
    BY <1>1, <1>2, <2>1, KeptTransitive
<1>5. t.uid = Len(g) + 1
  BY <1>1
<1>6. CASE front
  <2>1. ~t.fifo
    BY <1>6, Zenon
  <2>2. Accounted(<<t>> \o room, Append(g, "open"), L)
    BY <1>1, <1>5, <2>1, QueuedInFront, Zenon
  <2> QED
    BY <1>2, <1>3, <1>4, <1>6, <2>2, Zenon
<1>7. CASE ~front
  <2>1. Accounted(Append(room, t), Append(g, "open"), L)
    BY <1>1, <1>5, QueuedAtBack, Zenon
  <2> QED
    BY <1>2, <1>3, <1>4, <1>7, <2>1, Zenon
<1> QED
  BY <1>6, <1>7

(* get_send_id drops the head that waited too long for its poll.            *)
LEMMA ExpiryAccounted ==
    ASSUME NEW q \in TxQueues, NEW f \in Seq(Fates), NEW L \in SUBSET Telegrams,
           Accounted(q, f, L)
    PROVE  /\ Accounted(AfterExpiry(q), FateAfterExpiry(q, f), L)
           /\ Kept(f, FateAfterExpiry(q, f))
<1>1. CASE Expires(q)
  <2>1. q # <<>> /\ "expired" \in Settled
    BY <1>1 DEF Expires, ForeignHead, Settled, Fates
  <2> QED
    BY <1>1, <2>1, HeadSettled, Zenon DEF AfterExpiry, FateAfterExpiry
<1>2. CASE ~Expires(q)
  BY <1>2, KeptSame, Zenon DEF AfterExpiry, FateAfterExpiry
<1> QED
  BY <1>1, <1>2

(* The head of the queue is put on the wire and its answer is awaited.       *)
LEMMA HeadToFlight ==
    ASSUME NEW q \in TxQueues, NEW f \in Seq(Fates), NEW l \in Telegrams,
           q # <<>>, l.uid = Head(q).uid, l.fifo = Head(q).fifo, Accounted(q, f, {})
    PROVE  Accounted(Tail(q), f, {l})
<1> DEFINE p == Tail(q)
<1>1. /\ p \in TxQueues /\ Len(p) = Len(q) - 1 /\ Len(q) \in Nat \ {0}
      /\ l.uid = q[1].uid /\ l.fifo = q[1].fifo /\ 1 \in Positions(q)
      /\ \A i \in Positions(p) : i + 1 \in Positions(q) /\ p[i] = q[i + 1]
      /\ \A j \in Positions(q) \ {1} : j - 1 \in Positions(p) /\ q[j] = p[j - 1]
  BY WithoutHead DEF Positions
<1> HIDE DEF p
<1>2. Positions(p) \subseteq Nat \ {0} /\ Positions(q) \subseteq Nat
  BY <1>1 DEF Positions
<1>3. Distinct(p)
  BY <1>1, <1>2 DEF Accounted, Distinct
<1>4. Numbered(p, f)
  BY <1>1 DEF Accounted, Numbered
<1>5. Apart(p, f, {l})
  <2>1. l.uid \in 1 .. Len(f)
    BY <1>1 DEF Accounted, Numbered
  <2>2. \A i \in Positions(p) : p[i].uid # l.uid
    <3> TAKE i \in Positions(p)
    <3>1. i + 1 \in Positions(q) /\ p[i] = q[i + 1] /\ i + 1 # 1
      BY <1>1, <1>2
    <3>2. q[i + 1].uid = q[1].uid => i + 1 = 1
      BY <1>1, <3>1 DEF Accounted, Distinct
    <3> QED
      BY <1>1, <3>1, <3>2
  <2> QED
    BY <2>1, <2>2 DEF Apart
<1>6. InOrder(p)
  BY <1>1, <1>2 DEF Accounted, InOrder
<1>7. Ahead(p, {l})
  <2> SUFFICES ASSUME l.fifo, NEW i \in Positions(p), p[i].fifo
               PROVE  l.uid < p[i].uid
    BY DEF Ahead
  <2>1. i + 1 \in Positions(q) /\ p[i] = q[i + 1] /\ 1 < i + 1
    BY <1>1, <1>2
  <2>2. q[1].fifo /\ q[i + 1].fifo => q[1].uid < q[i + 1].uid
    BY <1>1, <2>1 DEF Accounted, InOrder
  <2> QED
    BY <1>1, <2>1, <2>2
<1>8. \A u : Holds(p, {l}, u) <=> Holds(q, {}, u)
  <2> TAKE u
  <2>1. Holds(p, {l}, u) => Holds(q, {}, u)
    BY <1>1 DEF Holds
  <2>2. Holds(q, {}, u) => Holds(p, {l}, u)
    BY <1>1 DEF Holds
  <2> QED
    BY <2>1, <2>2
<1>9. OpenHeld(p, f, {l})
  BY <1>8 DEF Accounted, OpenHeld
<1> QED
  BY <1>3, <1>4, <1>5, <1>6, <1>7, <1>9 DEF Accounted, p

(* retry_tx: the telegram in flight is the front of the queue again.         *)
LEMMA FlightToHead ==
    ASSUME NEW q \in TxQueues, NEW f \in Seq(Fates), NEW l \in Telegrams, NEW t \in Telegrams,
           t.uid = l.uid, t.fifo = l.fifo, Accounted(q, f, {l})
    PROVE  Accounted(Requeue(q, t), f, {})
<1> DEFINE p == <<t>> \o q
<1>1. /\ Len(p) = Len(q) + 1 /\ p[1] = t
      /\ \A i \in Positions(q) : p[i + 1] = q[i]
      /\ \A j \in Positions(p) \ {1} : j - 1 \in Positions(q) /\ p[j] = q[j - 1]
  BY WithFront, Zenon
<1>2. Len(q) \in Nat
  BY QueueFacts
<1>3. Requeue(q, t) = p
  BY DEF Requeue
<1> HIDE DEF p
<1>4. /\ 1 \in Positions(p) /\ Positions(p) \subseteq Nat \ {0} /\ Positions(q) \subseteq Nat
      /\ \A i \in Positions(q) : i + 1 \in Positions(p)
  BY <1>1, <1>2 DEF Positions
<1>5. \A i \in Positions(q) : q[i].uid # t.uid
  BY DEF Accounted, Apart
<1>6. Distinct(p)
  <2> SUFFICES ASSUME NEW i \in Positions(p), NEW j \in Positions(p), p[i].uid = p[j].uid
               PROVE  i = j
    BY DEF Distinct
  <2>1. CASE i # 1 /\ j # 1
    <3>1. /\ i - 1 \in Positions(q) /\ j - 1 \in Positions(q)
          /\ q[i - 1].uid = q[j - 1].uid
      BY <1>1, <2>1
    <3>2. i - 1 = j - 1
      BY <3>1 DEF Accounted, Distinct
    <3> QED
      BY <1>4, <3>2
  <2>2. CASE i = 1 \/ j = 1
    BY <1>1, <1>4, <1>5, <2>2
  <2> QED
    BY <2>1, <2>2
<1>7. Numbered(p, f) /\ Apart(p, f, {})
  BY <1>1, <1>4 DEF Accounted, Numbered, Apart
<1>8. InOrder(p)
  <2> SUFFICES ASSUME NEW i \in Positions(p), NEW j \in Positions(p),
                      i < j, p[i].fifo, p[j].fifo
               PROVE  p[i].uid < p[j].uid
    BY DEF InOrder
  <2>1. j # 1
    BY <1>4
  <2>2. j - 1 \in Positions(q) /\ p[j] = q[j - 1]
    BY <1>1, <2>1
  <2>3. CASE i = 1
    BY <1>1, <2>2, <2>3 DEF Accounted, Ahead
  <2>4. CASE i # 1
    <3>1. i - 1 \in Positions(q) /\ i - 1 < j - 1 /\ p[i] = q[i - 1]
      BY <1>1, <1>4, <2>4
    <3> QED
      BY <2>2, <3>1 DEF Accounted, InOrder
  <2> QED
    BY <2>3, <2>4
<1>9. \A u : Holds(p, {}, u) <=> Holds(q, {l}, u)
  <2> TAKE u
  <2>1. Holds(p, {}, u) => Holds(q, {l}, u)
    BY <1>1 DEF Holds
  <2>2. Holds(q, {l}, u) => Holds(p, {}, u)
    BY <1>1, <1>4 DEF Holds
  <2> QED
    BY <2>1, <2>2
<1>10. OpenHeld(p, f, {}) /\ Ahead(p, {})
  BY <1>9 DEF Accounted, OpenHeld, Ahead
<1> QED
  BY <1>3, <1>6, <1>7, <1>8, <1>10 DEF Accounted

-----------------------------------------------------------------------------
(* The handlers.                                                            *)

Accounts == Accounted(txq', fate', Flight') /\ Kept(fate, fate')

LEMMA Typed ==
    ASSUME AInv
    PROVE  /\ txq \in TxQueues /\ fate \in Seq(Fates) /\ Flight \in SUBSET Telegrams
           /\ txState = "NONE" => Accounted(txq, fate, {})
           /\ txState # "NONE" => last \in Telegrams /\ Accounted(txq, fate, {last})
BY DEF AInv, IInv, TypeOK, AwaitedTelegram, TxQueues, Flight

LEMMA FlightNext ==
    /\ txState' = "NONE" => Flight' = {}
    /\ txState' # "NONE" => Flight' = {last'}
BY DEF Flight

(* TxService::send: the head is left alone, settled, or in flight.          *)
LEMMA SendAccounted ==
    ASSUME NEW q \in TxQueues, NEW f \in Seq(Fates), Accounted(q, f, {}), Send(q, f)
    PROVE  Accounted(txq', fate', Flight') /\ Kept(f, fate')
<1> DEFINE t == Head(q)
<1>1. CASE SendNothing(q, f)
  <2>1. txq' = q /\ fate' = f /\ Flight' = {}
    BY <1>1, FlightNext DEF SendNothing
  <2> QED
    BY <2>1, KeptSame
<1>2. ASSUME q # <<>>, NEW o \in Settled,
             txq' = Removed(q), fate' = Settle(f, t, o), txState' = "NONE"
      PROVE  Accounted(txq', fate', Flight') /\ Kept(f, fate')
  <2>1. Accounted(Tail(q), Settle(f, Head(q), o), {}) /\ Kept(f, Settle(f, Head(q), o))
    BY <1>2, HeadSettled
  <2> QED
    BY <1>2, <2>1, FlightNext, Zenon DEF Removed
<1>3. "discarded" \in Settled /\ "failed" \in Settled /\ "sent" \in Settled
  BY DEF Settled, Fates
<1>4. CASE SendDiscard(q, f)
  BY <1>2, <1>3, <1>4, Zenon DEF SendDiscard
<1>5. CASE SendFails(q, f)
  BY <1>2, <1>3, <1>5, Zenon DEF SendFails
<1>6. CASE Transmit(q, f)
  <2>1. /\ q # <<>> /\ txq' = Removed(q) /\ txState' = Awaits(t)
        /\ last' = [t EXCEPT !.begun = TRUE]
        /\ fate' = IF t.op = "NONE" THEN Settle(f, t, "sent") ELSE f
    BY <1>6, Zenon DEF Transmit
  <2>2. t \in Telegrams
    BY <2>1, WithoutHead, FieldTypes
  <2>3. CASE t.op = "NONE"
    <3>1. txState' = "NONE" /\ fate' = Settle(f, t, "sent")
      BY <2>1, <2>3 DEF Awaits
    <3> QED
      BY <1>2, <1>3, <2>1, <3>1, Zenon
  <2>4. CASE t.op # "NONE"
    <3>1. txState' # "NONE" /\ fate' = f
      BY <2>1, <2>4 DEF Awaits
    <3>2. last' \in Telegrams
      BY <2>1, <2>2, UpdateType, NoTypeAssumption, Zenon
    <3>3. last'.uid = t.uid /\ last'.fifo = t.fifo
      BY <2>1, <2>2 DEF Telegrams
    <3>4. Accounted(Tail(q), f, {last'})
      BY <2>1, <3>2, <3>3, HeadToFlight, Zenon
    <3>5. Kept(f, f)
      BY KeptSame
    <3> QED
      BY <2>1, <3>1, <3>4, <3>5, FlightNext, Zenon DEF Removed
  <2> QED
    BY <2>3, <2>4
<1> QED
  BY <1>1, <1>4, <1>5, <1>6 DEF Send

LEMMA NotPolledAccounted ==
    ASSUME NEW id, NEW q \in TxQueues, NEW f \in Seq(Fates), NEW L \in SUBSET Telegrams,
           Accounted(q, f, L), NotPolled(id, q, f)
    PROVE  Accounted(txq', fate', L) /\ Kept(f, fate')
BY ExpiryAccounted, KeptSame, Zenon DEF NotPolled

LEMMA PollAccounts ==
    ASSUME AInv, NEW id, Poll(id)
    PROVE  Accounts
<1>1. /\ txq \in TxQueues /\ fate \in Seq(Fates) /\ Accounted(txq, fate, {})
      /\ {} \in SUBSET Telegrams
  BY Typed DEF Poll
<1>2. CASE NotPolled(id, txq, fate) /\ txState' = txState
  <2>1. Accounted(txq', fate', {}) /\ Kept(fate, fate')
    BY <1>1, <1>2, NotPolledAccounted
  <2> QED
    BY <1>2, <2>1, FlightNext DEF Accounts, Poll
<1>3. CASE Send(AfterExpiry(txq), FateAfterExpiry(txq, fate))
  <2>1. AfterExpiry(txq) \in TxQueues /\ FateAfterExpiry(txq, fate) \in Seq(Fates)
    BY <1>1, AfterExpiryType, FateAfterExpiryType
  <2>2. /\ Accounted(AfterExpiry(txq), FateAfterExpiry(txq, fate), {})
        /\ Kept(fate, FateAfterExpiry(txq, fate))
    BY <1>1, ExpiryAccounted
  <2>3. Accounted(txq', fate', Flight') /\ Kept(FateAfterExpiry(txq, fate), fate')
    BY <1>3, <2>1, <2>2, SendAccounted
  <2>4. Len(fate) \in Nat /\ Len(FateAfterExpiry(txq, fate)) \in Nat
    BY <1>1, <2>1, LenProperties
  <2>5. Kept(fate, fate')
    BY <2>2, <2>3, <2>4, <1>1 DEF Kept
  <2> QED
    BY <2>3, <2>5 DEF Accounts
<1> QED
  BY <1>2, <1>3, Zenon DEF Poll

(* A read the handler puts in front is new, and none that takes its turn.   *)
LEMMA InternalReadNew ==
    ASSUME NEW type, NEW part
    PROVE  InternalRead(type, part).uid = Len(fate) + 1 /\ ~InternalRead(type, part).fifo
BY DEF InternalRead, NewTelegram

(* The telegram in flight is settled and a new read put in front.           *)
LEMMA SettledAndAsked ==
    ASSUME AInv, txState # "NONE", NEW o \in Settled,
           NEW type \in Types, NEW part \in 0 .. MaxParts
    PROVE  LET f == Settle(fate, last, o)
               q == InsertTx(txq, InternalRead(type, part), TRUE)
           IN  /\ f \in Seq(Fates) /\ Accounted(txq, f, {}) /\ Kept(fate, f)
               /\ q \in TxQueues /\ InsertFate(f, txq) \in Seq(Fates)
               /\ Accounted(q, InsertFate(f, txq), {}) /\ Kept(fate, InsertFate(f, txq))
<1> DEFINE f == Settle(fate, last, o)
           r == InternalRead(type, part)
<1>1. /\ txq \in TxQueues /\ fate \in Seq(Fates)
      /\ last \in Telegrams /\ Accounted(txq, fate, {last})
  BY Typed
<1>2. f \in Seq(Fates) /\ Len(f) = Len(fate) /\ Accounted(txq, f, {}) /\ Kept(fate, f)
  BY <1>1, FlightSettled
<1>3. r \in Telegrams /\ r.uid = Len(fate) + 1 /\ ~r.fifo
  BY <1>1, InternalReadType, InternalReadNew
<1> HIDE DEF f, r
<1>4. r.uid = Len(f) + 1
  BY <1>2, <1>3
<1>5. {} \in SUBSET Telegrams /\ TRUE \in BOOLEAN
  OBVIOUS
<1>6. Accounted(InsertTx(txq, r, TRUE), InsertFate(f, txq), {}) /\ Kept(f, InsertFate(f, txq))
  BY <1>1, <1>2, <1>3, <1>4, <1>5, InsertAccounted, Zenon
<1>7. InsertTx(txq, r, TRUE) \in TxQueues /\ InsertFate(f, txq) \in Seq(Fates)
  BY <1>1, <1>2, <1>3, InsertTxType, InsertFateType
<1>8. Kept(fate, InsertFate(f, txq))
  BY <1>1, <1>2, <1>6, <1>7, KeptTransitive
<1> QED
  BY <1>2, <1>6, <1>7, <1>8, Zenon DEF f, r

LEMMA WriteAckedAccounts ==
    ASSUME AInv, WriteAcked, fate' \in Seq(Fates)
    PROVE  Accounts
<1> DEFINE settled  == Settle(fate, last, "written")
           part     == IF psq = last.type THEN last.part ELSE 0
           q == IF psq = NoType THEN txq ELSE InsertTx(txq, InternalRead(psq, part), TRUE)
           f == IF psq = NoType THEN settled ELSE InsertFate(settled, txq)
<1>1. /\ txState # "NONE" /\ txState' = "NONE" /\ NotPolled("ack", q, f)
  BY Zenon DEF WriteAcked
<1>2. /\ txq \in TxQueues /\ fate \in Seq(Fates)
      /\ last \in Telegrams /\ Accounted(txq, fate, {last})
  BY <1>1, Typed
<1>3. "written" \in Settled
  BY DEF Settled, Fates
<1>4. /\ q \in TxQueues /\ f \in Seq(Fates) /\ Accounted(q, f, {}) /\ Kept(fate, f)
  <2>1. CASE psq = NoType
    BY <1>2, <1>3, <2>1, FlightSettled
  <2>2. CASE psq # NoType
    <3>1. psq \in Types
      BY <2>2 DEF AInv, IInv, TypeOK
    <3>2. part \in 0 .. MaxParts
      BY <1>2, FieldTypes, BoundsAssumption
    <3> HIDE DEF part
    <3> QED
      BY <1>1, <1>3, <2>2, <3>1, <3>2, SettledAndAsked, Zenon
  <2> QED
    BY <2>1, <2>2
<1> HIDE DEF q, f
<1>5. Accounted(txq', fate', {}) /\ Kept(f, fate')
  BY <1>1, <1>4, NotPolledAccounted
<1>6. Kept(fate, fate')
  BY <1>2, <1>4, <1>5, KeptTransitive
<1> QED
  BY <1>1, <1>5, <1>6, FlightNext DEF Accounts

LEMMA WriteRejectedAccounts ==
    ASSUME AInv, WriteRejected, fate' \in Seq(Fates)
    PROVE  Accounts
<1> DEFINE f == Settle(fate, last, "rejected")
<1>1. txState # "NONE" /\ txState' = "NONE" /\ NotPolled("ack", txq, f)
  BY Zenon DEF WriteRejected
<1>2. /\ txq \in TxQueues /\ fate \in Seq(Fates)
      /\ last \in Telegrams /\ Accounted(txq, fate, {last})
  BY <1>1, Typed
<1>3. "rejected" \in Settled
  BY DEF Settled, Fates
<1>4. f \in Seq(Fates) /\ Accounted(txq, f, {}) /\ Kept(fate, f)
  BY <1>2, <1>3, FlightSettled
<1> HIDE DEF f
<1>5. Accounted(txq', fate', {}) /\ Kept(f, fate')
  BY <1>1, <1>2, <1>4, NotPolledAccounted
<1>6. Kept(fate, fate')
  BY <1>2, <1>4, <1>5, KeptTransitive
<1> QED
  BY <1>1, <1>5, <1>6, FlightNext DEF Accounts

LEMMA ReadAnsweredAccounts ==
    ASSUME AInv, NEW type, NEW crc, NEW more \in BOOLEAN, ReadAnswered(type, crc, more),
           fate' \in Seq(Fates)
    PROVE  Accounts
<1> DEFINE settled == Settle(fate, last, "read")
           next    == InternalRead(last.type, last.part + 1)
<1>1. txState # "NONE"
  BY DEF ReadAnswered
<1>2. /\ txq \in TxQueues /\ fate \in Seq(Fates)
      /\ last \in Telegrams /\ Accounted(txq, fate, {last})
  BY <1>1, Typed
<1>3. "read" \in Settled
  BY DEF Settled, Fates
<1>4. CASE more
  <2>1. last.part + 1 \in 0 .. MaxParts /\ last.type \in Types
    BY <1>2, <1>4, FieldTypes, BoundsAssumption DEF ReadAnswered
  <2>2. Send(InsertTx(txq, next, TRUE), InsertFate(settled, txq))
    BY <1>4, Zenon DEF ReadAnswered
  <2>3. /\ InsertTx(txq, next, TRUE) \in TxQueues /\ InsertFate(settled, txq) \in Seq(Fates)
        /\ Accounted(InsertTx(txq, next, TRUE), InsertFate(settled, txq), {})
        /\ Kept(fate, InsertFate(settled, txq))
    BY <1>1, <1>3, <2>1, SettledAndAsked, Zenon
  <2> HIDE DEF settled, next
  <2>4. Accounted(txq', fate', Flight') /\ Kept(InsertFate(settled, txq), fate')
    BY <2>2, <2>3, SendAccounted
  <2>5. Kept(fate, fate')
    BY <1>2, <2>3, <2>4, KeptTransitive
  <2> QED
    BY <2>4, <2>5 DEF Accounts
<1>5. CASE ~more
  <2>1. txState' = "NONE" /\ fate' = settled /\ txq' = txq
    BY <1>5, Zenon DEF ReadAnswered
  <2>2. Accounted(txq, settled, {}) /\ Kept(fate, settled)
    BY <1>2, <1>3, FlightSettled
  <2> HIDE DEF settled
  <2> QED
    BY <2>1, <2>2, FlightNext, Zenon DEF Accounts
<1> QED
  BY <1>4, <1>5

LEMMA NoAnswerAccounts ==
    ASSUME AInv, NoAnswer
    PROVE  Accounts
<1>1. txState # "NONE" /\ txState' = "NONE" /\ (GiveUp \/ SkipRetry \/ RetryLast)
  BY Zenon DEF NoAnswer
<1>2. /\ txq \in TxQueues /\ fate \in Seq(Fates)
      /\ last \in Telegrams /\ Accounted(txq, fate, {last})
  BY <1>1, Typed
<1>3. ASSUME NEW o \in Settled, txq' = txq, fate' = Settle(fate, last, o)
      PROVE  Accounts
  <2>1. Accounted(txq, Settle(fate, last, o), {}) /\ Kept(fate, Settle(fate, last, o))
    BY <1>2, FlightSettled
  <2> QED
    BY <1>1, <1>3, <2>1, FlightNext, Zenon DEF Accounts
<1>4. "ignored" \in Settled /\ "failed" \in Settled /\ "skipped" \in Settled
  BY DEF Settled, Fates
<1>5. CASE GiveUp
  <2>1. txq' = txq /\ fate' \in {Settle(fate, last, "ignored"), Settle(fate, last, "failed")}
    BY <1>5 DEF GiveUp
  <2> QED
    BY <1>3, <1>4, <2>1, Zenon
<1>6. CASE SkipRetry
  BY <1>3, <1>4, <1>6, Zenon DEF SkipRetry
<1>7. CASE RetryLast
  <2> DEFINE again == [last EXCEPT !.val = psq]
  <2>1. txq' = Requeue(txq, again) /\ fate' = fate
    BY <1>7, Zenon DEF RetryLast
  <2>2. psq \in Types \cup {NoType}
    BY DEF AInv, IInv, TypeOK
  <2>3. again \in Telegrams
    BY <1>2, <2>2, UpdateType, Zenon
  <2>4. again.uid = last.uid /\ again.fifo = last.fifo
    BY <1>2 DEF Telegrams
  <2> HIDE DEF again
  <2>5. Accounted(Requeue(txq, again), fate, {})
    BY <1>2, <2>3, <2>4, FlightToHead
  <2>6. Kept(fate, fate)
    BY <1>2, KeptSame
  <2> QED
    BY <1>1, <2>1, <2>5, <2>6, FlightNext, Zenon DEF Accounts
<1> QED
  BY <1>1, <1>5, <1>6, <1>7

LEMMA AddAccounts ==
    ASSUME AInv, NEW r \in Requests, Add(r)
    PROVE  Accounts
<1> DEFINE front == r.front /\ (r.op = "TX_RAW" => responseId = NoType)
           placed == [r EXCEPT !.front = front]
           t == NewTelegram(placed)
<1>1. txq \in TxQueues /\ fate \in Seq(Fates) /\ Flight \in SUBSET Telegrams
      /\ Accounted(txq, fate, Flight)
  BY Typed DEF AInv
<1>2. r \in RequestSet /\ r.front \in BOOLEAN
  BY RequestsAssumption DEF RequestSet
<1>3. front \in BOOLEAN
  BY <1>2, Zenon
<1>4. placed \in RequestSet /\ placed.front = front
  <2> HIDE DEF front
  <2> QED
    BY <1>2, <1>3 DEF RequestSet
<1>5. t \in Telegrams /\ t.uid = Len(fate) + 1 /\ t.fifo = ~front
  <2>1. t.uid = Len(fate) + 1 /\ t.fifo = ~placed.front
    BY DEF NewTelegram
  <2> HIDE DEF placed
  <2> QED
    BY <1>1, <1>4, <2>1, NewTelegramType, Zenon
<1>6. txq' = InsertTx(txq, t, front) /\ fate' = InsertFate(fate, txq) /\ Flight' = Flight
  BY Zenon DEF Add, Flight
<1> HIDE DEF front, placed, t
<1>7. Accounted(InsertTx(txq, t, front), InsertFate(fate, txq), Flight)
      /\ Kept(fate, InsertFate(fate, txq))
  BY <1>1, <1>3, <1>5, InsertAccounted, Zenon
<1> QED
  BY <1>6, <1>7, Zenon DEF Accounts

LEMMA ProcessTelegramAccounts ==
    ASSUME AInv, NEW published, NEW unknown, ProcessTelegram(published, unknown)
    PROVE  Accounts
<1> DEFINE r == [op |-> "TX_READ", src |-> "own", type |-> VersionType, part |-> 0,
                 val |-> NoType, size |-> "fits", full |-> FALSE, front |-> FALSE]
           t == NewTelegram(r)
<1>1. txq \in TxQueues /\ fate \in Seq(Fates) /\ Flight \in SUBSET Telegrams
      /\ Accounted(txq, fate, Flight)
  BY Typed DEF AInv
<1>2. r \in RequestSet
  BY NoTypeAssumption, BoundsAssumption DEF RequestSet, Operations, Sources, Sizes
<1>3. t.uid = Len(fate) + 1
  BY DEF NewTelegram
<1>4. t \in Telegrams
  <2> HIDE DEF r
  <2> QED
    BY <1>1, <1>2, NewTelegramType
<1>5. /\ Flight' = Flight
      /\ \/ txq' = InsertTx(txq, t, FALSE) /\ fate' = InsertFate(fate, txq)
         \/ txq' = txq /\ fate' = fate
  BY Zenon DEF ProcessTelegram, Flight
<1> HIDE DEF t
<1>6. FALSE \in BOOLEAN
  OBVIOUS
<1>7. Accounted(InsertTx(txq, t, FALSE), InsertFate(fate, txq), Flight)
      /\ Kept(fate, InsertFate(fate, txq))
  BY <1>1, <1>3, <1>4, <1>6, InsertAccounted, Zenon
<1>8. Kept(fate, fate)
  BY <1>1, KeptSame
<1> QED
  BY <1>1, <1>5, <1>7, <1>8, Zenon DEF Accounts

(* The echo, a broadcast, the settings and time touch no request.           *)
LEMMA OthersAccount ==
    ASSUME AInv, UNCHANGED <<txq, txState, last, fate>>
    PROVE  Accounts
<1>1. fate \in Seq(Fates) /\ Accounted(txq, fate, Flight)
  BY Typed DEF AInv
<1>2. Kept(fate, fate)
  BY <1>1, KeptSame
<1>3. txq' = txq /\ fate' = fate /\ Flight' = Flight
  BY Zenon DEF Flight
<1> QED
  BY <1>1, <1>2, <1>3, Zenon DEF Accounts

LEMMA NextAccounts == AInv /\ [Next]_vars => AInv' /\ Kept(fate, fate')
<1> SUFFICES ASSUME AInv, [Next]_vars PROVE AInv' /\ Kept(fate, fate')
  OBVIOUS
<1>1. IInv'
  BY NextKeeps, Zenon DEF AInv
<1>2. fate' \in Seq(Fates)
  BY <1>1 DEF IInv, TypeOK
<1>3. ASSUME Echo \/ (\E r \in Broadcasts : Broadcast(r)) \/ SetModes
             \/ DelayOver \/ BusTimeout \/ UNCHANGED vars
      PROVE  Accounts
  BY <1>3, OthersAccount, Zenon DEF Echo, Broadcast, SetModes, DelayOver, BusTimeout, vars, tx
<1>4. ASSUME Bus PROVE Accounts
  BY <1>2, <1>3, <1>4, PollAccounts, WriteAckedAccounts, WriteRejectedAccounts,
     ReadAnsweredAccounts, NoAnswerAccounts DEF Bus
<1>5. ASSUME Main PROVE Accounts
  BY <1>3, <1>5, AddAccounts, ProcessTelegramAccounts DEF Main
<1>6. ASSUME Time \/ UNCHANGED vars PROVE Accounts
  BY <1>3, <1>6 DEF Time
<1>7. Accounts
  BY <1>4, <1>5, <1>6 DEF Next
<1> QED
  BY <1>1, <1>7, Zenon DEF AInv, Accounts

LEMMA InitAInv == Init => AInv
<1> SUFFICES ASSUME Init PROVE AInv
  OBVIOUS
<1>1. IInv
  BY InitIInv
<1>2. txq = <<>> /\ fate = <<>> /\ Flight = {}
  BY DEF Init, Flight
<1>3. Positions(<<>>) = {} /\ 1 .. Len(<<>>) = {}
  BY DEF Positions
<1>4. Accounted(<<>>, <<>>, {})
  BY <1>3 DEF Accounted, Distinct, Numbered, Apart, OpenHeld, InOrder, Ahead
<1> QED
  BY <1>1, <1>2, <1>4, Zenon DEF AInv

LEMMA SpecAInv == Spec => []AInv
<1>1. AInv /\ [Next]_vars => AInv'
  BY NextAccounts
<1> QED
  BY InitAInv, <1>1, PTL DEF Spec

-----------------------------------------------------------------------------
(* telegram.cpp counts every request it accepts exactly once: a request that *)
(* overflow, expiry, give-up or a retry takes out of the queue is accounted  *)
(* for, and one accounted for can no longer be sent.                         *)
THEOREM NoneVanishes == Spec => []OpenIffHeld
<1>1. AInv => OpenIffHeld
  <2> SUFFICES ASSUME AInv PROVE OpenIffHeld
    OBVIOUS
  <2>1. txq \in Seq(Telegrams) /\ fate \in Seq(Fates)
    BY DEF AInv, IInv, TypeOK
  <2>2. DOMAIN txq = Positions(txq) /\ DOMAIN fate = 1 .. Len(fate)
    BY <2>1, LenProperties DEF Positions
  <2>3. \A u : InFlight(u) <=> \E l \in Flight : l.uid = u
    <3>1. txState # "NONE" => last # Null
      BY DEF AInv, IInv, AwaitedTelegram
    <3> QED
      BY <3>1 DEF InFlight, Flight
  <2> QED
    BY <2>2, <2>3 DEF AInv, Accounted, OpenHeld, Holds, OpenIffHeld, Queued
<1> QED
  BY SpecAInv, <1>1, PTL

(* retry_tx moves the telegram back into the queue: it never leaves a second *)
(* copy, in the queue or in flight.                                          *)
THEOREM NeverDoubled == Spec => []HeldOnce
<1>1. AInv => HeldOnce
  <2> SUFFICES ASSUME AInv PROVE HeldOnce
    OBVIOUS
  <2>1. DOMAIN txq = Positions(txq)
    BY LenProperties DEF AInv, IInv, TypeOK, Positions
  <2>2. Distinct(txq) /\ \A l \in Flight : \A i \in Positions(txq) : txq[i].uid # l.uid
    BY DEF AInv, Accounted, Apart
  <2>3. \A i \in DOMAIN txq : ~InFlight(txq[i].uid)
    BY <2>1, <2>2 DEF InFlight, Flight
  <2> QED
    BY <2>1, <2>2, <2>3 DEF HeldOnce, Distinct
<1> QED
  BY SpecAInv, <1>1, PTL

(* The reads the firmware queues at the back reach the bus in the order they *)
(* were made, retries included, whatever is put in front of them.            *)
THEOREM TurnsAreKept == Spec => []OrderKept
<1>1. AInv => OrderKept
  <2> SUFFICES ASSUME AInv PROVE OrderKept
    OBVIOUS
  <2>1. DOMAIN txq = Positions(txq)
    BY LenProperties DEF AInv, IInv, TypeOK, Positions
  <2>2. InOrder(txq) /\ Ahead(txq, Flight)
    BY DEF AInv, Accounted
  <2> QED
    BY <2>1, <2>2 DEF OrderKept, InOrder, Ahead, Flight
<1> QED
  BY SpecAInv, <1>1, PTL

(* A telegram counted as failed, dropped or done is never sent, answered or  *)
(* counted again.                                                            *)
THEOREM OneOutcome == Spec => SettledOnce
<1>1. AInv /\ [Next]_vars => AInv' /\ Kept(fate, fate')
  BY NextAccounts
<1>2. AInv /\ [Next]_vars => \A u \in DOMAIN fate : fate[u] # "open" => fate'[u] = fate[u]
  <2> SUFFICES ASSUME AInv, Kept(fate, fate')
               PROVE  \A u \in DOMAIN fate : fate[u] # "open" => fate'[u] = fate[u]
    BY <1>1
  <2>1. DOMAIN fate = 1 .. Len(fate)
    BY LenProperties DEF AInv, IInv, TypeOK
  <2> QED
    BY <2>1 DEF Kept
<1>3. AInv /\ [Next]_vars
        => [\A u \in DOMAIN fate : fate[u] # "open" => fate'[u] = fate[u]]_vars
  BY <1>2
<1> QED
  BY SpecAInv, <1>3, PTL DEF Spec, SettledOnce

-----------------------------------------------------------------------------
(***************************************************************************)
(* EmsBus implements Requests for every size of the queues, number of      *)
(* retries, traffic and kind of request, with Tx on or off.                *)
(*                                                                         *)
(* A handler is a sequence of changes to queue, flight and history, each   *)
(* of which settles, queues or moves one telegram.  Quiet and Progress say *)
(* what such a sequence may do to each request, and compose.               *)
(***************************************************************************)

Entry(t, onWire) == [begun |-> t.begun, onWire |-> onWire, inTurn |-> t.fifo]

(* What queue q and flight L have to do for request u.                      *)
At(q, L, u, e) ==
    \/ \E i \in Positions(q) : q[i].uid = u /\ e = Entry(q[i], FALSE)
    \/ \E l \in L : l.uid = u /\ e = Entry(l, TRUE)

Unsent == {"overflow", "expired", "discarded", "failed", "sent"}
Answered == {"written", "read", "rejected", "failed", "ignored", "skipped"}

(* n: transmissions in a row without an answer.                             *)
EndsAs(e, o, n) ==
    IF e.onWire
    THEN o \in Answered /\ (o \in {"failed", "ignored"} => n = MaxRetries + 1)
    ELSE o \in Unsent

(* A request in front of the queue is left open for later.                   *)
Urgent(q, L, f, g) ==
    \E v \in 1 .. Len(f) : \E x : g[v] = "open" /\ At(q, L, v, x) /\ ~x.inTurn

(* rush: some request in front has not been sent.                            *)
StartsAs(e, d, rush) ==
    /\ ~e.onWire
    /\ d = [begun |-> TRUE, onWire |-> TRUE, inTurn |-> e.inTurn]
    /\ e.inTurn /\ ~e.begun => ~rush

WaitsAs(e, d, n) ==
    /\ e.onWire /\ n < MaxRetries + 1
    /\ d = [begun |-> e.begun, onWire |-> FALSE, inTurn |-> e.inTurn]

MovesAs(e, d, n, rush) == d = e \/ StartsAs(e, d, rush) \/ WaitsAs(e, d, n)

NewIds(f, g) == Len(f) + 1 .. Len(g)

(* From queue q, flight L and history f to p, M and g: requests come to an   *)
(* end or are left alone, and new ones wait.                                 *)
Quiet(n, q, L, f, p, M, g) ==
    /\ Kept(f, g)
    /\ \A u \in 1 .. Len(f) : \A e :
          f[u] = "open" /\ At(q, L, u, e) =>
              IF g[u] = "open" THEN At(p, M, u, e) ELSE EndsAs(e, g[u], n)
    /\ \A u \in NewIds(f, g) :
          g[u] = "open" => \E e : At(p, M, u, e) /\ ~e.begun /\ e.onWire = FALSE

(* ... or one is put on the bus or back into the queue besides.              *)
Progress(n, q, L, f, p, M, g) ==
    /\ Kept(f, g)
    /\ \A u \in 1 .. Len(f) : \A e :
          f[u] = "open" /\ At(q, L, u, e) =>
              IF g[u] = "open"
              THEN \E d : At(p, M, u, d) /\ MovesAs(e, d, n, Urgent(q, L, f, g))
              ELSE EndsAs(e, g[u], n)
    /\ \A u \in NewIds(f, g) :
          g[u] = "open" => \E e : /\ At(p, M, u, e)
                                  /\ e.begun <=> e.onWire
                                  /\ e.onWire => ~e.inTurn

NoNewTurn(p, M, f, g) == \A u \in NewIds(f, g) : \A e : At(p, M, u, e) => ~e.inTurn

-----------------------------------------------------------------------------
(* Composition.                                                              *)

LEMMA QuietThenQuiet ==
    ASSUME NEW n, NEW q, NEW p, NEW r, NEW L, NEW M, NEW N,
           NEW f \in Seq(Fates), NEW g \in Seq(Fates), NEW h \in Seq(Fates),
           Quiet(n, q, L, f, p, M, g), Quiet(n, p, M, g, r, N, h)
    PROVE  Quiet(n, q, L, f, r, N, h)
<1>1. Len(f) \in Nat /\ Len(g) \in Nat /\ Len(h) \in Nat /\ Len(f) <= Len(g) /\ Len(g) <= Len(h)
  BY LenProperties DEF Quiet, Kept
<1>2. Kept(f, h)
  BY KeptTransitive DEF Quiet
<1>3. ASSUME NEW u \in 1 .. Len(f), NEW e, f[u] = "open", At(q, L, u, e)
      PROVE  IF h[u] = "open" THEN At(r, N, u, e) ELSE EndsAs(e, h[u], n)
  <2>1. u \in 1 .. Len(g)
    BY <1>1
  <2>2. IF g[u] = "open" THEN At(p, M, u, e) ELSE EndsAs(e, g[u], n)
    BY <1>3 DEF Quiet
  <2>3. CASE g[u] = "open"
    BY <2>1, <2>2, <2>3 DEF Quiet
  <2>4. CASE g[u] # "open"
    <3>1. h[u] = g[u]
      BY <2>1, <2>4 DEF Quiet, Kept
    <3> QED
      BY <2>2, <2>4, <3>1
  <2> QED
    BY <2>3, <2>4
<1>4. ASSUME NEW u \in NewIds(f, h), h[u] = "open"
      PROVE  \E e : At(r, N, u, e) /\ ~e.begun /\ e.onWire = FALSE
  <2>1. CASE u \in NewIds(g, h)
    BY <1>4, <2>1 DEF Quiet
  <2>2. CASE u \notin NewIds(g, h)
    <3>1. u \in NewIds(f, g) /\ u \in 1 .. Len(g)
      BY <1>1, <2>2 DEF NewIds
    <3>2. g[u] = "open"
      BY <1>4, <3>1 DEF Quiet, Kept
    <3>3. PICK e : At(p, M, u, e) /\ ~e.begun /\ e.onWire = FALSE
      BY <3>1, <3>2 DEF Quiet
    <3>4. At(r, N, u, e)
      BY <1>4, <3>1, <3>2, <3>3 DEF Quiet
    <3> QED
      BY <3>3, <3>4
  <2> QED
    BY <2>1, <2>2
<1> QED
  BY <1>2, <1>3, <1>4 DEF Quiet

LEMMA QuietThenProgress ==
    ASSUME NEW n, NEW q, NEW p, NEW r, NEW L, NEW M, NEW N,
           NEW f \in Seq(Fates), NEW g \in Seq(Fates), NEW h \in Seq(Fates),
           Quiet(n, q, L, f, p, M, g), Progress(n, p, M, g, r, N, h), NoNewTurn(p, M, f, g)
    PROVE  Progress(n, q, L, f, r, N, h)
<1>1. Len(f) \in Nat /\ Len(g) \in Nat /\ Len(h) \in Nat /\ Len(f) <= Len(g) /\ Len(g) <= Len(h)
  BY LenProperties DEF Quiet, Progress, Kept
<1>2. Kept(f, h)
  BY KeptTransitive DEF Quiet, Progress
<1>5. Urgent(q, L, f, h) => Urgent(p, M, g, h)
  <2> SUFFICES ASSUME NEW v \in 1 .. Len(f), NEW x, h[v] = "open", At(q, L, v, x), ~x.inTurn
               PROVE  Urgent(p, M, g, h)
    BY DEF Urgent
  <2>1. v \in 1 .. Len(g) /\ f[v] = "open"
    BY <1>1, <1>2 DEF Kept
  <2>2. g[v] = "open"
    BY <2>1 DEF Progress, Kept
  <2>3. At(p, M, v, x)
    BY <2>1, <2>2 DEF Quiet
  <2> QED
    BY <2>1, <2>3 DEF Urgent
<1>3. ASSUME NEW u \in 1 .. Len(f), NEW e, f[u] = "open", At(q, L, u, e)
      PROVE  IF h[u] = "open"
             THEN \E d : At(r, N, u, d) /\ MovesAs(e, d, n, Urgent(q, L, f, h))
             ELSE EndsAs(e, h[u], n)
  <2>1. u \in 1 .. Len(g)
    BY <1>1
  <2>2. IF g[u] = "open" THEN At(p, M, u, e) ELSE EndsAs(e, g[u], n)
    BY <1>3 DEF Quiet
  <2>3. CASE g[u] = "open"
    <3>1. IF h[u] = "open"
          THEN \E d : At(r, N, u, d) /\ MovesAs(e, d, n, Urgent(p, M, g, h))
          ELSE EndsAs(e, h[u], n)
      BY <2>1, <2>2, <2>3 DEF Progress
    <3>2. \A d : MovesAs(e, d, n, Urgent(p, M, g, h)) => MovesAs(e, d, n, Urgent(q, L, f, h))
      BY <1>5, Zenon DEF MovesAs, StartsAs
    <3> QED
      BY <3>1, <3>2
  <2>4. CASE g[u] # "open"
    <3>1. h[u] = g[u]
      BY <2>1, <2>4 DEF Progress, Kept
    <3> QED
      BY <2>2, <2>4, <3>1
  <2> QED
    BY <2>3, <2>4
<1>4. ASSUME NEW u \in NewIds(f, h), h[u] = "open"
      PROVE  \E e : /\ At(r, N, u, e) /\ (e.begun <=> e.onWire)
                    /\ e.onWire => ~e.inTurn
  <2>1. CASE u \in NewIds(g, h)
    BY <1>4, <2>1 DEF Progress
  <2>2. CASE u \notin NewIds(g, h)
    <3>1. u \in NewIds(f, g) /\ u \in 1 .. Len(g)
      BY <1>1, <2>2 DEF NewIds
    <3>2. g[u] = "open"
      BY <1>4, <3>1 DEF Progress, Kept
    <3>3. PICK e : At(p, M, u, e) /\ ~e.begun /\ e.onWire = FALSE
      BY <3>1, <3>2 DEF Quiet
    <3>4. ~e.inTurn
      BY <3>1, <3>3 DEF NoNewTurn
    <3>5. PICK d : At(r, N, u, d) /\ MovesAs(e, d, n, Urgent(p, M, g, h))
      BY <1>4, <3>1, <3>2, <3>3 DEF Progress
    <3>6. (d.begun <=> d.onWire) /\ (d.onWire => ~d.inTurn)
      BY <3>3, <3>4, <3>5 DEF MovesAs, StartsAs, WaitsAs
    <3> QED
      BY <3>5, <3>6
  <2> QED
    BY <2>1, <2>2
<1> QED
  BY <1>2, <1>3, <1>4 DEF Progress

LEMMA QuietIsProgress ==
    ASSUME NEW n, NEW q, NEW p, NEW L, NEW M, NEW f, NEW g, Quiet(n, q, L, f, p, M, g)
    PROVE  Progress(n, q, L, f, p, M, g)
<1>1. ASSUME NEW u \in 1 .. Len(f), NEW e, f[u] = "open", At(q, L, u, e)
      PROVE  IF g[u] = "open"
             THEN \E d : At(p, M, u, d) /\ MovesAs(e, d, n, Urgent(q, L, f, g))
             ELSE EndsAs(e, g[u], n)
  BY <1>1 DEF Quiet, MovesAs
<1>2. ASSUME NEW u \in NewIds(f, g), g[u] = "open"
      PROVE  \E e : /\ At(p, M, u, e) /\ (e.begun <=> e.onWire)
                    /\ e.onWire => ~e.inTurn
  BY <1>2 DEF Quiet
<1> QED
  BY <1>1, <1>2 DEF Quiet, Progress

LEMMA NothingIsQuiet ==
    ASSUME NEW n, NEW q, NEW L, NEW f \in Seq(Fates)
    PROVE  Quiet(n, q, L, f, q, L, f)
<1>1. NewIds(f, f) = {}
  BY LenProperties DEF NewIds
<1> QED
  BY <1>1, KeptSame DEF Quiet

-----------------------------------------------------------------------------
(* The changes a handler is made of.                                         *)

LEMMA FlightEnds ==
    ASSUME NEW n, NEW q \in TxQueues, NEW f \in Seq(Fates), NEW l \in Telegrams,
           NEW o \in Settled, Accounted(q, f, {l}), EndsAs(Entry(l, TRUE), o, n)
    PROVE  Quiet(n, q, {l}, f, q, {}, Settle(f, l, o))
<1> DEFINE g == Settle(f, l, o)
<1>1. l.uid \in 1 .. Len(f) /\ \A i \in Positions(q) : q[i].uid # l.uid
  BY DEF Accounted, Apart
<1>2. o \in Fates /\ o # "open"
  BY DEF Settled
<1>3. /\ g \in Seq(Fates) /\ Len(g) = Len(f)
      /\ \A u \in 1 .. Len(f) : g[u] = IF u = l.uid THEN o ELSE f[u]
  BY <1>1, <1>2, SettleFacts
<1>4. Kept(f, g)
  BY FlightSettled
<1> HIDE DEF g
<1>5. NewIds(f, g) = {}
  BY <1>3, LenProperties DEF NewIds
<1>6. ASSUME NEW u \in 1 .. Len(f), NEW e, f[u] = "open", At(q, {l}, u, e)
      PROVE  IF g[u] = "open" THEN At(q, {}, u, e) ELSE EndsAs(e, g[u], n)
  <2>1. CASE u = l.uid
    <3>1. e = Entry(l, TRUE) /\ g[u] = o
      BY <1>1, <1>3, <1>6, <2>1 DEF At
    <3> QED
      BY <1>2, <3>1
  <2>2. CASE u # l.uid
    BY <1>3, <1>6, <2>2 DEF At
  <2> QED
    BY <2>1, <2>2
<1> QED
  BY <1>4, <1>5, <1>6 DEF Quiet, g

LEMMA HeadEnds ==
    ASSUME NEW n, NEW q \in TxQueues, NEW f \in Seq(Fates), NEW L \in SUBSET Telegrams,
           NEW o \in Settled, o \in Unsent, Accounted(q, f, L), q # <<>>
    PROVE  Quiet(n, q, L, f, Tail(q), L, Settle(f, Head(q), o))
<1> DEFINE p == Tail(q)
           t == Head(q)
           g == Settle(f, t, o)
<1>1. /\ t = q[1] /\ 1 \in Positions(q)
      /\ \A j \in Positions(q) \ {1} : j - 1 \in Positions(p) /\ q[j] = p[j - 1]
  BY WithoutHead DEF Positions
<1>2. t.uid \in 1 .. Len(f)
  BY <1>1 DEF Accounted, Numbered
<1>3. o \in Fates /\ o # "open"
  BY DEF Settled
<1>4. /\ g \in Seq(Fates) /\ Len(g) = Len(f)
      /\ \A u \in 1 .. Len(f) : g[u] = IF u = t.uid THEN o ELSE f[u]
  BY <1>2, <1>3, SettleFacts
<1>5. Kept(f, g)
  BY HeadSettled
<1> HIDE DEF p, t, g
<1>6. NewIds(f, g) = {}
  BY <1>4, LenProperties DEF NewIds
<1>7. ASSUME NEW u \in 1 .. Len(f), NEW e, f[u] = "open", At(q, L, u, e)
      PROVE  IF g[u] = "open" THEN At(p, L, u, e) ELSE EndsAs(e, g[u], n)
  <2>1. CASE u = t.uid
    <3>1. ~e.onWire
      BY <1>1, <1>7, <2>1 DEF At, Entry, Accounted, Apart
    <3> QED
      BY <1>3, <1>4, <2>1, <3>1 DEF EndsAs
  <2>2. CASE u # t.uid
    <3>1. At(p, L, u, e)
      BY <1>1, <1>7, <2>2 DEF At
    <3> QED
      BY <1>4, <1>7, <2>2, <3>1
  <2> QED
    BY <2>1, <2>2
<1> QED
  BY <1>5, <1>6, <1>7 DEF Quiet, p, t, g

(* A queue that takes in the new telegram t.                                 *)
LEMMA Queues ==
    ASSUME NEW n, NEW q \in TxQueues, NEW p, NEW f \in Seq(Fates), NEW L \in SUBSET Telegrams,
           NEW t \in Telegrams, t.uid = Len(f) + 1, ~t.begun,
           \A i \in Positions(q) : \E j \in Positions(p) : p[j] = q[i],
           \E j \in Positions(p) : p[j] = t
    PROVE  Quiet(n, q, L, f, p, L, Append(f, "open"))
<1> DEFINE g == Append(f, "open")
<1>1. /\ Len(g) = Len(f) + 1 /\ Kept(f, g)
      /\ \A u \in 1 .. Len(f) : g[u] = f[u]
  BY OpenedFacts
<1>2. Len(f) \in Nat
  BY LenProperties
<1> HIDE DEF g
<1>3. \A u \in 1 .. Len(f) : \A e : At(q, L, u, e) => At(p, L, u, e)
  BY DEF At
<1>4. NewIds(f, g) = {t.uid}
  BY <1>1, <1>2 DEF NewIds
<1>5. At(p, L, t.uid, Entry(t, FALSE)) /\ ~Entry(t, FALSE).begun /\ Entry(t, FALSE).onWire = FALSE
  BY DEF At, Entry
<1>6. \A u \in NewIds(f, g) : \E e : At(p, L, u, e) /\ ~e.begun /\ e.onWire = FALSE
  BY <1>4, <1>5
<1> QED
  BY <1>1, <1>3, <1>6 DEF Quiet, g

LEMMA MakesRoom ==
    ASSUME NEW n, NEW q \in TxQueues, NEW f \in Seq(Fates),
           NEW L \in SUBSET Telegrams, Accounted(q, f, L)
    PROVE  LET g == IF Len(q) >= MaxTx THEN Settle(f, Head(q), "overflow") ELSE f
           IN  /\ MakeRoom(q) \in TxQueues /\ g \in Seq(Fates) /\ Len(g) = Len(f)
               /\ Accounted(MakeRoom(q), g, L) /\ Quiet(n, q, L, f, MakeRoom(q), L, g)
<1>1. CASE Len(q) >= MaxTx
  <2>1. q # <<>>
    BY <1>1, BoundsAssumption
  <2>2. "overflow" \in Settled /\ "overflow" \in Fates /\ "overflow" \in Unsent
    BY DEF Settled, Fates, Unsent
  <2>3. Accounted(Tail(q), Settle(f, Head(q), "overflow"), L)
    BY <2>1, <2>2, HeadSettled
  <2>4. Quiet(n, q, L, f, Tail(q), L, Settle(f, Head(q), "overflow"))
    BY <2>1, <2>2, HeadEnds
  <2>5. Head(q).uid \in 1 .. Len(f)
    BY <2>1, WithoutHead DEF Accounted, Numbered, Positions
  <2>6. /\ Settle(f, Head(q), "overflow") \in Seq(Fates)
        /\ Len(Settle(f, Head(q), "overflow")) = Len(f)
    BY <2>2, <2>5, SettleFacts
  <2>7. Tail(q) \in TxQueues
    BY <2>1, WithoutHead
  <2> QED
    BY <1>1, <2>3, <2>4, <2>6, <2>7, Zenon DEF MakeRoom
<1>2. CASE ~(Len(q) >= MaxTx)
  <2>1. Quiet(n, q, L, f, q, L, f)
    BY NothingIsQuiet
  <2> QED
    BY <1>2, <2>1, Zenon DEF MakeRoom
<1> QED
  BY <1>1, <1>2

LEMMA FrontHolds ==
    ASSUME NEW q \in TxQueues, NEW t \in Telegrams
    PROVE  /\ \A i \in Positions(q) : \E j \in Positions(<<t>> \o q) : (<<t>> \o q)[j] = q[i]
           /\ \E j \in Positions(<<t>> \o q) : (<<t>> \o q)[j] = t
<1> DEFINE p == <<t>> \o q
<1>1. /\ Len(p) = Len(q) + 1 /\ p[1] = t
      /\ \A i \in Positions(q) : p[i + 1] = q[i]
  BY WithFront, Zenon
<1>2. Len(q) \in Nat
  BY QueueFacts
<1> HIDE DEF p
<1>3. 1 \in Positions(p) /\ \A i \in Positions(q) : i + 1 \in Positions(p)
  BY <1>1, <1>2 DEF Positions
<1> QED
  BY <1>1, <1>3 DEF p

(* TxService::add.                                                           *)
LEMMA InsertIsQuiet ==
    ASSUME NEW n, NEW q \in TxQueues, NEW f \in Seq(Fates),
           NEW L \in SUBSET Telegrams, NEW t \in Telegrams, NEW front \in BOOLEAN,
           t.uid = Len(f) + 1, ~t.begun, Accounted(q, f, L)
    PROVE  Quiet(n, q, L, f, InsertTx(q, t, front), L, InsertFate(f, q))
<1> DEFINE room == MakeRoom(q)
           g == IF Len(q) >= MaxTx THEN Settle(f, Head(q), "overflow") ELSE f
<1>1. /\ room \in TxQueues /\ g \in Seq(Fates) /\ Len(g) = Len(f)
      /\ Quiet(n, q, L, f, room, L, g)
  BY MakesRoom
<1>2. InsertFate(f, q) = Append(g, "open")
  BY DEF InsertFate
<1>3. InsertTx(q, t, front) = IF front THEN <<t>> \o room ELSE Append(room, t)
  BY DEF InsertTx
<1> HIDE DEF room, g
<1>4. t.uid = Len(g) + 1
  BY <1>1
<1>5. Len(room) \in Nat
  BY <1>1, QueueFacts
<1>6. Quiet(n, room, L, g, <<t>> \o room, L, Append(g, "open"))
  <2> DEFINE p == <<t>> \o room
  <2>1. room \in TxQueues
    BY <1>1
  <2>2. /\ \A i \in Positions(room) : \E j \in Positions(p) : p[j] = room[i]
        /\ \E j \in Positions(p) : p[j] = t
    BY <2>1, FrontHolds, Zenon
  <2> HIDE DEF p
  <2>3. Quiet(n, room, L, g, p, L, Append(g, "open"))
    BY <1>1, <1>4, <2>2, Queues
  <2> QED
    BY <2>3 DEF p
<1>7. Quiet(n, room, L, g, Append(room, t), L, Append(g, "open"))
  <2>1. /\ Len(Append(room, t)) = Len(room) + 1 /\ Append(room, t)[Len(room) + 1] = t
        /\ \A i \in Positions(room) : Append(room, t)[i] = room[i]
    BY <1>1, WithBack
  <2> DEFINE p == Append(room, t)
  <2> HIDE DEF p
  <2>2. Len(room) + 1 \in Positions(p) /\ \A i \in Positions(room) : i \in Positions(p)
    BY <1>5, <2>1 DEF p, Positions
  <2>3. /\ \E j \in Positions(p) : p[j] = t
        /\ \A i \in Positions(room) : \E j \in Positions(p) : p[j] = room[i]
    BY <2>1, <2>2 DEF p
  <2>4. Quiet(n, room, L, g, p, L, Append(g, "open"))
    BY <1>1, <1>4, <2>3, Queues
  <2> QED
    BY <2>4 DEF p
<1>8. Append(g, "open") \in Seq(Fates)
  BY <1>1, OpenedFacts
<1>9. /\ Quiet(n, q, L, f, <<t>> \o room, L, Append(g, "open"))
      /\ Quiet(n, q, L, f, Append(room, t), L, Append(g, "open"))
  BY <1>1, <1>6, <1>7, <1>8, QuietThenQuiet, Zenon
<1> QED
  BY <1>2, <1>3, <1>9, Zenon

(* The requests in front wait before those that have not had their turn.     *)
FrontFirst(q) ==
    \A i, j \in Positions(q) : i < j /\ q[i].fifo /\ ~q[i].begun => q[j].fifo

(* TxService::send puts the head of the queue on the wire.                   *)
LEMMA HeadStarts ==
    ASSUME NEW n, NEW q \in TxQueues, NEW f \in Seq(Fates), NEW l \in Telegrams,
           q # <<>>, l.uid = Head(q).uid, l.fifo = Head(q).fifo, l.begun = TRUE,
           Accounted(q, f, {}), FrontFirst(q)
    PROVE  Progress(n, q, {}, f, Tail(q), {l}, f)
<1> DEFINE p == Tail(q)
           t == Head(q)
           rush == Urgent(q, {}, f, f)
<1>1. /\ t = q[1] /\ 1 \in Positions(q) /\ t \in Telegrams
      /\ \A j \in Positions(q) \ {1} : j - 1 \in Positions(p) /\ q[j] = p[j - 1]
  BY WithoutHead DEF Positions
<1>2. t.fifo /\ ~t.begun => ~rush
  <2> SUFFICES ASSUME t.fifo, ~t.begun, NEW v, NEW x, At(q, {}, v, x), ~x.inTurn
               PROVE  FALSE
    BY DEF Urgent
  <2>1. PICK j \in Positions(q) : x = Entry(q[j], FALSE)
    BY DEF At
  <2>2. j \in Nat \ {0} /\ ~q[j].fifo
    BY <2>1 DEF Entry, Positions
  <2> QED
    BY <1>1, <2>1, <2>2 DEF FrontFirst
<1> HIDE DEF p, t, rush
<1>3. NewIds(f, f) = {}
  BY LenProperties DEF NewIds
<1>4. ASSUME NEW u \in 1 .. Len(f), NEW e, f[u] = "open", At(q, {}, u, e)
      PROVE  \E d : At(p, {l}, u, d) /\ MovesAs(e, d, n, rush)
  <2>1. PICK i \in Positions(q) : q[i].uid = u /\ e = Entry(q[i], FALSE)
    BY <1>4 DEF At
  <2>2. CASE i = 1
    <3>1. At(p, {l}, u, Entry(l, TRUE))
      BY <1>1, <2>1, <2>2 DEF At, t
    <3>2. e = Entry(t, FALSE) /\ l.begun = TRUE /\ l.fifo = t.fifo
      BY <1>1, <2>1, <2>2 DEF t
    <3>3. StartsAs(e, Entry(l, TRUE), rush)
      <4>1. ~e.onWire /\ e.begun = t.begun /\ e.inTurn = t.fifo
        BY <3>2, Zenon DEF Entry
      <4>2. Entry(l, TRUE) = [begun |-> TRUE, onWire |-> TRUE, inTurn |-> e.inTurn]
        BY <3>2, <4>1, Zenon DEF Entry
      <4> QED
        BY <1>2, <4>1, <4>2, Zenon DEF StartsAs
    <3> QED
      BY <3>1, <3>3 DEF MovesAs
  <2>3. CASE i # 1
    <3>1. At(p, {l}, u, e)
      BY <1>1, <2>1, <2>3 DEF At
    <3> QED
      BY <3>1 DEF MovesAs
  <2> QED
    BY <2>2, <2>3
<1> QED
  BY <1>3, <1>4, KeptSame DEF Progress, p, rush

(* TxService::retry_tx puts the telegram in flight back.                     *)
LEMMA FlightWaits ==
    ASSUME NEW n, NEW q \in TxQueues, NEW f \in Seq(Fates), NEW l \in Telegrams,
           NEW t \in Telegrams, t.uid = l.uid, t.fifo = l.fifo, t.begun = l.begun,
           n < MaxRetries + 1, Accounted(q, f, {l})
    PROVE  Progress(n, q, {l}, f, Requeue(q, t), {}, f)
<1> DEFINE p == <<t>> \o q
           rush == Urgent(q, {l}, f, f)
<1>1. /\ Len(p) = Len(q) + 1 /\ p[1] = t
      /\ \A i \in Positions(q) : p[i + 1] = q[i]
  BY WithFront, Zenon
<1>2. Len(q) \in Nat
  BY QueueFacts
<1>3. Requeue(q, t) = p
  BY DEF Requeue
<1> HIDE DEF p, rush
<1>4. 1 \in Positions(p) /\ \A i \in Positions(q) : i + 1 \in Positions(p)
  BY <1>1, <1>2 DEF Positions
<1>5. NewIds(f, f) = {}
  BY LenProperties DEF NewIds
<1>6. ASSUME NEW u \in 1 .. Len(f), NEW e, f[u] = "open", At(q, {l}, u, e)
      PROVE  \E d : At(p, {}, u, d) /\ MovesAs(e, d, n, rush)
  <2>1. CASE \E i \in Positions(q) : q[i].uid = u /\ e = Entry(q[i], FALSE)
    <3>1. At(p, {}, u, e)
      BY <1>1, <1>4, <2>1 DEF At
    <3> QED
      BY <3>1 DEF MovesAs
  <2>2. CASE l.uid = u /\ e = Entry(l, TRUE)
    <3>1. At(p, {}, u, Entry(t, FALSE))
      BY <1>1, <1>4, <2>2 DEF At
    <3>2. WaitsAs(e, Entry(t, FALSE), n)
      <4>1. e.onWire /\ e.begun = t.begun /\ e.inTurn = t.fifo
        BY <2>2, Zenon DEF Entry
      <4> QED
        BY <4>1, Zenon DEF WaitsAs, Entry
    <3> QED
      BY <3>1, <3>2 DEF MovesAs
  <2> QED
    BY <1>6, <2>1, <2>2 DEF At
<1> QED
  BY <1>3, <1>5, <1>6, KeptSame DEF Progress, rush

-----------------------------------------------------------------------------
(* Requests in front stay in front.                                          *)

LEMMA TailFrontFirst ==
    ASSUME NEW q \in TxQueues, q # <<>>, FrontFirst(q)
    PROVE  FrontFirst(Tail(q))
<1> DEFINE p == Tail(q)
<1>1. p \in TxQueues /\ \A i \in Positions(p) : i + 1 \in Positions(q) /\ p[i] = q[i + 1]
  BY WithoutHead
<1> HIDE DEF p
<1>2. \A i \in Positions(p) : i \in Nat
  BY DEF Positions
<1>3. FrontFirst(p)
  <2> SUFFICES ASSUME NEW i \in Positions(p), NEW j \in Positions(p), i < j,
                      p[i].fifo, ~p[i].begun
               PROVE  p[j].fifo
    BY DEF FrontFirst
  <2>1. i + 1 < j + 1
    BY <1>2
  <2> QED
    BY <1>1, <2>1 DEF FrontFirst
<1> QED
  BY <1>3 DEF p

(* What is put in front is not of those that take their turn, or has been    *)
(* sent before.                                                              *)
LEMMA FrontFrontFirst ==
    ASSUME NEW q \in TxQueues, NEW t \in Telegrams, t.fifo => t.begun, FrontFirst(q)
    PROVE  FrontFirst(<<t>> \o q)
<1> DEFINE p == <<t>> \o q
<1>1. p[1] = t
  BY WithFront, Zenon
<1>2. \A j \in Positions(p) \ {1} : j - 1 \in Positions(q) /\ p[j] = q[j - 1]
  BY WithFront, Zenon
<1> HIDE DEF p
<1>3. \A i \in Positions(p) : i \in Nat \ {0}
  BY DEF Positions
<1>4. FrontFirst(p)
  <2> SUFFICES ASSUME NEW i \in Positions(p), NEW j \in Positions(p), i < j,
                      p[i].fifo, ~p[i].begun
               PROVE  p[j].fifo
    BY DEF FrontFirst
  <2>1. i # 1
    BY <1>1
  <2>2. j # 1
    BY <1>3
  <2>3. i - 1 < j - 1
    BY <1>3
  <2> QED
    BY <1>2, <2>1, <2>2, <2>3 DEF FrontFirst
<1> QED
  BY <1>4 DEF p

LEMMA BackFrontFirst ==
    ASSUME NEW q \in TxQueues, NEW t \in Telegrams, t.fifo, FrontFirst(q)
    PROVE  FrontFirst(Append(q, t))
<1> DEFINE p == Append(q, t)
<1>1. /\ Len(p) = Len(q) + 1 /\ p[Len(q) + 1] = t
      /\ \A i \in Positions(q) : p[i] = q[i]
  BY WithBack
<1>2. Len(q) \in Nat
  BY QueueFacts
<1> HIDE DEF p
<1>3. \A i \in Positions(p) : i \in Nat /\ i <= Len(q) + 1 /\ (i \in Positions(q) \/ i = Len(q) + 1)
  BY <1>1, <1>2 DEF Positions
<1>4. FrontFirst(p)
  <2> SUFFICES ASSUME NEW i \in Positions(p), NEW j \in Positions(p), i < j,
                      p[i].fifo, ~p[i].begun
               PROVE  p[j].fifo
    BY DEF FrontFirst
  <2>1. CASE j = Len(q) + 1
    BY <1>1, <2>1
  <2>2. CASE j \in Positions(q)
    <3>1. i \in Positions(q)
      BY <1>2, <1>3, <2>2 DEF Positions
    <3> QED
      BY <1>1, <2>2, <3>1 DEF FrontFirst
  <2> QED
    BY <1>3, <2>1, <2>2
<1> QED
  BY <1>4 DEF p

(* TxService::add.                                                           *)
LEMMA InsertFrontFirst ==
    ASSUME NEW q \in TxQueues, NEW t \in Telegrams, NEW front \in BOOLEAN,
           t.fifo = ~front, FrontFirst(q)
    PROVE  FrontFirst(InsertTx(q, t, front))
<1> DEFINE room == MakeRoom(q)
<1>1. room \in TxQueues /\ FrontFirst(room)
  <2>1. CASE Len(q) >= MaxTx
    <3>1. q # <<>>
      BY <2>1, BoundsAssumption
    <3> QED
      BY <2>1, <3>1, TailFrontFirst, WithoutHead, Zenon DEF MakeRoom
  <2>2. CASE ~(Len(q) >= MaxTx)
    BY <2>2, Zenon DEF MakeRoom
  <2> QED
    BY <2>1, <2>2
<1>2. InsertTx(q, t, front) = IF front THEN <<t>> \o room ELSE Append(room, t)
  BY DEF InsertTx
<1> HIDE DEF room
<1>3. CASE front
  <2>1. FrontFirst(<<t>> \o room)
    BY <1>1, <1>3, FrontFrontFirst, Zenon
  <2> QED
    BY <1>2, <1>3, <2>1, Zenon
<1>4. CASE ~front
  <2>1. FrontFirst(Append(room, t))
    BY <1>1, <1>4, BackFrontFirst, Zenon
  <2> QED
    BY <1>2, <1>4, <2>1, Zenon
<1> QED
  BY <1>3, <1>4

-----------------------------------------------------------------------------
(* The invariant and the handlers.                                           *)

RInv == AInv /\ FrontFirst(txq) /\ \A l \in Flight : l.begun

Moves == Progress(Unanswered, txq, Flight, fate, txq', Flight', fate')

(* What a handler does to retry_count_ when it leaves the telegram in flight *)
(* alone, sends one, settles it or puts it back.                             *)
Counted ==
    \/ UNCHANGED <<txState, last, retry>>
    \/ txState = "NONE" /\ retry' = retry
    \/ txState # "NONE" /\ retry' = 0 /\ fate'[last.uid] # "open"
    \/ txState # "NONE" /\ txState' = "NONE" /\ retry' = retry + 1 /\ fate' = fate

Served == /\ FrontFirst(txq') /\ \A l \in Flight' : l.begun
          /\ Moves /\ Counted

LEMMA SendMoves ==
    ASSUME NEW n, NEW q \in TxQueues, NEW f \in Seq(Fates), Accounted(q, f, {}), FrontFirst(q),
           Send(q, f)
    PROVE  /\ Progress(n, q, {}, f, txq', Flight', fate')
           /\ FrontFirst(txq') /\ \A l \in Flight' : l.begun
<1> DEFINE t == Head(q)
<1>1. {} \in SUBSET Telegrams
  OBVIOUS
<1>2. CASE SendNothing(q, f)
  <2>1. txq' = q /\ fate' = f /\ Flight' = {}
    BY <1>2, FlightNext DEF SendNothing
  <2>2. Progress(n, q, {}, f, q, {}, f)
    BY NothingIsQuiet, QuietIsProgress
  <2> QED
    BY <2>1, <2>2
<1>3. ASSUME q # <<>>, NEW o \in Settled, o \in Unsent,
             txq' = Removed(q), fate' = Settle(f, t, o), txState' = "NONE"
      PROVE  /\ Progress(n, q, {}, f, txq', Flight', fate')
             /\ FrontFirst(txq') /\ \A l \in Flight' : l.begun
  <2>1. Quiet(n, q, {}, f, Tail(q), {}, Settle(f, Head(q), o))
    BY <1>1, <1>3, HeadEnds
  <2>2. FrontFirst(Tail(q))
    BY <1>3, TailFrontFirst
  <2>3. Progress(n, q, {}, f, Tail(q), {}, Settle(f, Head(q), o))
    BY <2>1, QuietIsProgress
  <2> QED
    BY <1>3, <2>2, <2>3, FlightNext, Zenon DEF Removed
<1>4. "discarded" \in Settled /\ "failed" \in Settled /\ "sent" \in Settled
  BY DEF Settled, Fates
<1>5. "discarded" \in Unsent /\ "failed" \in Unsent /\ "sent" \in Unsent
  BY DEF Unsent
<1>6. CASE SendDiscard(q, f)
  BY <1>3, <1>4, <1>5, <1>6, Zenon DEF SendDiscard
<1>7. CASE SendFails(q, f)
  BY <1>3, <1>4, <1>5, <1>7, Zenon DEF SendFails
<1>8. CASE Transmit(q, f)
  <2>1. /\ q # <<>> /\ txq' = Removed(q) /\ txState' = Awaits(t)
        /\ last' = [t EXCEPT !.begun = TRUE]
        /\ fate' = IF t.op = "NONE" THEN Settle(f, t, "sent") ELSE f
    BY <1>8, Zenon DEF Transmit
  <2>2. t \in Telegrams
    BY <2>1, WithoutHead
  <2>3. CASE t.op = "NONE"
    <3>1. txState' = "NONE" /\ fate' = Settle(f, t, "sent")
      BY <2>1, <2>3 DEF Awaits
    <3> QED
      BY <1>3, <1>4, <1>5, <2>1, <3>1, Zenon
  <2>4. CASE t.op # "NONE"
    <3>1. txState' # "NONE" /\ fate' = f
      BY <2>1, <2>4 DEF Awaits
    <3>2. last' \in Telegrams
      BY <2>1, <2>2, UpdateType, NoTypeAssumption, Zenon
    <3>3. last'.uid = t.uid /\ last'.fifo = t.fifo /\ last'.begun = TRUE
      BY <2>1, <2>2 DEF Telegrams
    <3>4. Progress(n, q, {}, f, Tail(q), {last'}, f)
      BY <2>1, <3>2, <3>3, HeadStarts, Zenon
    <3>5. FrontFirst(Tail(q))
      BY <2>1, TailFrontFirst
    <3> QED
      BY <2>1, <3>1, <3>3, <3>4, <3>5, FlightNext, Zenon DEF Removed
  <2> QED
    BY <2>3, <2>4
<1> QED
  BY <1>2, <1>6, <1>7, <1>8 DEF Send

(* get_send_id.                                                              *)
LEMMA ExpiryIsQuiet ==
    ASSUME NEW n, NEW q \in TxQueues, NEW f \in Seq(Fates), Accounted(q, f, {}), FrontFirst(q)
    PROVE  /\ Quiet(n, q, {}, f, AfterExpiry(q), {}, FateAfterExpiry(q, f))
           /\ FrontFirst(AfterExpiry(q))
           /\ NewIds(f, FateAfterExpiry(q, f)) = {}
<1>1. {} \in SUBSET Telegrams
  OBVIOUS
<1>2. CASE Expires(q)
  <2>1. q # <<>>
    BY <1>2 DEF Expires, ForeignHead
  <2>2. "expired" \in Settled /\ "expired" \in Unsent /\ "expired" \in Fates
    BY DEF Settled, Fates, Unsent
  <2>3. Quiet(n, q, {}, f, Tail(q), {}, Settle(f, Head(q), "expired"))
    BY <1>1, <2>1, <2>2, HeadEnds
  <2>4. Head(q).uid \in 1 .. Len(f)
    BY <2>1, WithoutHead DEF Accounted, Numbered, Positions
  <2>5. Len(Settle(f, Head(q), "expired")) = Len(f)
    BY <2>2, <2>4, SettleFacts
  <2>6. FrontFirst(Tail(q))
    BY <2>1, TailFrontFirst
  <2>7. NewIds(f, Settle(f, Head(q), "expired")) = {}
    BY <2>5, LenProperties DEF NewIds
  <2> QED
    BY <1>2, <2>3, <2>6, <2>7, Zenon DEF AfterExpiry, FateAfterExpiry
<1>3. CASE ~Expires(q)
  <2>1. NewIds(f, f) = {}
    BY LenProperties DEF NewIds
  <2> QED
    BY <1>3, <2>1, NothingIsQuiet, Zenon DEF AfterExpiry, FateAfterExpiry
<1> QED
  BY <1>2, <1>3

LEMMA NotPolledMoves ==
    ASSUME NEW n, NEW id, NEW q \in TxQueues, NEW f \in Seq(Fates),
           Accounted(q, f, {}), FrontFirst(q), NotPolled(id, q, f)
    PROVE  Quiet(n, q, {}, f, txq', {}, fate') /\ FrontFirst(txq')
<1>1. Quiet(n, q, {}, f, q, {}, f)
  BY NothingIsQuiet
<1>2. /\ Quiet(n, q, {}, f, AfterExpiry(q), {}, FateAfterExpiry(q, f))
      /\ FrontFirst(AfterExpiry(q))
  BY ExpiryIsQuiet
<1> QED
  BY <1>1, <1>2, Zenon DEF NotPolled

LEMMA RTyped ==
    ASSUME RInv
    PROVE  /\ txq \in TxQueues /\ fate \in Seq(Fates) /\ Flight \in SUBSET Telegrams
           /\ retry \in 0 .. MaxRetries /\ FrontFirst(txq)
           /\ txState = "NONE" => Flight = {} /\ Accounted(txq, fate, {})
           /\ txState # "NONE" => /\ Flight = {last} /\ Accounted(txq, fate, {last})
                                  /\ last \in Telegrams /\ last.begun
BY Typed DEF RInv, AInv, IInv, TypeOK, Flight

LEMMA PollMoves ==
    ASSUME RInv, NEW id, Poll(id), fate' \in Seq(Fates)
    PROVE  Served
<1> DEFINE n == Unanswered
           q == AfterExpiry(txq)
           f == FateAfterExpiry(txq, fate)
<1>1. /\ txq \in TxQueues /\ fate \in Seq(Fates) /\ FrontFirst(txq)
      /\ txState = "NONE" /\ Flight = {} /\ Accounted(txq, fate, {})
      /\ retry' = retry /\ {} \in SUBSET Telegrams
  BY RTyped DEF Poll
<1>2. Counted
  BY <1>1, Zenon DEF Counted
<1> HIDE DEF n
<1>3. CASE NotPolled(id, txq, fate) /\ txState' = txState
  <2>1. Quiet(n, txq, {}, fate, txq', {}, fate') /\ FrontFirst(txq')
    BY <1>1, <1>3, NotPolledMoves
  <2>2. Progress(n, txq, {}, fate, txq', {}, fate')
    BY <2>1, QuietIsProgress
  <2> QED
    BY <1>1, <1>2, <1>3, <2>1, <2>2, FlightNext, Zenon DEF Moves, Served, n
<1>4. CASE Send(q, f)
  <2>1. q \in TxQueues /\ f \in Seq(Fates)
    BY <1>1, AfterExpiryType, FateAfterExpiryType
  <2>2. Quiet(n, txq, {}, fate, q, {}, f) /\ FrontFirst(q) /\ NewIds(fate, f) = {}
    BY <1>1, ExpiryIsQuiet
  <2>3. Accounted(q, f, {})
    BY <1>1, ExpiryAccounted
  <2> HIDE DEF q, f
  <2>4. /\ Progress(n, q, {}, f, txq', Flight', fate')
        /\ FrontFirst(txq') /\ \A l \in Flight' : l.begun
    BY <1>4, <2>1, <2>2, <2>3, SendMoves
  <2>5. NoNewTurn(q, {}, fate, f)
    BY <2>2 DEF NoNewTurn
  <2>6. Progress(n, txq, {}, fate, txq', Flight', fate')
    BY <1>1, <2>1, <2>2, <2>4, <2>5, QuietThenProgress
  <2> QED
    BY <1>1, <1>2, <2>4, <2>6, Zenon DEF Moves, Served, n
<1> QED
  BY <1>3, <1>4, Zenon DEF Poll

(* A telegram that has come to its end keeps it.                             *)
LEMMA SettledStays ==
    ASSUME NEW f \in Seq(Fates), NEW g \in Seq(Fates), NEW h \in Seq(Fates),
           NEW u \in 1 .. Len(f), f[u] # "open", Kept(f, g), Kept(g, h)
    PROVE  h[u] # "open"
<1>1. Kept(f, h)
  BY KeptTransitive
<1> QED
  BY <1>1 DEF Kept

(* The telegram in flight is settled and, perhaps, a new read put in front.  *)
LEMMA SettledMoves ==
    ASSUME NEW n, RInv, txState # "NONE", NEW o \in Settled, EndsAs(Entry(last, TRUE), o, n)
    PROVE  LET f == Settle(fate, last, o)
           IN  /\ f \in Seq(Fates) /\ Accounted(txq, f, {})
               /\ Quiet(n, txq, {last}, fate, txq, {}, f)
               /\ last.uid \in 1 .. Len(f) /\ f[last.uid] # "open"
<1>1. /\ txq \in TxQueues /\ fate \in Seq(Fates) /\ last \in Telegrams
      /\ Accounted(txq, fate, {last})
  BY RTyped
<1>2. o \in Fates /\ o # "open" /\ last.uid \in 1 .. Len(fate)
  BY <1>1 DEF Settled, Accounted, Apart
<1> DEFINE f == Settle(fate, last, o)
<1>3. f \in Seq(Fates) /\ Accounted(txq, f, {})
  BY <1>1, FlightSettled
<1>4. Quiet(n, txq, {last}, fate, txq, {}, f)
  BY <1>1, FlightEnds
<1>5. last.uid \in 1 .. Len(f) /\ f[last.uid] = o
  BY <1>1, <1>2, SettleFacts
<1> QED
  BY <1>2, <1>3, <1>4, <1>5, Zenon

LEMMA SettledAndAskedMoves ==
    ASSUME NEW n, RInv, txState # "NONE", NEW o \in Settled,
           EndsAs(Entry(last, TRUE), o, n), NEW type \in Types, NEW part \in 0 .. MaxParts
    PROVE  LET f == Settle(fate, last, o)
               q == InsertTx(txq, InternalRead(type, part), TRUE)
               g == InsertFate(f, txq)
           IN  /\ q \in TxQueues /\ g \in Seq(Fates) /\ Accounted(q, g, {})
               /\ Quiet(n, txq, {last}, fate, q, {}, g)
               /\ FrontFirst(q) /\ NoNewTurn(q, {}, fate, g)
               /\ last.uid \in 1 .. Len(g) /\ g[last.uid] # "open"
<1> DEFINE f == Settle(fate, last, o)
           r == InternalRead(type, part)
           q == InsertTx(txq, r, TRUE)
           g == InsertFate(f, txq)
<1>1. /\ txq \in TxQueues /\ fate \in Seq(Fates) /\ last \in Telegrams
      /\ Accounted(txq, fate, {last}) /\ FrontFirst(txq)
  BY RTyped
<1>2. f \in Seq(Fates) /\ Len(f) = Len(fate) /\ Accounted(txq, f, {})
  BY <1>1, FlightSettled
<1>3. /\ Quiet(n, txq, {last}, fate, txq, {}, f)
      /\ last.uid \in 1 .. Len(f) /\ f[last.uid] # "open"
  BY SettledMoves
<1>4. r \in Telegrams /\ r.uid = Len(fate) + 1 /\ ~r.fifo
  BY <1>1, InternalReadType, InternalReadNew
<1>5. ~r.begun /\ r.fifo = FALSE
  BY DEF InternalRead, NewTelegram
<1>6. q \in TxQueues /\ g \in Seq(Fates) /\ Accounted(q, g, {})
  BY SettledAndAsked DEF RInv
<1>7. {} \in SUBSET Telegrams /\ TRUE \in BOOLEAN
  OBVIOUS
<1>8. q = <<r>> \o MakeRoom(txq)
  BY DEF InsertTx
<1>9. MakeRoom(txq) \in TxQueues
  BY <1>1, <1>2, <1>7, MakesRoom
<1> HIDE DEF f, r
<1>10. r.uid = Len(f) + 1
  BY <1>2, <1>4
<1>11. Quiet(n, txq, {}, f, q, {}, g)
  BY <1>1, <1>2, <1>4, <1>5, <1>7, <1>10, InsertIsQuiet, Zenon
<1>12. FrontFirst(q)
  <2>1. r.fifo = ~TRUE
    BY <1>5
  <2> QED
    BY <1>1, <1>4, <1>7, <2>1, InsertFrontFirst, Zenon
<1>13. Len(g) = Len(fate) + 1
  <2> DEFINE g1 == IF Len(txq) >= MaxTx THEN Settle(f, Head(txq), "overflow") ELSE f
  <2>1. g1 \in Seq(Fates) /\ Len(g1) = Len(f)
    BY <1>1, <1>2, <1>7, MakesRoom
  <2>2. g = Append(g1, "open")
    BY DEF InsertFate
  <2> HIDE DEF g1, g
  <2> QED
    BY <1>2, <2>1, <2>2, OpenedFacts
<1>14. q[1] = r /\ 1 \in Positions(q)
  <2>1. (<<r>> \o MakeRoom(txq))[1] = r /\ Len(<<r>> \o MakeRoom(txq)) = Len(MakeRoom(txq)) + 1
    BY <1>4, <1>9, WithFront
  <2>2. Len(MakeRoom(txq)) \in Nat
    BY <1>9, QueueFacts
  <2>3. q[1] = r /\ Len(q) = Len(MakeRoom(txq)) + 1
    BY <1>8, <2>1, Zenon
  <2> HIDE DEF q
  <2> QED
    BY <2>2, <2>3 DEF Positions
<1> HIDE DEF q, g
<1>15. Quiet(n, txq, {last}, fate, q, {}, g)
  BY <1>1, <1>2, <1>3, <1>6, <1>11, QuietThenQuiet
<1>16. last.uid \in 1 .. Len(g) /\ g[last.uid] # "open"
  <2>1. Kept(f, g)
    BY <1>11 DEF Quiet
  <2>2. Len(f) \in Nat /\ Len(g) \in Nat
    BY <1>2, <1>6, LenProperties
  <2> QED
    BY <1>3, <2>1, <2>2 DEF Kept
<1>17. NoNewTurn(q, {}, fate, g)
  <2> SUFFICES ASSUME NEW u \in NewIds(fate, g), NEW e, At(q, {}, u, e)
               PROVE  ~e.inTurn
    BY DEF NoNewTurn
  <2>1. u = r.uid
    <3>1. Len(fate) \in Nat
      BY <1>1, LenProperties
    <3> QED
      BY <1>4, <1>13, <3>1 DEF NewIds
  <2>2. PICK i \in Positions(q) : q[i].uid = u /\ e = Entry(q[i], FALSE)
    BY DEF At
  <2>3. i = 1
    BY <1>6, <1>14, <2>1, <2>2 DEF Accounted, Distinct
  <2>4. e = Entry(r, FALSE)
    BY <1>14, <2>2, <2>3
  <2>5. e.inTurn = r.fifo
    BY <2>4, Zenon DEF Entry
  <2> QED
    BY <1>4, <2>5, Zenon
<1> QED
  BY <1>6, <1>12, <1>15, <1>16, <1>17 DEF f, r, q, g

LEMMA AnsweredEnds ==
    ASSUME NEW n, NEW l, NEW o \in {"written", "rejected", "read", "skipped"}
    PROVE  o \in Settled /\ EndsAs(Entry(l, TRUE), o, n)
<1>1. Entry(l, TRUE).onWire
  BY Zenon DEF Entry
<1> QED
  BY <1>1 DEF Settled, Fates, EndsAs, Answered

(* The rest of the handler of an acknowledge: NotPolled on what it left.     *)
LEMMA ThenNotPolledMoves ==
    ASSUME RInv, txState # "NONE", txState' = "NONE", retry' = 0, fate' \in Seq(Fates),
           NEW q \in TxQueues, NEW f \in Seq(Fates), Accounted(q, f, {}), FrontFirst(q),
           Quiet(Unanswered, txq, {last}, fate, q, {}, f),
           last.uid \in 1 .. Len(f), f[last.uid] # "open",
           NotPolled("ack", q, f)
    PROVE  Served
<1> DEFINE n == Unanswered
<1>1. fate \in Seq(Fates) /\ Flight = {last}
  BY RTyped
<1>2. Quiet(n, txq, {last}, fate, q, {}, f)
  OBVIOUS
<1> HIDE DEF n
<1>3. Quiet(n, q, {}, f, txq', {}, fate') /\ FrontFirst(txq')
  BY NotPolledMoves
<1>4. Quiet(n, txq, {last}, fate, txq', {}, fate')
  BY <1>1, <1>2, <1>3, QuietThenQuiet
<1>5. Progress(n, txq, {last}, fate, txq', {}, fate')
  BY <1>4, QuietIsProgress
<1>6. fate'[last.uid] # "open"
  BY <1>3 DEF Quiet, Kept
<1>7. Counted
  BY <1>6, Zenon DEF Counted
<1> QED
  BY <1>1, <1>3, <1>5, <1>7, FlightNext, Zenon DEF Moves, Served, n

LEMMA WriteAckedMoves ==
    ASSUME RInv, WriteAcked, fate' \in Seq(Fates)
    PROVE  Served
<1> DEFINE n == Unanswered
           settled  == Settle(fate, last, "written")
           part     == IF psq = last.type THEN last.part ELSE 0
           q == IF psq = NoType THEN txq ELSE InsertTx(txq, InternalRead(psq, part), TRUE)
           f == IF psq = NoType THEN settled ELSE InsertFate(settled, txq)
<1>1. /\ txState # "NONE" /\ txState' = "NONE" /\ retry' = 0 /\ NotPolled("ack", q, f)
  BY Zenon DEF WriteAcked
<1>2. /\ txq \in TxQueues /\ fate \in Seq(Fates) /\ FrontFirst(txq)
      /\ last \in Telegrams /\ Accounted(txq, fate, {last})
  BY <1>1, RTyped
<1>3. "written" \in Settled /\ EndsAs(Entry(last, TRUE), "written", n)
  BY AnsweredEnds
<1> HIDE DEF n
<1>4. /\ q \in TxQueues /\ f \in Seq(Fates) /\ Accounted(q, f, {}) /\ FrontFirst(q)
      /\ Quiet(n, txq, {last}, fate, q, {}, f)
      /\ last.uid \in 1 .. Len(f) /\ f[last.uid] # "open"
  <2>1. CASE psq = NoType
    <3>1. /\ settled \in Seq(Fates) /\ Accounted(txq, settled, {})
          /\ Quiet(n, txq, {last}, fate, txq, {}, settled)
          /\ last.uid \in 1 .. Len(settled) /\ settled[last.uid] # "open"
      BY <1>1, <1>3, SettledMoves
    <3> QED
      BY <1>2, <2>1, <3>1, Zenon
  <2>2. CASE psq # NoType
    <3>1. psq \in Types
      BY <2>2 DEF RInv, AInv, IInv, TypeOK
    <3>2. part \in 0 .. MaxParts
      BY <1>2, FieldTypes, BoundsAssumption
    <3> HIDE DEF part
    <3> QED
      BY <1>1, <1>3, <2>2, <3>1, <3>2, SettledAndAskedMoves, Zenon
  <2> QED
    BY <2>1, <2>2
<1> HIDE DEF q, f
<1> QED
  BY <1>1, <1>4, ThenNotPolledMoves DEF n

LEMMA WriteRejectedMoves ==
    ASSUME RInv, WriteRejected, fate' \in Seq(Fates)
    PROVE  Served
<1> DEFINE n == Unanswered
           f == Settle(fate, last, "rejected")
<1>1. /\ txState # "NONE" /\ txState' = "NONE" /\ retry' = 0 /\ NotPolled("ack", txq, f)
  BY Zenon DEF WriteRejected
<1>2. txq \in TxQueues /\ FrontFirst(txq)
  BY RTyped
<1>3. "rejected" \in Settled /\ EndsAs(Entry(last, TRUE), "rejected", n)
  BY AnsweredEnds
<1> HIDE DEF n
<1>4. /\ f \in Seq(Fates) /\ Accounted(txq, f, {})
      /\ Quiet(n, txq, {last}, fate, txq, {}, f)
      /\ last.uid \in 1 .. Len(f) /\ f[last.uid] # "open"
  BY <1>1, <1>3, SettledMoves
<1> HIDE DEF f
<1> QED
  BY <1>1, <1>2, <1>4, ThenNotPolledMoves DEF n

LEMMA ReadAnsweredMoves ==
    ASSUME RInv, NEW type, NEW crc, NEW more \in BOOLEAN, ReadAnswered(type, crc, more),
           fate' \in Seq(Fates)
    PROVE  Served
<1> DEFINE n == Unanswered
           settled == Settle(fate, last, "read")
           next    == InternalRead(last.type, last.part + 1)
           q == InsertTx(txq, next, TRUE)
           f == InsertFate(settled, txq)
<1>1. txState # "NONE" /\ retry' = 0
  BY DEF ReadAnswered
<1>2. /\ txq \in TxQueues /\ fate \in Seq(Fates) /\ Flight = {last} /\ FrontFirst(txq)
      /\ last \in Telegrams /\ Accounted(txq, fate, {last})
  BY <1>1, RTyped
<1>3. "read" \in Settled /\ EndsAs(Entry(last, TRUE), "read", n)
  BY AnsweredEnds
<1> HIDE DEF n
<1>4. CASE more
  <2>1. last.part + 1 \in 0 .. MaxParts /\ last.type \in Types
    BY <1>2, <1>4, FieldTypes, BoundsAssumption DEF ReadAnswered
  <2>2. Send(q, f)
    BY <1>4, Zenon DEF ReadAnswered
  <2>3. /\ q \in TxQueues /\ f \in Seq(Fates) /\ Accounted(q, f, {})
        /\ Quiet(n, txq, {last}, fate, q, {}, f)
        /\ FrontFirst(q) /\ NoNewTurn(q, {}, fate, f)
        /\ last.uid \in 1 .. Len(f) /\ f[last.uid] # "open"
    BY <1>1, <1>3, <2>1, SettledAndAskedMoves, Zenon
  <2> HIDE DEF q, f
  <2>4. /\ Progress(n, q, {}, f, txq', Flight', fate')
        /\ FrontFirst(txq') /\ \A l \in Flight' : l.begun
    BY <2>2, <2>3, SendMoves
  <2>5. Progress(n, txq, {last}, fate, txq', Flight', fate')
    BY <1>2, <2>3, <2>4, QuietThenProgress
  <2>6. fate'[last.uid] # "open"
    BY <2>3, <2>4 DEF Progress, Kept
  <2>7. Counted
    BY <1>1, <2>6, Zenon DEF Counted
  <2> QED
    BY <1>2, <2>4, <2>5, <2>7, Zenon DEF Moves, Served, n
<1>5. CASE ~more
  <2>1. txState' = "NONE" /\ fate' = settled /\ txq' = txq
    BY <1>5, Zenon DEF ReadAnswered
  <2>2. /\ Quiet(n, txq, {last}, fate, txq, {}, settled)
        /\ settled[last.uid] # "open"
    BY <1>1, <1>3, SettledMoves
  <2>3. Progress(n, txq, {last}, fate, txq, {}, settled)
    BY <2>2, QuietIsProgress
  <2>4. Counted
    BY <1>1, <2>1, <2>2, Zenon DEF Counted
  <2> QED
    BY <1>2, <2>1, <2>3, <2>4, FlightNext, Zenon DEF Moves, Served, n
<1> QED
  BY <1>4, <1>5

(* retry_tx: the telegram in flight is given up, or waits again.             *)
LEMMA NoAnswerMoves ==
    ASSUME RInv, NoAnswer, fate' \in Seq(Fates)
    PROVE  Served
<1> DEFINE n == Unanswered
<1>1. txState # "NONE" /\ txState' = "NONE" /\ (GiveUp \/ SkipRetry \/ RetryLast)
  BY Zenon DEF NoAnswer
<1>2. /\ txq \in TxQueues /\ fate \in Seq(Fates) /\ Flight = {last} /\ FrontFirst(txq)
      /\ last \in Telegrams /\ last.begun /\ Accounted(txq, fate, {last})
      /\ retry \in 0 .. MaxRetries
  BY <1>1, RTyped
<1>3. n = retry + 1
  BY <1>1 DEF Unanswered
<1> HIDE DEF n
<1>4. ASSUME NEW o \in Settled, EndsAs(Entry(last, TRUE), o, n),
             txq' = txq, fate' = Settle(fate, last, o), retry' = 0
      PROVE  Served
  <2>1. /\ Quiet(n, txq, {last}, fate, txq, {}, Settle(fate, last, o))
        /\ Settle(fate, last, o)[last.uid] # "open"
    BY <1>1, <1>4, SettledMoves
  <2>2. Progress(n, txq, {last}, fate, txq, {}, Settle(fate, last, o))
    BY <2>1, QuietIsProgress
  <2>3. Counted
    BY <1>1, <1>4, <2>1, Zenon DEF Counted
  <2> QED
    BY <1>1, <1>2, <1>4, <2>2, <2>3, FlightNext, Zenon DEF Moves, Served, n
<1>5. CASE GiveUp
  <2>1. retry = MaxRetries
    BY <1>2, <1>5, BoundsAssumption DEF GiveUp, RetriesUsedUp
  <2>2. n = MaxRetries + 1
    BY <1>3, <2>1
  <2>3. Entry(last, TRUE).onWire
    BY Zenon DEF Entry
  <2>4. /\ "failed" \in Settled /\ "ignored" \in Settled
        /\ "failed" \in Answered /\ "ignored" \in Answered
    BY DEF Settled, Fates, Answered
  <2>5. /\ EndsAs(Entry(last, TRUE), "failed", n)
        /\ EndsAs(Entry(last, TRUE), "ignored", n)
    BY <2>2, <2>3, <2>4, Zenon DEF EndsAs
  <2>6. /\ txq' = txq /\ retry' = 0
        /\ fate' = Settle(fate, last, "failed") \/ fate' = Settle(fate, last, "ignored")
    BY <1>5, Zenon DEF GiveUp
  <2> QED
    BY <1>4, <2>4, <2>5, <2>6, Zenon
<1>6. CASE SkipRetry
  <2>1. "skipped" \in Settled /\ EndsAs(Entry(last, TRUE), "skipped", n)
    BY AnsweredEnds
  <2> QED
    BY <1>4, <1>6, <2>1, Zenon DEF SkipRetry
<1>7. CASE RetryLast
  <2> DEFINE again == [last EXCEPT !.val = psq]
  <2>1. txq' = Requeue(txq, again) /\ fate' = fate /\ retry' = retry + 1
    BY <1>7, Zenon DEF RetryLast
  <2>2. psq \in Types \cup {NoType}
    BY DEF RInv, AInv, IInv, TypeOK
  <2>3. again \in Telegrams
    BY <1>2, <2>2, UpdateType, Zenon
  <2>4. again.uid = last.uid /\ again.fifo = last.fifo /\ again.begun = last.begun
    BY <1>2 DEF Telegrams
  <2> HIDE DEF again
  <2>5. n < MaxRetries + 1
    BY <1>2, <1>3, <1>7, BoundsAssumption DEF RetryLast, RetriesUsedUp
  <2>6. Progress(n, txq, {last}, fate, Requeue(txq, again), {}, fate)
    BY <1>2, <2>3, <2>4, <2>5, FlightWaits
  <2>7. FrontFirst(Requeue(txq, again))
    BY <1>2, <2>3, <2>4, FrontFrontFirst, Zenon DEF Requeue
  <2>8. Counted
    BY <1>1, <2>1, Zenon DEF Counted
  <2> QED
    BY <1>1, <1>2, <2>1, <2>6, <2>7, <2>8, FlightNext, Zenon DEF Moves, Served, n
<1> QED
  BY <1>1, <1>5, <1>6, <1>7

(* A new request, with or without a telegram in flight.                      *)
LEMMA QueuedMoves ==
    ASSUME RInv, NEW t \in Telegrams, NEW front \in BOOLEAN,
           t.uid = Len(fate) + 1, ~t.begun, t.fifo = ~front,
           txq' = InsertTx(txq, t, front), fate' = InsertFate(fate, txq),
           UNCHANGED <<txState, last, retry>>
    PROVE  Served
<1> DEFINE n == Unanswered
<1>1. /\ txq \in TxQueues /\ fate \in Seq(Fates) /\ Flight \in SUBSET Telegrams
      /\ Accounted(txq, fate, Flight) /\ FrontFirst(txq) /\ \A l \in Flight : l.begun
  BY RTyped DEF RInv, AInv
<1> HIDE DEF n
<1>2. Quiet(n, txq, Flight, fate, txq', Flight, fate')
  BY <1>1, InsertIsQuiet
<1>3. Flight' = Flight
  BY DEF Flight
<1>4. Progress(n, txq, Flight, fate, txq', Flight, fate')
  BY <1>2, QuietIsProgress
<1>5. FrontFirst(txq')
  BY <1>1, InsertFrontFirst, Zenon
<1>6. Counted
  BY Zenon DEF Counted
<1> QED
  BY <1>1, <1>3, <1>4, <1>5, <1>6, Zenon DEF Moves, Served, n

LEMMA OthersMove ==
    ASSUME RInv, UNCHANGED <<txq, txState, last, fate, retry>>
    PROVE  Served
<1> DEFINE n == Unanswered
<1>1. fate \in Seq(Fates) /\ FrontFirst(txq) /\ \A l \in Flight : l.begun
  BY RTyped DEF RInv
<1> HIDE DEF n
<1>2. Progress(n, txq, Flight, fate, txq, Flight, fate)
  BY <1>1, NothingIsQuiet, QuietIsProgress
<1>3. txq' = txq /\ fate' = fate /\ Flight' = Flight
  BY Zenon DEF Flight
<1>4. Counted
  BY Zenon DEF Counted
<1> QED
  BY <1>1, <1>2, <1>3, <1>4, Zenon DEF Moves, Served, n

-----------------------------------------------------------------------------
(* A step takes in at most one request.                                      *)

LEMMA SettleLength ==
    ASSUME NEW f \in Seq(Fates), NEW t, NEW o \in Fates
    PROVE  Settle(f, t, o) \in Seq(Fates) /\ Len(Settle(f, t, o)) = Len(f)
<1> DEFINE g == Settle(f, t, o)
<1>1. g \in Seq(Fates)
  BY SettleType
<1>2. DOMAIN g = DOMAIN f
  BY DEF Settle
<1> HIDE DEF g
<1>3. DOMAIN g = 1 .. Len(g) /\ DOMAIN f = 1 .. Len(f) /\ Len(g) \in Nat /\ Len(f) \in Nat
  BY <1>1, LenProperties
<1>4. ~(Len(g) < Len(f))
  <2>1. Len(g) < Len(f) => Len(f) \in 1 .. Len(f) /\ Len(f) \notin 1 .. Len(g)
    BY <1>3
  <2> QED
    BY <1>2, <1>3, <2>1
<1>5. ~(Len(f) < Len(g))
  <2>1. Len(f) < Len(g) => Len(g) \in 1 .. Len(g) /\ Len(g) \notin 1 .. Len(f)
    BY <1>3
  <2> QED
    BY <1>2, <1>3, <2>1
<1>6. Len(g) = Len(f)
  <2>1. \A m, n \in Nat : ~(m < n) /\ ~(n < m) => m = n
    OBVIOUS
  <2>2. Len(g) \in Nat /\ Len(f) \in Nat
    BY <1>3, Zenon
  <2> QED
    BY <1>4, <1>5, <2>1, <2>2, Zenon
<1> QED
  BY <1>1, <1>6 DEF g

LEMMA InsertLength ==
    ASSUME NEW f \in Seq(Fates), NEW q
    PROVE  InsertFate(f, q) \in Seq(Fates) /\ Len(InsertFate(f, q)) = Len(f) + 1
<1> DEFINE g == IF Len(q) >= MaxTx THEN Settle(f, Head(q), "overflow") ELSE f
<1>1. "overflow" \in Fates
  BY DEF Fates
<1>2. g \in Seq(Fates) /\ Len(g) = Len(f)
  BY <1>1, SettleLength
<1>3. InsertFate(f, q) = Append(g, "open")
  BY DEF InsertFate
<1> HIDE DEF g
<1> QED
  BY <1>2, <1>3, OpenedFacts

LEMMA SendLength ==
    ASSUME NEW q, NEW f \in Seq(Fates), Send(q, f)
    PROVE  Len(fate') = Len(f)
<1>1. "sent" \in Fates /\ "discarded" \in Fates /\ "failed" \in Fates
  BY DEF Fates
<1>2. \/ fate' = f
      \/ \E o \in Fates : fate' = Settle(f, Head(q), o)
  BY <1>1, Zenon DEF Send, SendNothing, SendDiscard, SendFails, Transmit
<1> QED
  BY <1>2, SettleLength

LEMMA ExpiryLength ==
    ASSUME NEW q, NEW f \in Seq(Fates)
    PROVE  FateAfterExpiry(q, f) \in Seq(Fates) /\ Len(FateAfterExpiry(q, f)) = Len(f)
BY SettleLength DEF FateAfterExpiry, Fates

LEMMA NotPolledLength ==
    ASSUME NEW id, NEW q, NEW f \in Seq(Fates), NotPolled(id, q, f)
    PROVE  Len(fate') = Len(f)
BY ExpiryLength, Zenon DEF NotPolled

LEMMA NextLength ==
    ASSUME fate \in Seq(Fates), [Next]_vars
    PROVE  Len(fate') \in {Len(fate), Len(fate) + 1}
<1>1. \A t : \A o \in Fates : /\ Settle(fate, t, o) \in Seq(Fates)
                              /\ Len(Settle(fate, t, o)) = Len(fate)
  BY SettleLength
<1>2. {"written", "read", "rejected", "ignored", "failed", "skipped"} \subseteq Fates
  BY DEF Fates
<1>3. ASSUME UNCHANGED fate PROVE Len(fate') \in {Len(fate), Len(fate) + 1}
  BY <1>3
<1>4. ASSUME NEW id \in PollIds, Poll(id) PROVE Len(fate') \in {Len(fate), Len(fate) + 1}
  <2>1. NotPolled(id, txq, fate) \/ Send(AfterExpiry(txq), FateAfterExpiry(txq, fate))
    BY <1>4, Zenon DEF Poll
  <2> QED
    BY <2>1, NotPolledLength, SendLength, ExpiryLength
<1>5. ASSUME WriteAcked PROVE Len(fate') \in {Len(fate), Len(fate) + 1}
  <2> DEFINE settled == Settle(fate, last, "written")
             f == IF psq = NoType THEN settled ELSE InsertFate(settled, txq)
             readback == InternalRead(psq, IF psq = last.type THEN last.part ELSE 0)
             q == IF psq = NoType THEN txq ELSE InsertTx(txq, readback, TRUE)
  <2>1. NotPolled("ack", q, f)
    BY <1>5, Zenon DEF WriteAcked
  <2>2. settled \in Seq(Fates) /\ Len(settled) = Len(fate)
    BY <1>1, <1>2
  <2> HIDE DEF settled, q
  <2>3. f \in Seq(Fates) /\ Len(f) \in {Len(fate), Len(fate) + 1}
    BY <2>2, InsertLength
  <2> HIDE DEF f
  <2> QED
    BY <2>1, <2>3, NotPolledLength
<1>6. ASSUME WriteRejected PROVE Len(fate') \in {Len(fate), Len(fate) + 1}
  <2>1. NotPolled("ack", txq, Settle(fate, last, "rejected"))
    BY <1>6, Zenon DEF WriteRejected
  <2> QED
    BY <1>1, <1>2, <2>1, NotPolledLength
<1>7. ASSUME NEW type \in Types, NEW crc \in BOOLEAN, NEW more \in BOOLEAN,
             ReadAnswered(type, crc, more)
      PROVE  Len(fate') \in {Len(fate), Len(fate) + 1}
  <2> DEFINE settled == Settle(fate, last, "read")
             next == InternalRead(last.type, last.part + 1)
  <2>1. \/ Send(InsertTx(txq, next, TRUE), InsertFate(settled, txq))
        \/ fate' = settled
    BY <1>7, Zenon DEF ReadAnswered
  <2>2. settled \in Seq(Fates) /\ Len(settled) = Len(fate)
    BY <1>1, <1>2
  <2> HIDE DEF settled, next
  <2>3. InsertFate(settled, txq) \in Seq(Fates) /\ Len(InsertFate(settled, txq)) = Len(fate) + 1
    BY <2>2, InsertLength
  <2> QED
    BY <2>1, <2>2, <2>3, SendLength
<1>8. ASSUME NoAnswer PROVE Len(fate') \in {Len(fate), Len(fate) + 1}
  <2>1. UNCHANGED fate \/ \E o \in Fates : fate' = Settle(fate, last, o)
    BY <1>2, <1>8 DEF NoAnswer, GiveUp, SkipRetry, RetryLast
  <2> QED
    BY <1>1, <2>1
<1>9. ASSUME Main PROVE Len(fate') \in {Len(fate), Len(fate) + 1}
  <2>1. UNCHANGED fate \/ fate' = InsertFate(fate, txq)
    BY <1>9, Zenon DEF Main, Add, ProcessTelegram, SetModes, tx
  <2> QED
    BY <2>1, InsertLength
<1>10. ASSUME Echo \/ (\E r \in Broadcasts : Broadcast(r)) \/ Time \/ UNCHANGED vars
       PROVE  UNCHANGED fate
  BY <1>10, Zenon DEF Echo, Broadcast, Time, DelayOver, BusTimeout, vars, tx
<1> QED
  BY <1>3, <1>4, <1>5, <1>6, <1>7, <1>8, <1>9, <1>10 DEF Next, Bus

LEMMA AddMoves ==
    ASSUME RInv, NEW r \in Requests, Add(r)
    PROVE  Served
<1> DEFINE front  == r.front /\ (r.op = "TX_RAW" => responseId = NoType)
           placed == [r EXCEPT !.front = front]
           t == NewTelegram(placed)
<1>1. r \in RequestSet
  BY RequestsAssumption
<1>2. front \in BOOLEAN
  BY <1>1 DEF RequestSet
<1>3. /\ txq' = InsertTx(txq, t, front) /\ fate' = InsertFate(fate, txq)
      /\ UNCHANGED <<txState, last, retry>>
  BY Zenon DEF Add
<1> HIDE DEF front
<1>4. placed \in RequestSet /\ placed.front = front
  BY <1>1, <1>2 DEF RequestSet
<1>5. fate \in Seq(Fates)
  BY RTyped
<1> HIDE DEF placed
<1>6. t.uid = Len(fate) + 1 /\ ~t.begun /\ t.fifo = ~placed.front
  BY DEF NewTelegram
<1>7. t \in Telegrams
  BY <1>4, <1>5, NewTelegramType, Zenon
<1>8. t.fifo = ~front
  BY <1>4, <1>6, Zenon
<1> HIDE DEF t
<1> QED
  BY <1>2, <1>3, <1>6, <1>7, <1>8, QueuedMoves, Zenon

LEMMA ProcessTelegramMoves ==
    ASSUME RInv, NEW published, NEW unknown, ProcessTelegram(published, unknown)
    PROVE  Served
<1> DEFINE r == [op |-> "TX_READ", src |-> "own", type |-> VersionType, part |-> 0,
                 val |-> NoType, size |-> "fits", full |-> FALSE, front |-> FALSE]
           t == NewTelegram(r)
<1>1. fate \in Seq(Fates)
  BY RTyped
<1>2. r \in RequestSet
  BY NoTypeAssumption, BoundsAssumption DEF RequestSet, Operations, Sources, Sizes
<1>3. t.uid = Len(fate) + 1 /\ ~t.begun /\ t.fifo = ~FALSE
  BY DEF NewTelegram
<1>4. t \in Telegrams
  <2> HIDE DEF r
  <2> QED
    BY <1>1, <1>2, NewTelegramType
<1>5. /\ UNCHANGED <<txState, last, retry>>
      /\ \/ txq' = InsertTx(txq, t, FALSE) /\ fate' = InsertFate(fate, txq)
         \/ txq' = txq /\ fate' = fate
  BY Zenon DEF ProcessTelegram
<1>6. FALSE \in BOOLEAN
  OBVIOUS
<1> HIDE DEF t
<1>7. CASE txq' = InsertTx(txq, t, FALSE) /\ fate' = InsertFate(fate, txq)
  BY <1>3, <1>4, <1>5, <1>6, <1>7, QueuedMoves, Zenon
<1>8. CASE txq' = txq /\ fate' = fate
  BY <1>5, <1>8, OthersMove, Zenon
<1> QED
  BY <1>5, <1>7, <1>8

LEMMA NextMoves == RInv /\ [Next]_vars => RInv' /\ Served
<1> SUFFICES ASSUME RInv, [Next]_vars PROVE RInv' /\ Served
  OBVIOUS
<1>1. AInv'
  BY NextAccounts, Zenon DEF RInv
<1>2. fate' \in Seq(Fates)
  BY <1>1 DEF AInv, IInv, TypeOK
<1>3. ASSUME Echo \/ (\E r \in Broadcasts : Broadcast(r)) \/ SetModes
             \/ DelayOver \/ BusTimeout \/ UNCHANGED vars
      PROVE  Served
  BY <1>3, OthersMove, Zenon DEF Echo, Broadcast, SetModes, DelayOver, BusTimeout, vars, tx
<1>4. ASSUME Bus PROVE Served
  BY <1>2, <1>3, <1>4, PollMoves, WriteAckedMoves, WriteRejectedMoves,
     ReadAnsweredMoves, NoAnswerMoves DEF Bus
<1>5. ASSUME Main PROVE Served
  BY <1>3, <1>5, AddMoves, ProcessTelegramMoves DEF Main
<1>6. ASSUME Time \/ UNCHANGED vars PROVE Served
  BY <1>3, <1>6 DEF Time
<1>7. Served
  BY <1>4, <1>5, <1>6 DEF Next
<1>8. FrontFirst(txq') <=> FrontFirst(txq)'
  BY DEF FrontFirst, Positions
<1> QED
  BY <1>1, <1>7, <1>8, Zenon DEF RInv, Served

LEMMA InitRInv == Init => RInv
<1> SUFFICES ASSUME Init PROVE RInv
  OBVIOUS
<1>1. AInv
  BY InitAInv
<1>2. txq = <<>> /\ Flight = {}
  BY DEF Init, Flight
<1>3. Positions(<<>>) = {}
  BY DEF Positions
<1> QED
  BY <1>1, <1>2, <1>3 DEF RInv, FrontFirst

-----------------------------------------------------------------------------
(* The refinement mapping.                                                   *)

Mapped ==
    /\ DOMAIN fate = 1 .. Len(fate)
    /\ DOMAIN Obligations = {u \in 1 .. Len(fate) : fate[u] = "open"}
    /\ \A u \in DOMAIN Obligations : At(txq, Flight, u, Obligations[u])
    /\ \A u \in 1 .. Len(fate) : \A e :
          At(txq, Flight, u, e) => u \in DOMAIN Obligations /\ e = Obligations[u]

LEMMA MappingHolds == AInv => Mapped
<1> SUFFICES ASSUME AInv PROVE Mapped
  OBVIOUS
<1>1. txq \in Seq(Telegrams) /\ fate \in Seq(Fates)
  BY DEF AInv, IInv, TypeOK
<1>2. DOMAIN txq = Positions(txq) /\ DOMAIN fate = 1 .. Len(fate)
  BY <1>1, LenProperties DEF Positions
<1>3. \A u : InFlight(u) <=> \E l \in Flight : l.uid = u
  <2>1. txState # "NONE" => last # Null
    BY DEF AInv, IInv, AwaitedTelegram
  <2> QED
    BY <2>1 DEF InFlight, Flight
<1>4. DOMAIN Obligations = {u \in 1 .. Len(fate) : Queued(u) \/ InFlight(u)}
  BY <1>2 DEF Obligations
<1>5. \A u \in 1 .. Len(fate) : fate[u] = "open" <=> Queued(u) \/ InFlight(u)
  BY <1>2, <1>3 DEF AInv, Accounted, OpenHeld, Holds, Queued
<1>6. DOMAIN Obligations = {u \in 1 .. Len(fate) : fate[u] = "open"}
  BY <1>4, <1>5
<1>7. ASSUME NEW u \in DOMAIN Obligations
      PROVE  Obligations[u] = [begun  |-> HeldTelegram(u).begun,
                               onWire |-> InFlight(u),
                               inTurn |-> HeldTelegram(u).fifo]
  BY <1>2, <1>4, Zenon DEF Obligations
<1>8. ASSUME NEW i \in Positions(txq), txq[i].uid \in DOMAIN Obligations
      PROVE  Obligations[txq[i].uid] = Entry(txq[i], FALSE)
  <2> DEFINE u == txq[i].uid
             j == CHOOSE n \in DOMAIN txq : txq[n].uid = u
  <2>1. ~InFlight(u)
    BY <1>3 DEF AInv, Accounted, Apart
  <2>2. j \in DOMAIN txq /\ txq[j].uid = u
    BY <1>2, Zenon
  <2>3. HeldTelegram(u) = txq[j]
    BY <2>1 DEF HeldTelegram
  <2> HIDE DEF j
  <2>4. j = i
    BY <1>2, <2>2 DEF AInv, Accounted, Distinct
  <2>5. InFlight(u) = FALSE
    BY <2>1 DEF InFlight
  <2> QED
    BY <1>7, <1>8, <2>3, <2>4, <2>5, Zenon DEF Entry
<1>9. ASSUME NEW l \in Flight, l.uid \in DOMAIN Obligations
      PROVE  Obligations[l.uid] = Entry(l, TRUE)
  <2>1. InFlight(l.uid) = TRUE
    BY <1>3 DEF InFlight
  <2>2. HeldTelegram(l.uid) = l
    BY <2>1 DEF HeldTelegram, Flight
  <2> QED
    BY <1>7, <1>9, <2>1, <2>2, Zenon DEF Entry
<1>10. ASSUME NEW u \in DOMAIN Obligations PROVE At(txq, Flight, u, Obligations[u])
  <2>1. CASE Queued(u)
    <3>1. PICK i \in Positions(txq) : txq[i].uid = u
      BY <1>2, <2>1 DEF Queued
    <3> QED
      BY <1>8, <1>10, <3>1, Zenon DEF At
  <2>2. CASE InFlight(u)
    <3>1. PICK l \in Flight : l.uid = u
      BY <1>3, <2>2
    <3> QED
      BY <1>9, <1>10, <3>1, Zenon DEF At
  <2> QED
    BY <1>4, <2>1, <2>2
<1>11. ASSUME NEW u \in 1 .. Len(fate), NEW e, At(txq, Flight, u, e)
       PROVE  u \in DOMAIN Obligations /\ e = Obligations[u]
  <2>1. u \in DOMAIN Obligations
    BY <1>2, <1>3, <1>4, <1>11 DEF At, Queued
  <2> QED
    BY <1>8, <1>9, <1>11, <2>1, Zenon DEF At
<1> QED
  BY <1>2, <1>6, <1>10, <1>11 DEF Mapped

LEMMA MappingHoldsNext == AInv' => Mapped'
BY MappingHolds, PTL

(* One telegram at a time is in flight, and it is ahead of those that wait    *)
(* their turn.                                                               *)
OneAhead ==
    /\ \A u, v \in DOMAIN Obligations :
          Obligations[u].onWire /\ Obligations[v].onWire => u = v
    /\ \A u, v \in DOMAIN Obligations :
          /\ Obligations[u].onWire /\ Obligations[u].inTurn
          /\ Obligations[v].inTurn /\ u # v
          => u < v

LEMMA OneFlight == AInv /\ Mapped => OneAhead
<1> SUFFICES ASSUME AInv, Mapped PROVE OneAhead
  OBVIOUS
<1>1. \A l, m \in Flight : l = m
  BY DEF Flight
<1>2. ASSUME NEW u \in DOMAIN Obligations, Obligations[u].onWire
      PROVE  \E l \in Flight : l.uid = u /\ l.fifo = Obligations[u].inTurn
  BY <1>2 DEF Mapped, At, Entry
<1>3. ASSUME NEW v \in DOMAIN Obligations, ~Obligations[v].onWire
      PROVE  \E i \in Positions(txq) : txq[i].uid = v /\ txq[i].fifo = Obligations[v].inTurn
  BY <1>3 DEF Mapped, At, Entry
<1>4. ASSUME NEW u \in DOMAIN Obligations, NEW v \in DOMAIN Obligations,
             Obligations[u].onWire, Obligations[v].onWire
      PROVE  u = v
  BY <1>1, <1>2, <1>4
<1>5. ASSUME NEW u \in DOMAIN Obligations, NEW v \in DOMAIN Obligations, u # v,
             Obligations[u].onWire, Obligations[u].inTurn, Obligations[v].inTurn
      PROVE  u < v
  <2>1. ~Obligations[v].onWire
    BY <1>4, <1>5
  <2>2. PICK l \in Flight : l.uid = u /\ l.fifo
    BY <1>2, <1>5
  <2>3. PICK i \in Positions(txq) : txq[i].uid = v /\ txq[i].fifo
    BY <1>3, <1>5, <2>1
  <2> QED
    BY <2>2, <2>3 DEF AInv, Accounted, Ahead
<1> QED
  BY <1>4, <1>5 DEF OneAhead

LEMMA OneFlightNext == AInv' /\ Mapped' => OneAhead'
BY OneFlight, PTL

Entries == [begun : BOOLEAN, onWire : BOOLEAN, inTurn : BOOLEAN]

LEMMA EntryType ==
    ASSUME NEW t \in Telegrams, NEW w \in BOOLEAN
    PROVE  Entry(t, w) \in Entries
<1>1. t.begun \in BOOLEAN /\ t.fifo \in BOOLEAN
  BY FieldTypes DEF Telegrams
<1> QED
  BY <1>1 DEF Entry, Entries

LEMMA EntryUpdates ==
    ASSUME NEW e \in Entries
    PROVE  /\ [e EXCEPT !.onWire = TRUE, !.begun = TRUE]
                 = [begun |-> TRUE, onWire |-> TRUE, inTurn |-> e.inTurn]
           /\ [e EXCEPT !.onWire = FALSE]
                 = [begun |-> e.begun, onWire |-> FALSE, inTurn |-> e.inTurn]
<1> DEFINE started == [e EXCEPT !.onWire = TRUE, !.begun = TRUE]
           waiting == [e EXCEPT !.onWire = FALSE]
<1>1. started \in Entries /\ waiting \in Entries
  BY DEF Entries
<1>2. /\ started.begun = TRUE /\ started.onWire = TRUE /\ started.inTurn = e.inTurn
      /\ waiting.begun = e.begun /\ waiting.onWire = FALSE /\ waiting.inTurn = e.inTurn
  BY DEF Entries
<1> HIDE DEF started, waiting
<1>3. started = [begun |-> TRUE, onWire |-> TRUE, inTurn |-> e.inTurn]
  BY <1>1, <1>2 DEF Entries
<1>4. waiting = [begun |-> e.begun, onWire |-> FALSE, inTurn |-> e.inTurn]
  BY <1>1, <1>2 DEF Entries
<1> QED
  BY <1>3, <1>4 DEF started, waiting

(* The telegram awaited is the request on the bus.                           *)
AwaitedOnBus ==
    /\ txState = "NONE" => \A u \in DOMAIN Obligations : ~Obligations[u].onWire
    /\ txState # "NONE" => last.uid \in DOMAIN Obligations /\ Obligations[last.uid].onWire

LEMMA OnWire == AInv /\ Mapped => AwaitedOnBus
<1> SUFFICES ASSUME AInv, Mapped PROVE AwaitedOnBus
  OBVIOUS
<1>1. CASE txState = "NONE"
  <2>1. Flight = {}
    BY <1>1 DEF Flight
  <2> QED
    BY <1>1, <2>1 DEF AwaitedOnBus, Mapped, At, Entry
<1>2. CASE txState # "NONE"
  <2>1. Flight = {last}
    BY <1>2 DEF Flight
  <2>2. last.uid \in 1 .. Len(fate)
    BY <2>1 DEF AInv, Accounted, Apart
  <2>3. At(txq, Flight, last.uid, Entry(last, TRUE))
    BY <2>1 DEF At
  <2>4. last.uid \in DOMAIN Obligations /\ Obligations[last.uid] = Entry(last, TRUE)
    BY <2>2, <2>3 DEF Mapped
  <2>5. Entry(last, TRUE).onWire
    BY Zenon DEF Entry
  <2> QED
    BY <1>2, <2>4, <2>5, Zenon DEF AwaitedOnBus
<1> QED
  BY <1>1, <1>2

LEMMA OnWireNext == AInv' /\ Mapped' => AwaitedOnBus'
BY OnWire, PTL

LEMMA StepCounts ==
    ASSUME AInv, AInv', Counted, Kept(fate, fate')
    PROVE  Promise!Counts
<1> DEFINE H == Obligations
           K == Obligations'
           was == txState
           is  == txState'
<1>1. Mapped /\ Mapped'
  BY MappingHolds, MappingHoldsNext
<1>2. /\ DOMAIN H = {u \in DOMAIN fate : fate[u] = "open"}
      /\ DOMAIN K = {u \in DOMAIN fate' : fate'[u] = "open"}
  BY <1>1 DEF Mapped
<1>3. /\ was = "NONE" => \A u \in DOMAIN H : ~H[u].onWire
      /\ was # "NONE" => last.uid \in DOMAIN H /\ H[last.uid].onWire
  BY <1>1, OnWire DEF AwaitedOnBus
<1>4. /\ is = "NONE" => \A u \in DOMAIN K : ~K[u].onWire
      /\ is # "NONE" => last'.uid \in DOMAIN K /\ K[last'.uid].onWire
  BY <1>1, OnWireNext DEF AwaitedOnBus
<1>5. /\ \A u, v \in DOMAIN H : H[u].onWire /\ H[v].onWire => u = v
      /\ \A u, v \in DOMAIN K : K[u].onWire /\ K[v].onWire => u = v
  BY <1>1, OneFlight, OneFlightNext DEF OneAhead
<1>6. /\ retry \in Nat /\ retry' \in Nat /\ retry' <= MaxRetries
      /\ MaxRetries \in Nat
  BY BoundsAssumption DEF AInv, IInv, TypeOK
<1>7. /\ Unanswered = (IF was = "NONE" THEN retry ELSE retry + 1)
      /\ Unanswered' = (IF is = "NONE" THEN retry' ELSE retry' + 1)
  BY Zenon DEF Unanswered
<1>8. Promise!Answered <=> \E u \in DOMAIN H : fate'[u] # "open" /\ H[u].onWire
  BY <1>2 DEF Promise!Answered, Promise!Known
<1>9. Promise!Sent <=> \E u \in DOMAIN K : K[u].onWire /\ (u \in DOMAIN H => ~H[u].onWire)
  BY Zenon DEF Promise!Sent
<1>10. Unanswered' <= MaxRetries + 1
  <2>1. Unanswered' = retry' \/ Unanswered' = retry' + 1
    BY <1>7, Zenon
  <2> QED
    BY <1>6, <2>1
<1> DEFINE answered == Promise!Answered
           sent == Promise!Sent
<1> HIDE DEF H, K, was, is, answered, sent
<1>11. Unanswered' = (IF answered THEN 0 ELSE Unanswered) + (IF sent THEN 1 ELSE 0)
  <2>1. CASE is = was /\ last' = last /\ retry' = retry
    <3>1. ~answered
      BY <1>2, <1>3, <1>4, <1>5, <1>8, <2>1 DEF answered
    <3>2. ~sent
      BY <1>3, <1>4, <1>5, <1>9, <2>1 DEF sent
    <3> QED
      BY <1>6, <1>7, <2>1, <3>1, <3>2
  <2>2. CASE was = "NONE" /\ retry' = retry
    <3>1. ~answered
      BY <1>3, <1>8, <2>2 DEF answered
    <3>2. sent <=> is # "NONE"
      BY <1>3, <1>4, <1>9, <2>2 DEF sent
    <3> QED
      BY <1>6, <1>7, <2>2, <3>1, <3>2
  <2>3. CASE was # "NONE" /\ retry' = 0 /\ fate'[last.uid] # "open"
    <3>1. answered
      BY <1>3, <1>8, <2>3 DEF answered
    <3>2. last.uid \notin DOMAIN K
      BY <1>2, <2>3
    <3>3. sent <=> is # "NONE"
      BY <1>3, <1>4, <1>5, <1>9, <2>3, <3>2 DEF sent
    <3> QED
      BY <1>6, <1>7, <2>3, <3>1, <3>3
  <2>4. CASE was # "NONE" /\ is = "NONE" /\ retry' = retry + 1 /\ fate' = fate
    <3>1. ~answered
      BY <1>2, <1>8, <2>4 DEF answered
    <3>2. ~sent
      BY <1>4, <1>9, <2>4 DEF sent
    <3> QED
      BY <1>6, <1>7, <2>4, <3>1, <3>2
  <2> QED
    BY <2>1, <2>2, <2>3, <2>4 DEF Counted, was, is
<1> QED
  BY <1>10, <1>11, Zenon DEF Promise!Counts, answered, sent

(* Every step of the Tx service is one the promise allows.                   *)
LEMMA StepKeepsPromise ==
    ASSUME AInv, AInv', Moves, Counted, Kept(fate, fate'),
           Len(fate') \in {Len(fate), Len(fate) + 1}
    PROVE  Promise!Next
<1> DEFINE H == Obligations
           K == Obligations'
           m == Len(fate)
           n == Len(fate')
           c == Unanswered
           rush == Urgent(txq, Flight, fate, fate')
<1>1. Mapped /\ Mapped'
  BY MappingHolds, MappingHoldsNext
<1>2. m \in Nat /\ n \in Nat /\ n \in {m, m + 1}
  <2>1. fate \in Seq(Fates) /\ fate' \in Seq(Fates)
    BY DEF AInv, IInv, TypeOK
  <2> QED
    BY <2>1, LenProperties
<1>3. /\ DOMAIN fate = 1 .. m /\ DOMAIN fate' = 1 .. n
      /\ DOMAIN H = {u \in 1 .. m : fate[u] = "open"}
      /\ DOMAIN K = {u \in 1 .. n : fate'[u] = "open"}
  BY <1>1 DEF Mapped
<1>4. \A u \in 1 .. m : fate[u] = "open" => At(txq, Flight, u, H[u])
  BY <1>1, <1>3 DEF Mapped
<1>5. \A u \in 1 .. n : \A e : At(txq', Flight', u, e) => e = K[u]
  BY <1>1 DEF Mapped
<1>6. \A u \in 1 .. m : u \in 1 .. n
  BY <1>2
<1>7. ASSUME NEW u \in 1 .. m, fate[u] = "open", fate'[u] = "open"
      PROVE  K[u] = H[u] \/ StartsAs(H[u], K[u], rush) \/ WaitsAs(H[u], K[u], c)
  BY <1>4, <1>5, <1>6, <1>7 DEF Moves, Progress, MovesAs
<1>8. ASSUME NEW u \in 1 .. m, fate[u] = "open", fate'[u] # "open"
      PROVE  EndsAs(H[u], fate'[u], c)
  BY <1>4, <1>8 DEF Moves, Progress
<1>9. ASSUME NEW u \in 1 .. n, u \notin 1 .. m, fate'[u] = "open"
      PROVE  /\ K[u].begun <=> K[u].onWire
             /\ K[u].onWire => ~K[u].inTurn
  <2>1. u \in NewIds(fate, fate')
    BY <1>2, <1>9 DEF NewIds
  <2> QED
    BY <1>5, <1>9, <2>1 DEF Moves, Progress
<1>10. /\ \A u, v \in DOMAIN K : K[u].onWire /\ K[v].onWire => u = v
       /\ \A u, v \in DOMAIN K :
             K[u].onWire /\ K[u].inTurn /\ K[v].inTurn /\ u # v => u < v
  BY <1>1, OneFlightNext DEF OneAhead
<1>11. ASSUME ~rush, NEW v \in DOMAIN H, fate'[v] = "open" PROVE H[v].inTurn
  BY <1>3, <1>4, <1>11 DEF Urgent
<1>12. /\ Unsent = Promise!UnsentOutcomes
       /\ Answered = Promise!AnswerOutcomes
  BY DEF Unsent, Answered, Promise!UnsentOutcomes, Promise!AnswerOutcomes, Fates
<1>13. ASSUME NEW u \in 1 .. m, fate[u] = "open" PROVE H[u] \in Entries
  <2>1. txq \in TxQueues /\ Flight \in SUBSET Telegrams
    BY Typed
  <2>2. PICK t \in Telegrams, w \in BOOLEAN : H[u] = Entry(t, w)
    BY <1>4, <1>13, <2>1, QueueFacts DEF At
  <2> QED
    BY <2>2, EntryType, Zenon
<1>14. ASSUME NEW u \in 1 .. n, fate'[u] = "open" PROVE K[u] \in Entries
  <2>1. txq' \in TxQueues /\ Flight' \in SUBSET Telegrams
    BY DEF AInv, IInv, TypeOK, AwaitedTelegram, TxQueues, Flight
  <2>2. At(txq', Flight', u, K[u])
    BY <1>1, <1>3, <1>14 DEF Mapped
  <2>3. PICK t \in Telegrams, w \in BOOLEAN : K[u] = Entry(t, w)
    BY <2>1, <2>2, QueueFacts DEF At
  <2> QED
    BY <2>3, EntryType, Zenon
<1> HIDE DEF H, K, m, n, c, rush
<1>15. Promise!Accepts
  <2>1. 1 .. n \in {1 .. m, 1 .. m + 1}
    BY <1>2
  <2>2. \A u \in DOMAIN K \ 1 .. m : /\ K[u].begun = K[u].onWire
                                     /\ K[u].onWire => ~K[u].inTurn
    <3> SUFFICES ASSUME NEW u \in DOMAIN K, u \notin 1 .. m
                 PROVE  K[u].begun = K[u].onWire /\ (K[u].onWire => ~K[u].inTurn)
      OBVIOUS
    <3>1. (K[u].begun <=> K[u].onWire) /\ (K[u].onWire => ~K[u].inTurn)
      BY <1>3, <1>9
    <3>2. K[u].begun \in BOOLEAN /\ K[u].onWire \in BOOLEAN
      BY <1>3, <1>14 DEF Entries
    <3> QED
      BY <3>1, <3>2
  <2>3. DOMAIN K = {u \in DOMAIN fate' : fate'[u] = "open"}
    BY <1>3
  <2> QED
    BY <1>3, <2>1, <2>2, <2>3 DEF Promise!Accepts, Promise!Known, K, m
<1>16. ASSUME NEW u \in 1 .. m, fate[u] # "open" PROVE Promise!Done(u)
  BY <1>16 DEF Kept, Promise!Done, m
<1>17. ASSUME NEW u \in 1 .. m, fate[u] = "open", fate'[u] # "open" PROVE Promise!Ends(u)
  <2>1. CASE H[u].onWire
    <3>1. /\ fate'[u] \in Promise!AnswerOutcomes
          /\ fate'[u] \in {"failed", "ignored"} => c = MaxRetries + 1
      BY <1>8, <1>12, <1>17, <2>1 DEF EndsAs
    <3> QED
      BY <1>17, <2>1, <3>1, Zenon DEF Promise!Ends, H, c
  <2>2. CASE ~H[u].onWire
    <3>1. fate'[u] \in Promise!UnsentOutcomes
      BY <1>8, <1>12, <1>17, <2>2 DEF EndsAs
    <3> QED
      BY <1>17, <2>2, <3>1, Zenon DEF Promise!Ends, H
  <2> QED
    BY <2>1, <2>2
<1>18. ASSUME NEW u \in 1 .. m, fate[u] = "open", fate'[u] = "open" PROVE Promise!Remains(u)
  <2>1. H[u] \in Entries
    BY <1>13, <1>18
  <2>2. CASE K[u] = H[u]
    BY <1>18, <2>2, Zenon DEF Promise!Remains, Promise!Stays, H, K
  <2>3. CASE StartsAs(H[u], K[u], rush)
    <3>1. [H[u] EXCEPT !.onWire = TRUE, !.begun = TRUE]
             = [begun |-> TRUE, onWire |-> TRUE, inTurn |-> H[u].inTurn]
      BY <2>1, EntryUpdates, Zenon
    <3>2. ~H[u].onWire /\ K[u] = [H[u] EXCEPT !.onWire = TRUE, !.begun = TRUE]
      BY <2>3, <3>1, Zenon DEF StartsAs
    <3>3. K[u].onWire /\ K[u].inTurn = H[u].inTurn
      BY <2>3 DEF StartsAs
    <3>4. ASSUME NEW v \in DOMAIN H, fate'[v] = "open", H[u].inTurn, H[v].inTurn PROVE u <= v
      <4>1. v \in 1 .. m /\ fate[v] = "open" /\ v \in DOMAIN K /\ u \in DOMAIN K
        BY <1>3, <1>6, <1>18, <3>4
      <4>2. K[v].inTurn = H[v].inTurn
        <5>1. \/ K[v] = H[v]
              \/ K[v] = [begun |-> TRUE, onWire |-> TRUE, inTurn |-> H[v].inTurn]
              \/ K[v] = [begun |-> H[v].begun, onWire |-> FALSE, inTurn |-> H[v].inTurn]
          BY <1>7, <3>4, <4>1, Zenon DEF StartsAs, WaitsAs
        <5> QED
          BY <5>1
      <4>3. u # v => u < v
        BY <1>10, <3>3, <3>4, <4>1, <4>2
      <4> QED
        BY <1>2, <4>1, <4>3
    <3>5. ASSUME NEW v \in DOMAIN H, fate'[v] = "open", H[u].inTurn, ~H[v].inTurn
          PROVE  H[u].begun
      BY <1>11, <2>3, <3>5, Zenon DEF StartsAs
    <3>6. ASSUME NEW v \in DOMAIN H, fate'[v] = "open" PROVE Promise!MayGoBefore(u, v)
      <4>1. H[u].inTurn => IF H[v].inTurn THEN u <= v ELSE H[u].begun
        BY <3>4, <3>5, <3>6
      <4> QED
        BY <4>1, Zenon DEF Promise!MayGoBefore, H
    <3>7. Promise!Starts(u)
      BY <3>2, <3>6, Zenon DEF Promise!Starts, H, K
    <3> QED
      BY <1>18, <3>7, Zenon DEF Promise!Remains
  <2>4. CASE WaitsAs(H[u], K[u], c)
    <3>1. [H[u] EXCEPT !.onWire = FALSE]
             = [begun |-> H[u].begun, onWire |-> FALSE, inTurn |-> H[u].inTurn]
      BY <2>1, EntryUpdates, Zenon
    <3>2. /\ H[u].onWire /\ c < MaxRetries + 1
          /\ K[u] = [H[u] EXCEPT !.onWire = FALSE]
      BY <2>4, <3>1, Zenon DEF WaitsAs
    <3>3. Promise!Waits(u)
      BY <3>2, Zenon DEF Promise!Waits, H, K, c
    <3> QED
      BY <1>18, <3>3, Zenon DEF Promise!Remains
  <2> QED
    BY <1>7, <1>18, <2>2, <2>3, <2>4
<1>19. \A u \in DOMAIN fate : Promise!Done(u) \/ Promise!Ends(u) \/ Promise!Remains(u)
  BY <1>3, <1>16, <1>17, <1>18
<1>20. \A u, v \in DOMAIN Obligations' :
          Obligations'[u].onWire /\ Obligations'[v].onWire => u = v
  BY <1>10 DEF K
<1>21. Promise!Counts
  BY StepCounts
<1> QED
  BY <1>15, <1>19, <1>20, <1>21, Zenon DEF Promise!Next, Promise!Known

LEMMA InitKeepsPromise == Init => Promise!Init
<1> SUFFICES ASSUME Init PROVE Promise!Init
  OBVIOUS
<1>1. fate = <<>> /\ AInv /\ Unanswered = 0
  BY InitAInv DEF Init, Unanswered
<1>2. DOMAIN Obligations = {}
  <2>1. 1 .. Len(<<>>) = {}
    OBVIOUS
  <2> QED
    BY <1>1, <2>1, MappingHolds DEF Mapped
<1>3. Obligations = [u \in DOMAIN Obligations |-> Obligations[u]]
  BY Zenon DEF Obligations
<1>4. Obligations = <<>>
  BY <1>2, <1>3
<1> QED
  BY <1>1, <1>4, Zenon DEF Promise!Init

(* What a command, a fetch or an automation gives the Tx service is served    *)
(* as promised, whatever it asks for and wherever it is queued: one outcome   *)
(* for each request, one request on the bus at a time, those in front first   *)
(* and the others in turn, and no more than MAXIMUM_TX_RETRIES + 1            *)
(* transmissions in a row without an answer, the last of which fails.         *)
THEOREM RequestsServed == Spec => Implements
<1>1. Init => RInv /\ Promise!Init
  BY InitRInv, InitKeepsPromise
<1>2. RInv /\ [Next]_vars => RInv' /\ Promise!Next
  <2> SUFFICES ASSUME RInv, [Next]_vars PROVE RInv' /\ Promise!Next
    OBVIOUS
  <2>1. RInv' /\ Moves /\ Counted
    BY NextMoves DEF Served
  <2>2. AInv /\ AInv' /\ Kept(fate, fate')
    BY NextAccounts DEF RInv
  <2>3. Len(fate') \in {Len(fate), Len(fate) + 1}
    BY NextLength DEF RInv, AInv, IInv, TypeOK
  <2> QED
    BY <2>1, <2>2, <2>3, StepKeepsPromise, Zenon
<1>3. RInv /\ [Next]_vars => RInv' /\ [Promise!Next]_<<fate, Obligations, Unanswered>>
  BY <1>2
<1> QED
  BY <1>1, <1>3, PTL DEF Spec, Implements, Promise!Spec
=============================================================================
