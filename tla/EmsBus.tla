------------------------------- MODULE EmsBus -------------------------------
(***************************************************************************)
(* The half-duplex EMS bus as EMS-ESP drives it: the Tx queue and the one  *)
(* telegram in flight (TxService), the Rx queue (RxService), and the       *)
(* handler EMSESP::incoming_telegram that the UART task runs for every     *)
(* frame.  The bus master polls the participants; only a polled            *)
(* participant may transmit, and what it sent comes back as an echo before *)
(* anything else.                                                          *)
(*                                                                         *)
(* Every handler is one step here.  BusQueues splits the steps that the    *)
(* tasks of the firmware interleave.                                       *)
(*                                                                         *)
(* Telegrams are abstracted to what the control flow looks at.  `part' is  *)
(* the block of a long telegram (0 stands for offset 0), `val' the type to *)
(* read back after a write, `size' whether the frame fits the bus, `full'  *)
(* whether a raw read asks for the whole telegram.  `uid', `fifo', `begun' *)
(* and the variable fate are history: they name a request through its      *)
(* retries, tell whether it was queued at the back, whether it has been on *)
(* the bus, and record how it ended.                                       *)
(***************************************************************************)
EXTENDS Naturals, Sequences

CONSTANTS
    Types,       \* telegram type ids
    VersionType, \* EMS_TYPE_VERSION, asked of an unknown device
    NoType,      \* the type id 0: "none" in validate, publish, read, response ids
    Null,        \* an empty shared_ptr
    MaxTx,       \* MAX_TX_TELEGRAMS
    MaxRx,       \* MAX_RX_TELEGRAMS
    MaxRetries,  \* MAXIMUM_TX_RETRIES
    MaxPolls,    \* MAX_POLLS_WITHOUT_MASTER
    MaxParts,    \* last block a device can answer with (bound)
    MaxAdds,     \* requests the rest of the firmware makes (bound)
    MaxOutages,  \* times the bus goes silent for EMS_BUS_TIMEOUT (bound)
    Requests,    \* the requests it makes, a subset of RequestSet
    Broadcasts,  \* the telegrams others send unasked, a subset of RxTelegrams
    Modes        \* the pairs of Tx off and read-only the settings may switch to

Operations == {"NONE", "TX_RAW", "TX_READ", "TX_WRITE"}
Sources    == {"own", "foreign"}
Sizes      == {"fits", "overlong", "toobig"}

RequestSet == [op : Operations, src : Sources, type : Types, part : 0 .. MaxParts,
               val : Types \cup {NoType}, size : Sizes, full : BOOLEAN, front : BOOLEAN]

ASSUME NoTypeAssumption == NoType \notin Types /\ VersionType \in Types
ASSUME BoundsAssumption ==
    /\ MaxTx \in Nat \ {0} /\ MaxRx \in Nat \ {0}
    /\ MaxRetries \in Nat \ {0} /\ MaxPolls \in Nat
    /\ MaxParts \in Nat /\ MaxAdds \in Nat /\ MaxOutages \in Nat
RxTelegrams == [type : Types, toUs : BOOLEAN, read : BOOLEAN, own : BOOLEAN, empty : BOOLEAN]

ASSUME RequestsAssumption == Requests \subseteq RequestSet
ASSUME BroadcastsAssumption == Broadcasts \subseteq RxTelegrams
ASSUME ModesAssumption == Modes \subseteq BOOLEAN \X BOOLEAN

Telegrams == [uid : Nat \ {0}, op : Operations, src : Sources, type : Types,
              part : 0 .. MaxParts, val : Types \cup {NoType}, size : Sizes,
              full : BOOLEAN, fifo : BOOLEAN, begun : BOOLEAN]

ASSUME NullAssumption == Null \notin Telegrams

Fates == {"open",       \* queued or in flight
          "written",    \* acknowledged, telegram_write_count_
          "read",       \* answered, telegram_read_count_
          "sent",       \* needs no answer (other sender, or broadcast)
          "rejected",   \* the device answered TX_WRITE_FAIL
          "failed",     \* counted in a fail count
          "overflow",   \* pushed out of a full queue, counted in a fail count
          "ignored",    \* later block of a read given up silently
          "skipped",    \* no room in the queue to retry it
          "expired",    \* its sender id was not polled for MaxPolls polls
          "discarded"}  \* Tx off, read-only mode, or too big to send

VARIABLES
    connected,     \* bus_connected_
    waitKm,        \* wait_km_: hold Tx until the gateway is polled
    txOff,         \* tx_mode_ = EMS_TXMODE_OFF
    readOnly,      \* System::readonly_mode_
    txq,           \* tx_telegrams_
    txState,       \* tx_state_
    last,          \* telegram_last_
    psq,           \* telegram_last_post_send_query_
    retry,         \* retry_count_
    delayed,       \* delayed_send_ lies in the future
    polls,         \* the static count of get_send_id
    rxq,           \* rx_telegrams_
    waitValidate,  \* wait_validate_
    publishId,     \* publish_id_
    responseId,    \* response_id_
    readId,        \* read_id_
    readNext,      \* read_next_
    echo,          \* frame on the wire whose echo has not come back, or Null
    fate,          \* history: how request number i ended
    adds,          \* requests made so far
    outages        \* bus outages so far

tx    == <<txq, txState, last, psq, retry, delayed, polls, fate, echo>>
ids   == <<waitValidate, publishId, responseId, readId, readNext>>
conn  == <<connected, waitKm, outages>>
mode  == <<txOff, readOnly>>
vars  == <<tx, rxq, ids, conn, mode, adds>>

-----------------------------------------------------------------------------
(* The queues. *)

NewTelegram(r) ==
    [uid |-> Len(fate) + 1, op |-> r.op, src |-> r.src, type |-> r.type, part |-> r.part,
     val |-> r.val, size |-> r.size, full |-> r.full, fifo |-> ~r.front, begun |-> FALSE]

InternalRead(type, part) ==      \* a read the bus handler itself puts in front
    NewTelegram([op |-> "TX_READ", src |-> "own", type |-> type, part |-> part,
                 val |-> NoType, size |-> "fits", full |-> FALSE, front |-> TRUE])

DropNewest(q) == IF Len(q) >= MaxTx THEN SubSeq(q, 1, Len(q) - 1) ELSE q    \* mutant

MakeRoom(q) == IF Len(q) >= MaxTx THEN Tail(q) ELSE q

InsertUnbounded(q, t, front) == IF front THEN <<t>> \o q ELSE Append(q, t)    \* mutant

InsertAtBack(q, t, front) == Append(MakeRoom(q), t)    \* mutant

InsertTx(q, t, front) ==
    IF front THEN <<t>> \o MakeRoom(q) ELSE Append(MakeRoom(q), t)

NotRemoved(q) == q                           \* mutant
Removed(q)    == Tail(q)                     \* the sent telegram is the front one

RequeueBack(q, t) == Append(q, t)            \* mutant
Requeue(q, t)     == <<t>> \o q

Settle(f, t, outcome) == [f EXCEPT ![t.uid] = outcome]

InsertFate(f, q) ==
    Append(IF Len(q) >= MaxTx THEN Settle(f, Head(q), "overflow") ELSE f, "open")

AddRx(q, r) == Append(IF Len(q) >= MaxRx THEN Tail(q) ELSE q, r)

AddEmptyRx(q, type) ==
    IF Len(q) < MaxRx
    THEN Append(q, [type |-> type, toUs |-> TRUE, read |-> FALSE, own |-> FALSE, empty |-> TRUE])
    ELSE q

-----------------------------------------------------------------------------
(* TxService::send, on the queue q with the history f.  It is called only   *)
(* after tx_state has been reset to NONE.                                   *)

SendNothing(q, f) ==             \* no bus, or only a poll goes out
    /\ ~connected' \/ q = <<>> \/ delayed
    /\ txq' = q /\ fate' = f /\ txState' = "NONE"
    /\ UNCHANGED <<last, psq, delayed, echo, responseId, readId>>

Discarded(t) ==                  \* popped without a frame on the wire
    txOff \/ t.size = "toobig" \/ (readOnly /\ t.op = "TX_WRITE")

SendDiscard(q, f) ==
    LET t == Head(q)
    IN  /\ connected' /\ q # <<>> /\ ~delayed
        /\ Discarded(t)
        /\ txq' = Removed(q) /\ delayed' = TRUE /\ txState' = "NONE"
        /\ last' = IF txOff \/ t.size = "toobig" THEN last ELSE t
        /\ fate' = Settle(f, t, "discarded")
        /\ UNCHANGED <<psq, echo, responseId, readId>>

SendFails(q, f) ==               \* EMSuart::transmit refuses the frame
    LET t == Head(q)
    IN  /\ connected' /\ q # <<>> /\ ~delayed
        /\ ~Discarded(t) /\ t.size = "overlong"
        /\ txq' = Removed(q) /\ delayed' = TRUE /\ txState' = "NONE"
        /\ last' = t /\ psq' = t.val
        /\ fate' = Settle(f, t, "failed")
        /\ UNCHANGED <<echo, responseId, readId>>

AwaitsOwnKind(t) == t.op                     \* mutant

Awaits(t) == IF t.op = "TX_RAW" THEN "TX_READ" ELSE t.op

Transmit(q, f) ==
    LET t   == Head(q)
        raw == t.op = "TX_RAW" /\ responseId = NoType
    IN  /\ connected' /\ q # <<>> /\ ~delayed
        /\ ~Discarded(t) /\ t.size = "fits"
        /\ txq' = Removed(q) /\ delayed' = TRUE
        /\ last' = [t EXCEPT !.begun = TRUE] /\ psq' = t.val
        /\ txState' = Awaits(t)
        /\ responseId' = IF raw THEN t.type ELSE responseId
        /\ readId' = IF raw /\ t.full THEN t.type ELSE readId
        /\ echo' = t
        /\ fate' = IF t.op = "NONE" THEN Settle(f, t, "sent") ELSE f

Send(q, f) == SendNothing(q, f) \/ SendDiscard(q, f) \/ SendFails(q, f) \/ Transmit(q, f)

-----------------------------------------------------------------------------
(* TxService::get_send_id: whose poll the head of the queue waits for.  A   *)
(* head that waits for another participant's poll is dropped after MaxPolls *)
(* polls; the count is one static variable, not one per telegram.           *)

ForeignHead(q) == q # <<>> /\ Head(q).src = "foreign"
Expires(q)     == ForeignHead(q) /\ polls + 1 > MaxPolls
NeverDrops(q)  == q                          \* mutant
AfterExpiry(q) == IF Expires(q) THEN Tail(q) ELSE q
FateAfterExpiry(q, f) == IF Expires(q) THEN Settle(f, Head(q), "expired") ELSE f
SendId(q)      == IF q = <<>> THEN "own" ELSE Head(q).src

CountNothing(q) == polls' = 0                \* mutant

CountPoll(q) == polls' = IF ForeignHead(q) /\ ~Expires(q) THEN polls + 1 ELSE 0

(* The single-byte branch of incoming_telegram, for a poll of `id' or for   *)
(* an acknowledge byte, which matches no participant.                       *)

StillWaiting(id) == (~connected \/ waitKm) /\ id # "gateway"

Held(id) ==                      \* hold Tx until the gateway has been polled
    /\ StillWaiting(id)
    /\ waitKm' = TRUE
    /\ UNCHANGED polls

Passed(id, q) ==                 \* it has, or EMS_WAIT_KM_TIMEOUT is over
    /\ StillWaiting(id) => connected
    /\ waitKm' = FALSE
    /\ CountPoll(q)

NotPolled(id, q, f) ==
    \/ Held(id) /\ txq' = q /\ fate' = f
    \/ /\ Passed(id, q)
       /\ id # SendId(AfterExpiry(q))
       /\ txq' = AfterExpiry(q) /\ fate' = FateAfterExpiry(q, f)

-----------------------------------------------------------------------------
(* incoming_telegram: what arrives on the bus.  The echo of our own frame   *)
(* comes first.                                                             *)

EchoAsAnswer ==                  \* mutant: the echo ends the wait for an answer
    /\ echo # Null
    /\ echo' = Null /\ txState' = "NONE"
    /\ UNCHANGED <<rxq, txq, last, psq, retry, delayed, polls, fate, ids, conn, mode, adds>>

Echo ==                          \* the echo, received well or with a bad CRC
    /\ echo # Null
    /\ echo' = Null
    /\ \/ rxq' = AddRx(rxq, [type |-> echo.type, toUs |-> FALSE, own |-> echo.src = "own",
                             read |-> echo.op \in {"TX_READ", "TX_RAW"}, empty |-> FALSE])
       \/ UNCHANGED rxq
    /\ UNCHANGED <<txq, txState, last, psq, retry, delayed, polls, fate, ids, conn, mode, adds>>

Poll(id) ==
    /\ echo = Null /\ txState = "NONE"
    /\ connected' = (connected \/ id = "own")
    /\ \/ /\ NotPolled(id, txq, fate)
          /\ UNCHANGED <<txState, last, psq, delayed, echo, responseId, readId>>
       \/ /\ Passed(id, txq)
          /\ id = SendId(AfterExpiry(txq))
          /\ Send(AfterExpiry(txq), FateAfterExpiry(txq, fate))
    /\ UNCHANGED <<retry, rxq, waitValidate, publishId, readNext, outages, mode, adds>>

WriteAcked ==                    \* TX_WRITE_SUCCESS; the byte then runs on as a poll
    LET settled  == Settle(fate, last, "written")
        readback == InternalRead(psq, IF psq = last.type THEN last.part ELSE 0)
        q == IF psq = NoType THEN txq ELSE InsertTx(txq, readback, TRUE)
        f == IF psq = NoType THEN settled ELSE InsertFate(settled, txq)
    IN  /\ echo = Null /\ txState = "TX_WRITE"
        /\ txState' = "NONE" /\ retry' = 0
        /\ publishId' = psq /\ psq' = NoType
        /\ delayed' = IF psq = NoType THEN delayed ELSE psq # last.type
        /\ NotPolled("ack", q, f)
        /\ UNCHANGED <<last, echo, rxq, waitValidate, responseId, readId, readNext,
                       connected, outages, mode, adds>>

WriteRejected ==                 \* TX_WRITE_FAIL
    /\ echo = Null /\ txState = "TX_WRITE"
    /\ txState' = "NONE" /\ retry' = 0
    /\ NotPolled("ack", txq, Settle(fate, last, "rejected"))
    /\ UNCHANGED <<last, psq, delayed, echo, rxq, ids, connected, outages, mode, adds>>

(* An answer is a telegram from the device last asked: is_last_tx compares  *)
(* neither the type nor the block, so `type' may be another one.  `more' is *)
(* read_next_tx's verdict, `crc' whether RxService::add accepts the frame:  *)
(* it is checked only after the read has been counted as successful.        *)

Answer(type, crc) ==
    rxq' = IF crc THEN AddRx(rxq, [type |-> type, toUs |-> TRUE, read |-> FALSE,
                                   own |-> FALSE, empty |-> FALSE])
                  ELSE rxq

ReadAnswered(type, crc, more) ==
    LET settled == Settle(fate, last, "read")
        next    == InternalRead(last.type, last.part + 1)
    IN  /\ echo = Null /\ txState = "TX_READ"
        /\ retry' = 0
        /\ more => last.part < MaxParts /\ (responseId = NoType \/ readId # NoType)
        /\ UNCHANGED <<polls, waitValidate, publishId, conn, mode, adds>>
        /\ readNext' = more
        /\ IF more
           THEN Send(InsertTx(txq, next, TRUE), InsertFate(settled, txq))
           ELSE /\ txState' = "NONE" /\ fate' = settled
                /\ UNCHANGED <<txq, last, psq, delayed, echo, responseId, readId>>
        /\ Answer(type, crc)

(* TxService::retry_tx: a poll, a foreign telegram or an unknown byte came  *)
(* where the answer should have been.  The frame is consumed by the retry.  *)

RetriesUsedUpEarly == retry + 2 > MaxRetries     \* mutant
RetriesUsedUp      == retry + 1 > MaxRetries

GiveUp ==
    /\ RetriesUsedUp
    /\ retry' = 0 /\ waitValidate' = NoType
    /\ UNCHANGED <<txq, last, delayed>>
    /\ IF txState = "TX_READ" /\ last.part > 0
       THEN /\ fate' = Settle(fate, last, "ignored")
            /\ responseId' = NoType
            /\ readId' = IF responseId # NoType THEN NoType ELSE readId
            /\ UNCHANGED rxq
       ELSE /\ fate' = Settle(fate, last, "failed")
            /\ rxq' = IF txState = "TX_READ" THEN AddEmptyRx(rxq, last.type) ELSE rxq
            /\ UNCHANGED <<responseId, readId>>

SkipRetry ==
    /\ ~RetriesUsedUp /\ Len(txq) >= MaxTx
    /\ retry' = 0 /\ waitValidate' = NoType
    /\ fate' = Settle(fate, last, "skipped")
    /\ UNCHANGED <<txq, last, delayed, rxq, responseId, readId>>

RetryLast ==
    /\ ~RetriesUsedUp /\ Len(txq) < MaxTx
    /\ retry' = retry + 1
    /\ delayed' = (retry' = MaxRetries)
    /\ txq' = Requeue(txq, [last EXCEPT !.val = psq])
    /\ last' = Null                              \* moved into the queue
    /\ UNCHANGED <<fate, rxq, waitValidate, responseId, readId>>

KeepsWaiting ==                  \* mutant: the wait state is not reset
    /\ echo = Null /\ txState # "NONE"
    /\ GiveUp \/ SkipRetry \/ RetryLast
    /\ UNCHANGED <<txState, psq, polls, echo, publishId, readNext, conn, mode, adds>>

NoAnswer ==
    /\ echo = Null /\ txState # "NONE"
    /\ txState' = "NONE"
    /\ GiveUp \/ SkipRetry \/ RetryLast
    /\ UNCHANGED <<psq, polls, echo, publishId, readNext, conn, mode, adds>>

Broadcast(r) ==                  \* any other telegram, while nothing is awaited
    /\ echo = Null /\ txState = "NONE"
    /\ rxq' = AddRx(rxq, r)
    /\ UNCHANGED <<tx, ids, conn, mode, adds>>

-----------------------------------------------------------------------------
(* The main loop and the tasks that queue requests.                         *)

(* TxService::add, by any command, fetch or raw send.  A raw read goes to   *)
(* the back while another raw read awaits its response.                     *)

Add(r) ==
    LET front == r.front /\ (r.op = "TX_RAW" => responseId = NoType)
        t     == NewTelegram([r EXCEPT !.front = front])
    IN  /\ adds < MaxAdds
        /\ adds' = adds + 1
        /\ txq' = InsertTx(txq, t, front)
        /\ fate' = InsertFate(fate, txq)
        /\ waitValidate' = IF r.val # NoType THEN r.val ELSE waitValidate
        /\ readId' = IF r.op = "TX_READ" /\ r.full THEN r.type ELSE readId  \* the read command
        /\ UNCHANGED <<txState, last, psq, retry, delayed, polls, echo, rxq, publishId,
                       responseId, readNext, conn, mode>>

(* One turn of RxService::loop: process_telegram of the oldest Rx telegram. *)
(* `published' is true if a device handles it while MQTT is connected,      *)
(* `unknown' if no device is known under its sender's id.                   *)

ProcessTelegram(published, unknown) ==
    LET t    == Head(rxq)
        ours == t.toUs /\ (t.type = readId \/ t.type = responseId)
        asks == unknown /\ ~waitKm /\ ~t.read /\ ~t.own /\ ~t.empty /\ t.type # VersionType
        r    == [op |-> "TX_READ", src |-> "own", type |-> VersionType, part |-> 0,
                 val |-> NoType, size |-> "fits", full |-> FALSE, front |-> FALSE]
    IN  /\ rxq # <<>>
        /\ rxq' = Tail(rxq)
        /\ responseId' = IF ours /\ t.type = responseId /\ ~readNext THEN NoType ELSE responseId
        /\ readId' = IF ours /\ ~readNext THEN NoType ELSE readId
        /\ readNext' = (readNext /\ ~ours)
        /\ waitValidate' = IF ~t.read /\ waitValidate = t.type THEN NoType ELSE waitValidate
        /\ publishId' = IF published THEN NoType ELSE publishId
        /\ published => ~unknown /\ ~t.read /\ t.toUs /\ publishId = t.type
        /\ unknown => adds < MaxAdds
        /\ IF asks
           THEN /\ txq' = InsertTx(txq, NewTelegram(r), FALSE)
                /\ fate' = InsertFate(fate, txq)
                /\ adds' = adds + 1
           ELSE UNCHANGED <<txq, fate, adds>>
        /\ UNCHANGED <<txState, last, psq, retry, delayed, polls, echo, conn, mode>>

(* The txpause command and the settings switch the Tx and read-only modes.  *)

SetModes ==
    /\ \E m \in Modes : txOff' = m[1] /\ readOnly' = m[2]
    /\ UNCHANGED <<tx, rxq, ids, conn, adds>>

(* Time: delayed_send_ is reached; no poll of us for EMS_BUS_TIMEOUT.       *)

DelayOver ==
    /\ delayed /\ delayed' = FALSE
    /\ UNCHANGED <<txq, txState, last, psq, retry, polls, fate, echo, rxq, ids, conn, mode, adds>>

BusTimeout ==
    /\ connected /\ outages < MaxOutages
    /\ connected' = FALSE /\ outages' = outages + 1
    /\ UNCHANGED <<tx, rxq, ids, waitKm, mode, adds>>

-----------------------------------------------------------------------------
Init ==
    /\ connected = FALSE /\ waitKm = FALSE /\ txOff = FALSE /\ readOnly = FALSE
    /\ txq = <<>> /\ txState = "NONE" /\ last = Null /\ psq = NoType
    /\ retry = 0 /\ delayed = FALSE /\ polls = 0
    /\ rxq = <<>> /\ echo = Null
    /\ waitValidate = NoType /\ publishId = NoType
    /\ responseId = NoType /\ readId = NoType /\ readNext = FALSE
    /\ fate = <<>> /\ adds = 0 /\ outages = 0

PollIds == {"own", "gateway", "foreign", "other"}

Bus ==
    \/ Echo
    \/ \E id \in PollIds : Poll(id)
    \/ WriteAcked
    \/ WriteRejected
    \/ \E type \in Types, crc, more \in BOOLEAN : ReadAnswered(type, crc, more)
    \/ NoAnswer
    \/ \E r \in Broadcasts : Broadcast(r)

Main ==
    \/ \E r \in Requests : Add(r)
    \/ \E published, unknown \in BOOLEAN : ProcessTelegram(published, unknown)
    \/ SetModes

Time == DelayOver \/ BusTimeout

Next == Bus \/ Main \/ Time

Spec == Init /\ [][Next]_vars

(* The master polls every participant in turn, the echo of a frame follows  *)
(* it, the main loop runs and time passes; nothing else is promised.  In    *)
(* particular no device has to answer.                                      *)

Fairness ==
    /\ WF_vars(Echo)
    /\ WF_vars(NoAnswer)
    /\ WF_vars(Poll("own"))
    /\ WF_vars(Poll("own") /\ waitKm' = FALSE)
    /\ WF_vars(DelayOver)

FairSpec == Spec /\ Fairness

-----------------------------------------------------------------------------
(* Every variable holds a value of the C++ member it stands for: the queues  *)
(* never exceed their limits and retry_count_ never exceeds its.             *)
TypeOK ==
    /\ connected \in BOOLEAN /\ waitKm \in BOOLEAN /\ txOff \in BOOLEAN /\ readOnly \in BOOLEAN
    /\ txq \in Seq(Telegrams) /\ Len(txq) <= MaxTx
    /\ txState \in {"NONE", "TX_READ", "TX_WRITE"}
    /\ last \in Telegrams \cup {Null}
    /\ psq \in Types \cup {NoType}
    /\ retry \in 0 .. MaxRetries
    /\ delayed \in BOOLEAN /\ polls \in 0 .. MaxPolls
    /\ rxq \in Seq(RxTelegrams) /\ Len(rxq) <= MaxRx
    /\ {waitValidate, publishId, responseId, readId} \subseteq Types \cup {NoType}
    /\ readNext \in BOOLEAN
    /\ echo \in Telegrams \cup {Null}
    /\ fate \in Seq(Fates)
    /\ adds \in 0 .. MaxAdds /\ outages \in 0 .. MaxOutages

(* While an answer is awaited, telegram_last_ is a telegram of that kind and  *)
(* the type to read back is still the one queued with it: incoming_telegram   *)
(* dereferences telegram_last_ on every such frame, and retry_tx has moved    *)
(* the telegram out of it.                                                    *)
AwaitedTelegram ==
    txState # "NONE" =>
        /\ last # Null
        /\ Awaits(last) = txState
        /\ psq = last.val

InFlight(u) == txState # "NONE" /\ last # Null /\ last.uid = u
Queued(u)   == \E i \in DOMAIN txq : txq[i].uid = u

(* A request is open exactly while it is queued or in flight: none vanishes   *)
(* unaccounted through overflow, expiry, give-up and retries, and none is     *)
(* settled while it can still be sent.                                        *)
OpenIffHeld ==
    \A u \in DOMAIN fate : fate[u] = "open" <=> Queued(u) \/ InFlight(u)

(* A request is held once: a retry never leaves a second copy of a telegram   *)
(* in the queue, or one in the queue and one in flight.                       *)
HeldOnce ==
    /\ \A i, j \in DOMAIN txq : txq[i].uid = txq[j].uid => i = j
    /\ \A i \in DOMAIN txq : ~InFlight(txq[i].uid)

(* A request has one outcome: a telegram counted as failed or dropped is      *)
(* never sent and acknowledged later, nor the other way round.                *)
SettledOnce ==
    [][\A u \in DOMAIN fate : fate[u] # "open" => fate'[u] = fate[u]]_vars

(* The requests queued at the back, which are the reads the firmware makes    *)
(* (emsesp.h:142), reach the bus in the order they were made: neither a retry *)
(* nor an insertion in front makes one of them overtake another.  The writes  *)
(* are not among them: send_write_request puts each in front, so of two that  *)
(* wait the newer one goes first.                                             *)
OrderKept ==
    /\ \A i, j \in DOMAIN txq :
          i < j /\ txq[i].fifo /\ txq[j].fifo => txq[i].uid < txq[j].uid
    /\ (txState # "NONE" /\ last.fifo) =>
          \A i \in DOMAIN txq : txq[i].fifo => last.uid < txq[i].uid

Open(u) == u \in DOMAIN fate /\ fate[u] = "open"

(* Every accepted request comes to an end while the master keeps polling us,  *)
(* whatever the devices answer: no head of the queue blocks it forever.       *)
EventuallySettled == \A u \in 1 .. MaxAdds : Open(u) ~> ~Open(u)

(* The requests the firmware has made, with what is left to do for each, are  *)
(* as the abstract specification promises: one outcome each, one request at a *)
(* time, those in front first and the others in turn, and no failure before   *)
(* MAXIMUM_TX_RETRIES retries in a row had no answer.                         *)
HeldTelegram(u) == IF InFlight(u) THEN last ELSE txq[CHOOSE i \in DOMAIN txq : txq[i].uid = u]

Obligations ==
    [u \in {n \in DOMAIN fate : Queued(n) \/ InFlight(n)} |->
        [begun  |-> HeldTelegram(u).begun,
         onWire |-> InFlight(u),
         inTurn |-> HeldTelegram(u).fifo]]

Unanswered == IF txState = "NONE" THEN retry ELSE retry + 1

Promise ==
    INSTANCE Requests WITH
        Outcomes   <- Fates \ {"open"},
        MaxSent    <- MaxRetries + 1,
        outcome    <- fate,
        held       <- Obligations,
        unanswered <- Unanswered

Implements == Promise!Spec
=============================================================================
