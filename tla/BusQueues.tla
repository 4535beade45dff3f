------------------------------ MODULE BusQueues ------------------------------
(***************************************************************************)
(* The Tx and Rx deques as the tasks of the firmware share them.  The UART *)
(* task sends, retries and receives; the main loop, the web server task    *)
(* and the worker task queue requests; the main loop consumes what was     *)
(* received.  No mutex protects the deques, so the steps between which     *)
(* another task can run are split here.  EmsBus has the full handlers, one *)
(* step each.                                                              *)
(*                                                                         *)
(* The UART task has the highest priority but is pinned to no core, and    *)
(* even on the main loop's core it waits in the middle of a handler: the   *)
(* driver blocks it while a frame goes out (EMS_TXMODE_HW) and the log     *)
(* takes a mutex.  So any task may run between any two steps.  One         *)
(* operation of std::deque is taken as atomic, which is the best case.     *)
(***************************************************************************)
EXTENDS Naturals, Sequences, FiniteSets

CONSTANTS
    Adders,         \* the tasks that queue requests
    MaxTx,          \* MAX_TX_TELEGRAMS
    MaxRx,          \* MAX_RX_TELEGRAMS
    MaxRequests,    \* requests made (bound)
    MaxFrames,      \* frames received (bound)
    None

ASSUME QueuesAssumption ==
    /\ MaxTx \in Nat \ {0} /\ MaxRx \in Nat \ {0}
    /\ MaxRequests \in Nat /\ MaxFrames \in Nat
    /\ IsFiniteSet(Adders) /\ None \notin Nat

VARIABLES
    txq,        \* tx_telegrams_: request numbers
    uart,       \* where the UART task is in its handler
    held,       \* the telegram it works on: the front it looked at, telegram_last_,
                \* or the one it is about to put in front
    adding,     \* adding[a]: the request task a is about to emplace, or None
    txFate,     \* history: txFate[i] is what became of request i
    rxq,        \* rx_telegrams_: frame numbers
    arriving,   \* the frame the UART task is about to emplace, or None
    working,    \* the frame RxService::loop is processing, or None
    rxFate,     \* history: rxFate[i] is what became of frame i
    disturbed   \* history: has the front been replaced under the UART task

txVars == <<txq, held, adding, txFate>>
rxVars == <<rxq, arriving, working, rxFate>>
vars   == <<txVars, uart, rxVars, disturbed>>

Init ==
    /\ txq = <<>> /\ uart = "idle" /\ held = None
    /\ adding = [a \in Adders |-> None] /\ txFate = <<>>
    /\ rxq = <<>> /\ arriving = None /\ working = None /\ rxFate = <<>>
    /\ disturbed = FALSE

(* The UART task has looked at the front element and is about to remove it. *)
FrontInUse == uart \in {"sending", "expiring"}

-----------------------------------------------------------------------------
(* TxService::add: make room, then emplace.                                 *)

Full == Len(txq) >= MaxTx

Room    == IF Full THEN Tail(txq) ELSE txq
Dropped == IF Full THEN [txFate EXCEPT ![Head(txq)] = "overflow"] ELSE txFate

AddNoRoom(a) ==                   \* mutant: no overflow check
    /\ adding[a] = None /\ Len(txFate) < MaxRequests
    /\ adding' = [adding EXCEPT ![a] = Len(txFate) + 1]
    /\ txFate' = Append(txFate, "adding")
    /\ UNCHANGED <<txq, uart, held, rxVars, disturbed>>

AddRoom(a) ==                     \* by another task
    /\ adding[a] = None /\ Len(txFate) < MaxRequests
    /\ adding' = [adding EXCEPT ![a] = Len(txFate) + 1]
    /\ txq' = Room /\ txFate' = Append(Dropped, "adding")
    /\ disturbed' = (disturbed \/ (Full /\ FrontInUse))
    /\ UNCHANGED <<uart, held, rxVars>>

AddPut(a, front) ==
    LET id == adding[a]
    IN  /\ id # None
        /\ adding' = [adding EXCEPT ![a] = None]
        /\ txq' = IF front THEN <<id>> \o txq ELSE Append(txq, id)
        /\ txFate' = [txFate EXCEPT ![id] = "queued"]
        /\ disturbed' = (disturbed \/ (front /\ FrontInUse))
        /\ UNCHANGED <<uart, held, rxVars>>

-----------------------------------------------------------------------------
(* TxService::send by the UART task: send_telegram keeps a reference to the *)
(* front element for the milliseconds the frame takes, then the front       *)
(* element is removed.                                                      *)

SendFront ==
    /\ uart = "idle" /\ held = None /\ txq # <<>>
    /\ uart' = "sending"
    /\ held' = Head(txq)
    /\ UNCHANGED <<txq, adding, txFate, rxVars, disturbed>>

PopBack ==                        \* mutant: the wrong end
    LET popped == txq[Len(txq)]
    IN  /\ uart = "sending"
        /\ uart' = "idle"
        /\ txq' = SubSeq(txq, 1, Len(txq) - 1)
        /\ txFate' = [txFate EXCEPT ![held] = "sent",
                                    ![popped] = IF popped = held THEN "sent" ELSE "lost"]
        /\ UNCHANGED <<held, adding, rxVars, disturbed>>

PopSent ==
    /\ uart = "sending"
    /\ uart' = "idle"
    /\ txq # <<>>
    /\ txq' = Tail(txq)
    /\ txFate' = [txFate EXCEPT ![held] = "sent",
                                ![Head(txq)] = IF Head(txq) = held THEN "sent" ELSE "lost"]
    /\ UNCHANGED <<held, adding, rxVars, disturbed>>

(* TxService::get_send_id on a poll: the sender of the front element is     *)
(* compared, then the front element is dropped.                             *)

FindExpired ==
    /\ uart = "idle" /\ held = None /\ txq # <<>>
    /\ uart' = "expiring"
    /\ held' = Head(txq)
    /\ UNCHANGED <<txq, adding, txFate, rxVars, disturbed>>

PopExpired ==
    /\ uart = "expiring"
    /\ uart' = "idle" /\ held' = None
    /\ txq # <<>>
    /\ txq' = Tail(txq)
    /\ txFate' = [txFate EXCEPT ![Head(txq)] = IF Head(txq) = held THEN "expired" ELSE "lost"]
    /\ UNCHANGED <<adding, rxVars, disturbed>>

(* What came where the answer was due: an answer, or nothing and the        *)
(* retries are used up; an answer that makes the UART task ask for more     *)
(* (post_send_query, read_next_tx); or nothing, and a retry, which is       *)
(* skipped if the queue is full.                                            *)

Answered ==
    /\ uart = "idle" /\ held # None
    /\ held' = None
    /\ UNCHANGED <<txq, uart, adding, txFate, rxVars, disturbed>>

AskMore ==
    /\ uart = "idle" /\ held # None /\ Len(txFate) < MaxRequests
    /\ uart' = "putting" /\ held' = Len(txFate) + 1
    /\ txq' = Room /\ txFate' = Append(Dropped, "adding")
    /\ UNCHANGED <<adding, rxVars, disturbed>>

RetryRoom ==
    /\ uart = "idle" /\ held # None
    /\ IF Full THEN held' = None /\ UNCHANGED uart
               ELSE uart' = "putting" /\ UNCHANGED held
    /\ UNCHANGED <<txq, adding, txFate, rxVars, disturbed>>

PutCopy ==                        \* mutant: the telegram is not moved out of telegram_last_
    /\ uart = "putting"
    /\ uart' = "idle" /\ UNCHANGED held
    /\ txq' = <<held>> \o txq
    /\ txFate' = [txFate EXCEPT ![held] = "queued"]
    /\ UNCHANGED <<adding, rxVars, disturbed>>

PutInFront ==
    /\ uart = "putting"
    /\ uart' = "idle" /\ held' = None
    /\ txq' = <<held>> \o txq
    /\ txFate' = [txFate EXCEPT ![held] = "queued"]
    /\ UNCHANGED <<adding, rxVars, disturbed>>

-----------------------------------------------------------------------------
(* RxService::add by the UART task.                                         *)

ReceiveRoom ==
    /\ uart = "idle" /\ Len(rxFate) < MaxFrames
    /\ uart' = "receiving"
    /\ arriving' = Len(rxFate) + 1
    /\ LET full == Len(rxq) >= MaxRx
       IN  /\ rxq' = IF full THEN Tail(rxq) ELSE rxq
           /\ rxFate' = Append(IF full /\ rxFate[Head(rxq)] = "queued"
                               THEN [rxFate EXCEPT ![Head(rxq)] = "overflow"] ELSE rxFate,
                               "queued")
    /\ UNCHANGED <<txVars, working, disturbed>>

ReceivePut ==
    /\ uart = "receiving"
    /\ uart' = "idle"
    /\ rxq' = Append(rxq, arriving) /\ arriving' = None
    /\ UNCHANGED <<txVars, working, rxFate, disturbed>>

(* RxService::loop by the main loop: process the front, then remove the     *)
(* front.                                                                   *)

ProcessFront ==
    /\ working = None /\ rxq # <<>>
    /\ working' = Head(rxq)
    /\ rxFate' = [rxFate EXCEPT ![Head(rxq)] = "processed"]
    /\ UNCHANGED <<txVars, uart, rxq, arriving, disturbed>>

KeepWorking ==                    \* mutant: the loop never leaves the frame
    /\ working # None /\ rxq # <<>>
    /\ rxq' = Tail(rxq)
    /\ UNCHANGED <<txVars, uart, arriving, working, rxFate, disturbed>>

ForgetPop ==                      \* mutant: the front stays in the queue
    /\ working # None /\ working' = None
    /\ UNCHANGED <<txVars, uart, rxq, arriving, rxFate, disturbed>>

PopProcessed ==
    /\ working # None /\ working' = None
    /\ rxq # <<>>
    /\ rxq' = Tail(rxq)
    /\ rxFate' = IF rxFate[Head(rxq)] = "queued" THEN [rxFate EXCEPT ![Head(rxq)] = "lost"] ELSE rxFate
    /\ UNCHANGED <<txVars, uart, arriving, disturbed>>

-----------------------------------------------------------------------------
UartTask ==
    \/ SendFront \/ PopSent
    \/ FindExpired \/ PopExpired
    \/ Answered \/ AskMore \/ RetryRoom \/ PutInFront
    \/ ReceiveRoom \/ ReceivePut

OtherTasks ==
    \/ \E a \in Adders : AddRoom(a) \/ \E front \in BOOLEAN : AddPut(a, front)
    \/ ProcessFront
    \/ PopProcessed

Next == UartTask \/ OtherTasks

Spec == Init /\ [][Next]_vars

-----------------------------------------------------------------------------
(* The overflow checks of several tasks may all pass before the first of them *)
(* emplaces: the Tx queue can exceed its limit by one telegram per task, and  *)
(* by no more.  Only the UART task adds to the Rx queue.                      *)
WithinLimits ==
    /\ Len(txq) <= MaxTx + Cardinality(Adders)
    /\ Len(rxq) <= MaxRx

(* The variables hold request and frame numbers in the places of the code's   *)
(* pointers, a handler has a telegram exactly while it works on one, and the  *)
(* queues keep within their limits.                                           *)
TypeOK ==
    /\ WithinLimits
    /\ uart \in {"idle", "sending", "expiring", "putting", "receiving"}
    /\ held \in DOMAIN txFate \cup {None}
    /\ adding \in [Adders -> DOMAIN txFate \cup {None}]
    /\ txq \in Seq(DOMAIN txFate) /\ rxq \in Seq(DOMAIN rxFate)
    /\ working \in DOMAIN rxFate \cup {None}
    /\ uart \in {"sending", "expiring", "putting"} => held # None
    /\ arriving # None <=> uart = "receiving"
    /\ disturbed \in BOOLEAN

(* The front element that is removed after a transmission, or because its     *)
(* sender was not polled, is the one that was sent or looked at: nothing      *)
(* accepted disappears without having been sent or counted.  What can break   *)
(* it is an insertion in front or an overflow between the look at the front   *)
(* and pop_front, and nothing else: not an insertion at the back, nor one of  *)
(* any kind between the checks of a retry, a follow-up read or another task   *)
(* and what they put into the queue.                                          *)
NothingLost == ~disturbed => \A i \in DOMAIN txFate : txFate[i] # "lost"

(* Under the same condition a request that is to be sent is in the queue      *)
(* once, and one that has been sent or dropped is not in it, so that it is    *)
(* not sent again.                                                            *)
QueuedOnce ==
    ~disturbed => \A i \in DOMAIN txFate :
        Cardinality({p \in DOMAIN txq : txq[p] = i}) = IF txFate[i] = "queued" THEN 1 ELSE 0

(* pop_front is never called on an empty deque, though another task may have  *)
(* removed an element since the check.                                        *)
PopSafe ==
    /\ FrontInUse => txq # <<>>
    /\ working # None => rxq # <<>>

(* A received telegram is processed at most once: values are not counted or   *)
(* published twice.                                                           *)
ProcessedOnce ==
    [][working = None /\ working' # None => rxFate[working'] = "queued"]_vars
=============================================================================
