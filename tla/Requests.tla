------------------------------ MODULE Requests ------------------------------
(***************************************************************************)
(* What the Tx service promises to the rest of the firmware: a request it  *)
(* accepts is kept until it has one outcome; requests are on the bus one   *)
(* at a time; those put in front go before those that have not had their   *)
(* turn yet, and these go out in the order they were accepted; and at most *)
(* MaxSent transmissions in a row stay unanswered, the last of which fails *)
(* the request it was made for, none before.  The row is counted for the   *)
(* service and not for a request: a request put in front of one that waits *)
(* for its retry continues the row of the other.  There are no queues,     *)
(* polls, retries or acknowledges here.  EmsBus implements this            *)
(* specification.                                                          *)
(***************************************************************************)
EXTENDS Naturals, Sequences

CONSTANTS
    Outcomes,    \* the ends a request may come to
    MaxSent      \* transmissions in a row without an answer

VARIABLES
    outcome,     \* outcome[u] of request number u, or "open"
    held,        \* of each open request: has it been on the bus, is it there now,
                 \* does it take its turn in the queue
    unanswered   \* transmissions since the last answer or failure

Known == DOMAIN outcome

(* Ends reached without a transmission of their own, and ends that follow  *)
(* one.  A frame the driver refuses fails without having been sent.        *)

UnsentOutcomes == Outcomes \cap {"overflow", "expired", "discarded", "failed", "sent"}
AnswerOutcomes == Outcomes \cap {"written", "read", "rejected", "failed", "ignored", "skipped"}

Accepts ==                       \* at most one new request per step
    /\ DOMAIN outcome' \in {Known, 1 .. Len(outcome) + 1}
    /\ DOMAIN held' = {u \in DOMAIN outcome' : outcome'[u] = "open"}
    /\ \A u \in DOMAIN held' \ Known :
          /\ held'[u].begun = held'[u].onWire
          /\ held'[u].onWire => ~held'[u].inTurn

Done(u) == outcome[u] # "open" /\ outcome'[u] = outcome[u]

Ends(u) ==
    /\ outcome[u] = "open"
    /\ \/ ~held[u].onWire /\ outcome'[u] \in UnsentOutcomes
       \/ /\ held[u].onWire /\ outcome'[u] \in AnswerOutcomes
          /\ outcome'[u] \in {"failed", "ignored"} => unanswered = MaxSent

Stays(u) == held'[u] = held[u]

MayGoBefore(u, v) ==             \* u goes on the bus while v waits
    held[u].inTurn => IF held[v].inTurn THEN u <= v ELSE held[u].begun

Starts(u) ==
    /\ ~held[u].onWire
    /\ held'[u] = [held[u] EXCEPT !.onWire = TRUE, !.begun = TRUE]
    /\ \A v \in DOMAIN held : outcome'[v] = "open" => MayGoBefore(u, v)

Waits(u) ==                      \* no answer, to be sent again
    /\ held[u].onWire /\ unanswered < MaxSent
    /\ held'[u] = [held[u] EXCEPT !.onWire = FALSE]

Remains(u) == outcome[u] = "open" /\ outcome'[u] = "open" /\ (Stays(u) \/ Starts(u) \/ Waits(u))

Answered == \E u \in Known : outcome[u] = "open" /\ outcome'[u] # "open" /\ held[u].onWire
Sent     == \E u \in DOMAIN held' : held'[u].onWire /\ (u \in DOMAIN held => ~held[u].onWire)

Counts ==
    /\ unanswered' = (IF Answered THEN 0 ELSE unanswered) + (IF Sent THEN 1 ELSE 0)
    /\ unanswered' <= MaxSent

Init == outcome = <<>> /\ held = <<>> /\ unanswered = 0

Next ==
    /\ Accepts
    /\ \A u \in Known : Done(u) \/ Ends(u) \/ Remains(u)
    /\ \A u, v \in DOMAIN held' : held'[u].onWire /\ held'[v].onWire => u = v
    /\ Counts

Spec == Init /\ [][Next]_<<outcome, held, unanswered>>
=============================================================================
