------------------------------ MODULE EmsBusMC ------------------------------
(***************************************************************************)
(* Instances of EmsBus for TLC: the requests the firmware makes and the    *)
(* telegrams other participants send.  w is a type that is written, v one  *)
(* that is read back after the write.                                      *)
(***************************************************************************)
EXTENDS EmsBus

CONSTANTS w, v

TypesMC == {w, v}

Request(op, type, val, front) ==
    [op |-> op, src |-> "own", type |-> type, part |-> 0, val |-> val,
     size |-> "fits", full |-> FALSE, front |-> front]

Read       == Request("TX_READ", v, NoType, FALSE)
Write      == Request("TX_WRITE", w, v, TRUE)
PlainWrite == Request("TX_WRITE", w, NoType, FALSE)
RawRead    == [Request("TX_RAW", v, NoType, TRUE) EXCEPT !.full = TRUE]
ReadCommand == [Request("TX_READ", v, NoType, TRUE) EXCEPT !.full = TRUE]
RawWrite   == Request("TX_WRITE", w, w, TRUE)            \* validates its own type
Foreign    == [Request("NONE", w, NoType, TRUE) EXCEPT !.src = "foreign"]
OverLong   == [PlainWrite EXCEPT !.size = "overlong"]
TooBig     == [PlainWrite EXCEPT !.size = "toobig"]

(* What commands and fetches queue, what `send' of the API queues, and both. *)
CommandRequests == {Read, Write}
RawRequests     == {PlainWrite, RawRead, RawWrite, ReadCommand, Foreign, OverLong, TooBig}
LiveRequests    == {Write, Foreign}

AnyMode   == {<<FALSE, FALSE>>, <<TRUE, FALSE>>, <<FALSE, TRUE>>}
AlwaysOn  == {<<FALSE, FALSE>>}

FromDevice(type) ==
    [type |-> type, toUs |-> FALSE, read |-> FALSE, own |-> FALSE, empty |-> FALSE]

Monitor   == {FromDevice(w)}
NoTraffic == {}
=============================================================================
