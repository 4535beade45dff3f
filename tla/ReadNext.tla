------------------------------ MODULE ReadNext ------------------------------
(***************************************************************************)
(* Reading a long telegram block by block: TxService::read_request asks    *)
(* for everything, send_telegram caps what one frame may carry, and        *)
(* read_next_tx decides from each answer, in 8-bit arithmetic, whether a   *)
(* further block is to be asked for and which.                             *)
(*                                                                         *)
(* The device is external.  It holds the bytes first .. size-1 of the      *)
(* telegram and answers from the offset asked for or, as the comments of   *)
(* read_next_tx tell of some boilers, from its first byte if that is       *)
(* higher, and with `less' bytes fewer than fit in a frame.  One that does  *)
(* not know the telegram (size 0) answers with an EMS 1.0 header alone, as *)
(* the comment of TxService::add tells of an EMS+ request to a MM10.       *)
(***************************************************************************)
EXTENDS Integers

CONSTANTS
    TelegramSizes,  \* bytes a device may hold
    FirstBytes,     \* where they may begin
    Starts,         \* the offset argument of read_request
    Lengths         \* its length argument; 0 asks for all

ASSUME SizesAssumption ==
    /\ TelegramSizes \subseteq 0 .. 255 /\ FirstBytes \subseteq 0 .. 255
    /\ Starts \subseteq 0 .. 255 /\ Lengths \subseteq 0 .. 255

VARIABLES
    plus,     \* type_id > 0xFF: an EMS+ telegram
    size, first, less,  \* the device
    offset,   \* telegram_last_->offset
    asked,    \* telegram_last_->message_data[0]
    start, wanted,  \* history: the first request
    got,      \* history: the bytes received
    done      \* the bus has been closed

given  == <<plus, size, first, less, start, wanted>>
vars   == <<given, offset, asked, got, done>>

Byte(n) == n % 256                           \* the uint8_t variables
Smaller(a, b) == IF a < b THEN a ELSE b

MaxLength == IF plus THEN 25 ELSE 27         \* EMS_MAX_TELEGRAM_MESSAGE_LENGTH (- 2)
Header    == IF plus THEN 7 ELSE 5           \* a frame's bytes around the data

FirstRequest(length) == IF length > 0 /\ length < 255 THEN length ELSE 255

Init ==
    /\ plus \in BOOLEAN /\ size \in TelegramSizes /\ first \in FirstBytes /\ less \in 0 .. 1
    /\ IF size = 0 THEN first = 0 ELSE first < size
    /\ start \in Starts /\ wanted \in {FirstRequest(n) : n \in Lengths}
    /\ offset = start /\ asked = wanted /\ got = {} /\ done = FALSE

-----------------------------------------------------------------------------
(* The answer to the last request: its offset, its bytes of data and the     *)
(* length of its frame.                                                     *)

OnWire   == Smaller(asked, MaxLength)        \* what send_telegram asks for
ReplyAt  == IF offset < first THEN first ELSE offset
ReplyLen ==
    LET fits == Smaller(OnWire, MaxLength - less)
    IN  IF ReplyAt < size THEN Smaller(fits, size - ReplyAt) ELSE 0

FrameLength == IF size = 0 THEN 5 ELSE Header + ReplyLen

(* TxService::read_next_tx. *)

OldLength  == Byte(FrameLength - Header)     \* wraps if the answer has no EMS+ header
NextLength == IF asked > OldLength THEN Byte(asked - OldLength - ReplyAt + offset) ELSE 0
OffsetPlusOne == Byte(ReplyAt + OldLength + 1)   \* mutant
NextOffset    == Byte(ReplyAt + OldLength)

LastByteExpected == ReplyAt + OldLength + 1 >= offset + asked    \* mutant
LastByteReceived == ReplyAt + OldLength >= offset + asked
ShortReply ==
    /\ NextLength + NextOffset = 255
    /\ OldLength < MaxLength - 4
    /\ ReplyAt <= offset

AsksOnEmpty == ~LastByteReceived /\ ~ShortReply /\ ReplyAt >= offset /\ NextLength > 0   \* mutant
AsksMore    == ~LastByteReceived /\ ~ShortReply /\ ReplyAt >= offset /\ OldLength > 0 /\ NextLength > 0

Reply ==
    /\ ~done
    /\ got' = got \cup (ReplyAt .. ReplyAt + ReplyLen - 1)
    /\ IF AsksMore
       THEN offset' = NextOffset /\ asked' = NextLength /\ UNCHANGED done
       ELSE done' = TRUE /\ UNCHANGED <<offset, asked>>
    /\ UNCHANGED given

Next == Reply

Spec == Init /\ [][Next]_vars /\ WF_vars(Next)

-----------------------------------------------------------------------------
Begin == IF start < first THEN first ELSE start
Held  == Begin .. Smaller(size, start + wanted) - 1

(* The device has no such EMS+ telegram. *)
Unknown == size = 0 /\ plus

(* Blocks follow each other without gap or overlap: a request starts at the   *)
(* first byte not yet received and never reaches past what was asked for.     *)
(* The answer of a device that does not know an EMS+ telegram is the one      *)
(* exception: length - 7 wraps to 254 bytes, and if everything was asked for  *)
(* the code goes on to ask for a single byte 254 further on.                  *)
Contiguous ==
    /\ ~Unknown => /\ offset + asked = start + wanted
                   /\ ~done => got = Begin .. offset - 1
    /\ Unknown /\ offset # start => wanted = 255 /\ offset = Byte(start + 254) /\ asked = 1

(* The reading ends only when every byte the device holds has been received,  *)
(* short answers and answers from a higher offset included.                   *)
CompleteWhenDone == done => Held \subseteq got

(* The reading of any telegram ends.                                          *)
Terminates == <>done
=============================================================================
