--------------------------- MODULE ReadNextProofs ---------------------------
(***************************************************************************)
(* Proof that reading a telegram block by block neither skips nor repeats  *)
(* a byte and does not end early, for every size of the telegram up to 255 *)
(* bytes, every first byte and every offset and length asked for.  What    *)
(* makes it more than addition is that read_next_tx computes in 8 bits:    *)
(* the lemmas show that no value it goes on with is cut off, but for the   *)
(* answer of a device that does not know an EMS+ telegram.                 *)
(***************************************************************************)
EXTENDS ReadNext, TLAPS

(* The request goes on where the answers ended, until the end. *)
Following ==
    /\ start <= offset /\ offset + asked = start + wanted
    /\ ~done => got = Begin .. offset - 1 /\ asked > 0

(* No byte comes; after the first answer a single one is asked for. *)
Nothing ==
    IF offset = start THEN asked = wanted
    ELSE wanted = 255 /\ offset = Byte(start + 254) /\ asked = 1

IInv ==
    /\ less \in 0 .. 1 /\ plus \in BOOLEAN
    /\ size \in 0 .. 255 /\ first \in 0 .. 255 /\ (IF size = 0 THEN first = 0 ELSE first < size)
    /\ wanted \in 1 .. 255 /\ start \in 0 .. 255
    /\ offset \in 0 .. 255 /\ asked \in 0 .. 255
    /\ IF Unknown THEN Nothing ELSE Following
    /\ done => Held \subseteq got

LEMMA ByteSmall ==
    ASSUME NEW n \in 0 .. 255 PROVE Byte(n) = n
  BY DEF Byte

LEMMA FirstRequestType ==
    ASSUME NEW n \in Lengths PROVE FirstRequest(n) \in 1 .. 255
  BY SizesAssumption DEF FirstRequest

LEMMA InitHolds == Init => IInv
  <1> SUFFICES ASSUME Init PROVE IInv
    OBVIOUS
  <1>1. wanted \in 1 .. 255
    BY FirstRequestType DEF Init
  <1>2. /\ size \in 0 .. 255 /\ first \in 0 .. 255 /\ start \in 0 .. 255
        /\ (IF size = 0 THEN first = 0 ELSE first < size)
    BY SizesAssumption DEF Init
  <1>3. /\ less \in 0 .. 1 /\ plus \in BOOLEAN /\ ~done
        /\ offset = start /\ asked = wanted /\ got = {}
    BY DEF Init
  <1>4. got = Begin .. offset - 1
    BY <1>2, <1>3 DEF Begin
  <1>5. Following
    BY <1>1, <1>2, <1>3, <1>4 DEF Following
  <1>6. Nothing
    BY <1>3 DEF Nothing
  <1> QED BY <1>1, <1>2, <1>3, <1>5, <1>6 DEF IInv

(* An answer starts where it was asked for or at the first byte, and does not *)
(* reach past the end of the telegram, nor past what was asked for.           *)
LEMMA ReplyBounds ==
    ASSUME IInv
    PROVE  /\ ReplyAt \in 0 .. 255 /\ offset <= ReplyAt /\ first <= ReplyAt
           /\ ReplyAt > offset => ReplyAt = first
           /\ ReplyLen \in 0 .. 27 /\ ReplyLen <= asked
           /\ ReplyLen > 0 => ReplyAt + ReplyLen <= size
  <1>1. MaxLength \in {25, 27}
    BY DEF MaxLength
  <1>2. ReplyAt \in 0 .. 255 /\ offset <= ReplyAt /\ first <= ReplyAt
        /\ (ReplyAt > offset => ReplyAt = first)
    BY DEF ReplyAt, IInv
  <1>3. OnWire \in 0 .. 27 /\ OnWire <= asked
    BY <1>1 DEF OnWire, Smaller, IInv
  <1> QED BY <1>1, <1>2, <1>3 DEF ReplyLen, Smaller, IInv

(* The length read_next_tx computes is that of the data, unless the answer    *)
(* has no EMS+ header.                                                        *)
LEMMA LengthOfData ==
    ASSUME IInv
    PROVE  OldLength = IF Unknown THEN 254 ELSE ReplyLen
  <1>1. ReplyLen \in 0 .. 27 /\ (size = 0 => ReplyLen = 0)
    <2>1. size = 0 => ReplyLen = 0
      BY ReplyBounds DEF ReplyLen, IInv
    <2> QED BY <2>1, ReplyBounds
  <1>2. CASE Unknown
    <2>1. FrameLength - Header = 0 - 2
      BY <1>2 DEF Unknown, FrameLength, Header
    <2> QED BY <1>2, <2>1 DEF OldLength, Byte
  <1>3. CASE ~Unknown
    <2>1. FrameLength - Header = ReplyLen
      BY <1>1, <1>3 DEF Unknown, FrameLength, Header, IInv
    <2>2. ReplyLen \in 0 .. 255
      BY <1>1
    <2> QED BY <1>3, <2>1, <2>2, ByteSmall DEF OldLength
  <1> QED BY <1>2, <1>3

(* An answer shorter than both what was asked for and what fits in a frame    *)
(* (with room for one byte less) ends with the last byte of the telegram.     *)
LEMMA ShortMeansEnd ==
    ASSUME IInv, ReplyLen < asked, ReplyLen < MaxLength - 1
    PROVE  size <= ReplyAt + ReplyLen
  <1>1. MaxLength \in {25, 27}
    BY DEF MaxLength
  <1>2. ReplyAt \in 0 .. 255
    BY ReplyBounds
  <1> QED BY <1>1, <1>2 DEF ReplyLen, OnWire, Smaller, IInv

(* When the last byte is still missing and the answer had data, nothing wraps *)
(* around in 8 bits: the next request takes up where the answer ended and     *)
(* asks for the rest.                                                         *)
LEMMA NextRequest ==
    ASSUME IInv, ~Unknown, ~LastByteReceived
    PROVE  /\ ReplyLen > 0 => NextOffset = ReplyAt + ReplyLen /\ NextOffset \in 0 .. 255
           /\ NextLength = start + wanted - (ReplyAt + ReplyLen) /\ NextLength \in 1 .. 255
  <1>1. ReplyAt \in 0 .. 255 /\ ReplyLen \in 0 .. 27 /\ offset <= ReplyAt /\ OldLength = ReplyLen
        /\ (ReplyLen > 0 => ReplyAt + ReplyLen <= size)
    BY ReplyBounds, LengthOfData
  <1>2. ReplyAt + ReplyLen < offset + asked /\ offset + asked = start + wanted
        /\ asked \in 0 .. 255 /\ offset \in 0 .. 255 /\ size \in 0 .. 255
    BY <1>1 DEF LastByteReceived, IInv, Following
  <1>3. ASSUME ReplyLen > 0
        PROVE  NextOffset = ReplyAt + ReplyLen /\ NextOffset \in 0 .. 255
    <2>1. ReplyAt + ReplyLen \in 0 .. 255
      BY <1>1, <1>2, <1>3
    <2> QED BY <1>1, <2>1, ByteSmall DEF NextOffset
  <1>4. asked > ReplyLen /\ asked - ReplyLen - ReplyAt + offset \in 1 .. 255
    BY <1>1, <1>2
  <1>5. asked - ReplyLen - ReplyAt + offset = start + wanted - (ReplyAt + ReplyLen)
    <2>1. start \in 0 .. 255 /\ wanted \in 1 .. 255
      BY DEF IInv
    <2> QED BY <1>1, <1>2, <2>1
  <1>6. NextLength = asked - ReplyLen - ReplyAt + offset
    <2>1. asked - ReplyLen - ReplyAt + offset \in 0 .. 255
      BY <1>4
    <2> QED BY <1>1, <1>4, <2>1, ByteSmall DEF NextLength
  <1> QED BY <1>3, <1>4, <1>5, <1>6

(* All bytes up to the end of the answer have been received.                  *)
LEMMA NoGap ==
    ASSUME IInv, ~Unknown, Reply
    PROVE  Begin .. ReplyAt + ReplyLen - 1 \subseteq got'
  <1>1. /\ ReplyAt \in 0 .. 255 /\ ReplyLen \in 0 .. 27
        /\ ReplyAt > offset => ReplyAt = first
        /\ offset <= ReplyAt
    BY ReplyBounds
  <1>2. got' = (Begin .. offset - 1) \cup (ReplyAt .. ReplyAt + ReplyLen - 1)
    BY DEF Reply, IInv, Following
  <1>3. Begin \in 0 .. 255 /\ (ReplyAt > offset => Begin = ReplyAt)
    BY <1>1 DEF Begin, IInv, Following
  <1> QED BY <1>1, <1>2, <1>3 DEF IInv

(* What the device and the first request are does not change. *)
LEMMA GivenStays ==
    ASSUME UNCHANGED given
    PROVE  /\ UNCHANGED <<plus, size, first, less, start, wanted>>
           /\ Unknown' = Unknown /\ Held' = Held /\ Begin' = Begin
  BY DEF given, Unknown, Held, Begin, Smaller

LEMMA UnknownKeeps ==
    ASSUME IInv, Unknown, Reply PROVE IInv'
  <1>1. /\ UNCHANGED <<plus, size, first, less, start, wanted>>
        /\ Unknown' /\ Held' = Held
    BY GivenStays DEF Reply
  <1>2. OldLength = 254 /\ ReplyAt = offset
    BY LengthOfData DEF ReplyAt, Unknown, IInv
  <1>3. size = 0 /\ start \in 0 .. 255 /\ wanted \in 1 .. 255 /\ offset \in 0 .. 255 /\ asked \in 0 .. 255
        /\ Nothing
    BY DEF Unknown, IInv
  <1>4. Held = {}
    BY <1>3 DEF Held, Begin, Smaller, IInv
  <1>5. CASE AsksMore
    <2>1. asked = 255 /\ offset = start
      <3>1. asked > 254
        BY <1>2, <1>3, <1>5 DEF AsksMore, NextLength
      <3> QED BY <1>3, <3>1 DEF Nothing
    <2>2. NextLength = 1
      <3>1. asked - 254 - offset + offset = 1 /\ asked > 254
        BY <1>3, <2>1
      <3> QED BY <1>2, <3>1, ByteSmall DEF NextLength
    <2>3. offset' = Byte(start + 254) /\ asked' = 1 /\ done' = done /\ ~done
      BY <1>2, <1>5, <2>1, <2>2 DEF Reply, NextOffset
    <2>4. Byte(start + 254) \in 0 .. 255 /\ Byte(start + 254) # start
      BY <1>3 DEF Byte
    <2>5. wanted = 255
      BY <1>3, <2>1 DEF Nothing
    <2>6. Nothing'
      BY <1>1, <2>3, <2>4, <2>5 DEF Nothing, Byte
    <2> QED BY <1>1, <2>3, <2>4, <2>6 DEF IInv
  <1>6. CASE ~AsksMore
    <2>1. done' /\ offset' = offset /\ asked' = asked
      BY <1>6 DEF Reply
    <2>2. Nothing'
      BY <1>1, <1>3, <2>1 DEF Nothing, Byte
    <2> QED BY <1>1, <1>4, <2>1, <2>2 DEF IInv
  <1> QED BY <1>5, <1>6

LEMMA KnownKeeps ==
    ASSUME IInv, ~Unknown, Reply PROVE IInv'
  <1>1. /\ ReplyAt \in 0 .. 255 /\ ReplyLen \in 0 .. 27
        /\ ReplyAt > offset => ReplyAt = first
        /\ offset <= ReplyAt /\ first <= ReplyAt
        /\ ReplyLen > 0 => ReplyAt + ReplyLen <= size
        /\ OldLength = ReplyLen
    BY ReplyBounds, LengthOfData
  <1>2. /\ UNCHANGED <<plus, size, first, less, start, wanted>>
        /\ ~Unknown' /\ Held' = Held /\ Begin' = Begin
    BY GivenStays DEF Reply
  <1>3. /\ start \in 0 .. 255 /\ wanted \in 1 .. 255 /\ offset \in 0 .. 255 /\ asked \in 0 .. 255
        /\ first \in 0 .. 255 /\ Following
    BY DEF IInv
  <1>4. CASE AsksMore
    <2>1. ~LastByteReceived /\ ReplyLen > 0
      BY <1>1, <1>4 DEF AsksMore
    <2>2. /\ offset' = ReplyAt + ReplyLen /\ asked' = start + wanted - (ReplyAt + ReplyLen)
          /\ done' = done /\ ~done /\ offset' \in 0 .. 255 /\ asked' \in 1 .. 255
      BY <1>4, <2>1, NextRequest DEF Reply
    <2>3. got' = (Begin .. offset - 1) \cup (ReplyAt .. ReplyAt + ReplyLen - 1)
      BY <1>3 DEF Reply, Following
    <2>4. Begin \in 0 .. 255 /\ (ReplyAt > offset => Begin = ReplyAt) /\ Begin <= ReplyAt
      BY <1>1, <1>3 DEF Begin, Following
    <2>5. got' = Begin .. offset' - 1
      BY <1>1, <1>3, <2>1, <2>2, <2>3, <2>4
    <2>6. start' <= offset' /\ offset' + asked' = start' + wanted'
      BY <1>1, <1>2, <1>3, <2>2 DEF Following
    <2>7. Following'
      <3>1. got' = Begin' .. offset' - 1
        BY <1>2, <2>5
      <3>2. asked' > 0
        BY <2>2
      <3> QED BY <2>6, <3>1, <3>2 DEF Following
    <2>8. asked' \in 0 .. 255 /\ ~done'
      BY <2>2
    <2> QED BY <1>2, <2>2, <2>7, <2>8 DEF IInv
  <1>5. CASE ~AsksMore
    <2>1. done' /\ offset' = offset /\ asked' = asked
      BY <1>5 DEF Reply
    <2>2. size <= ReplyAt + ReplyLen \/ start + wanted <= ReplyAt + ReplyLen
      <3>1. CASE LastByteReceived
        BY <1>1, <1>3, <3>1 DEF LastByteReceived, Following
      <3>2. CASE ~LastByteReceived
        <4>1. ShortReply \/ ReplyLen = 0
          BY <1>1, <1>3, <1>5, <3>2, NextRequest DEF AsksMore
        <4>2. ReplyLen < MaxLength - 1 /\ ReplyLen < asked
          BY <1>1, <1>3, <3>2, <4>1 DEF ShortReply, MaxLength, LastByteReceived
        <4> QED BY <4>2, ShortMeansEnd
      <3> QED BY <3>1, <3>2
    <2>3. Held \subseteq Begin .. ReplyAt + ReplyLen - 1
      BY <1>1, <1>3, <2>2 DEF Held, Begin, Smaller, IInv
    <2>4. Following'
      BY <1>2, <1>3, <2>1 DEF Following
    <2> QED BY <1>2, <2>1, <2>3, <2>4, NoGap DEF IInv
  <1> QED BY <1>4, <1>5

LEMMA NextKeeps == IInv /\ [Next]_vars => IInv'
  <1>1. ASSUME IInv, UNCHANGED vars PROVE IInv'
    BY <1>1 DEF vars, given, IInv, Following, Nothing, Unknown, Held, Begin, Smaller, Byte
  <1> QED BY <1>1, KnownKeeps, UnknownKeeps DEF Next

(* Each block starts with the first byte not yet received and none is asked   *)
(* for past the length wanted, for every telegram and every request; but for  *)
(* the one byte asked for where an EMS+ telegram is unknown (see Contiguous). *)
THEOREM BlocksFollow == Spec => []Contiguous
  <1>1. IInv => Contiguous
    BY DEF IInv, Following, Nothing, Contiguous
  <1> QED BY InitHolds, NextKeeps, <1>1, PTL DEF Spec

(* read_next_tx stops only when everything the device holds and that was      *)
(* asked for is there, for every telegram (see CompleteWhenDone).             *)
THEOREM ReadingIsComplete == Spec => []CompleteWhenDone
  <1>1. IInv => CompleteWhenDone
    BY DEF IInv, CompleteWhenDone
  <1> QED BY InitHolds, NextKeeps, <1>1, PTL DEF Spec
=============================================================================
