----------------------------- MODULE VescPacket -----------------------------
(***************************************************************************)
(* The framing of the VESC Tool protocol (vesc_protocol/packet.c): what a  *)
(* frame is, and what the decoder says of the bytes it has.  A byte is a   *)
(* digit to the base Base, 256 in the code, and the checksum a function of *)
(* the payload that takes two of them.                                     *)
(***************************************************************************)
EXTENDS Integers, Sequences, FiniteSets, SequencesExt

CONSTANTS
    Base,       \* the number of bytes
    MaxPayload  \* VESC_PACKET_MAX_PL_LEN

ASSUME PacketAssumption ==
    /\ Base \in Nat /\ Base > 4
    /\ MaxPayload \in Nat /\ MaxPayload >= Base - 1 /\ MaxPayload < Base * Base - 1

Bytes == 0 .. Base - 1

\* VESC_PACKET_BUFFER_LEN.
BufferLen == MaxPayload + 8

\* The first byte of a frame is also the place of the payload in it; a long
\* frame has more bytes of length.
Starts == {2, 3, 4}
Stop   == 3

\* vesc_crc16, a byte at a time.
Crc[p \in Seq(Bytes)] ==
    IF p = <<>> THEN <<0, 1>>
    ELSE LET c == Crc[Front(p)]
         IN  <<(2 * c[1] + Last(p) + 1) % Base, (c[2] + Last(p)) % Base>>

\* vesc_packet_encode takes the shortest form; nothing is sent of a payload that
\* is empty or too long.
Form(n) ==
    CASE n < Base                      -> 2
      [] n >= Base /\ n < Base * Base  -> 3
      [] OTHER                         -> 4

Header(start, n) ==
    CASE start = 2 -> <<2, n>>
      [] start = 3 -> <<3, n \div Base, n % Base>>
      [] start = 4 -> <<4, n \div (Base * Base), (n \div Base) % Base, n % Base>>

Encoded(p) == Header(Form(Len(p)), Len(p)) \o p \o Crc[p] \o <<Stop>>

-----------------------------------------------------------------------------
(* try_decode.                                                             *)

Wrong    == [says |-> "wrong"]
Wait(n)  == [says |-> "wait", bytes |-> n]
Whole(n) == [says |-> "frame", size |-> n]

StatedLength(b) ==
    CASE b[1] = 2 -> b[2]
      [] b[1] = 3 -> b[2] * Base + b[3]
      [] b[1] = 4 -> (b[2] * Base + b[3]) * Base + b[4]

\* The least payload of each form: a short one has to use the short form.
Least(start) ==
    CASE start = 2 -> 1
      [] start = 3 -> Base - 1
      [] start = 4 -> Base * Base - 1

\* The longest form never fits.
Admissible(start, n) == n >= Least(start) /\ n <= MaxPayload

Payload(b) == SubSeq(b, b[1] + 1, b[1] + StatedLength(b))

Sound(b) ==
    LET last == b[1] + StatedLength(b) + 3
    IN  b[last] = Stop /\ SubSeq(b, last - 2, last - 1) = Crc[Payload(b)]

TryDecode(b) ==
    CASE b = <<>>             -> Wait(1)
      [] b # <<>> /\ b[1] \notin Starts -> Wrong
      [] b # <<>> /\ b[1] \in Starts /\ Len(b) < b[1] -> Wait(b[1] - Len(b))
      [] OTHER ->
           LET n    == StatedLength(b)
               size == n + b[1] + 3
           IN  IF ~Admissible(b[1], n) THEN Wrong
               ELSE IF Len(b) < size THEN Wait(size - Len(b))
               ELSE IF Sound(b) THEN Whole(size) ELSE Wrong

\* What the format makes of a whole stream, with no buffer and no memory: the
\* payloads of its frames from left to right, a byte skipped wherever none can
\* begin, up to a place where one may still come.
Requests[s \in Seq(Bytes)] ==
    LET r == TryDecode(s)
    IN  IF r.says = "wait" THEN <<>>
        ELSE IF r.says = "wrong" THEN Requests[Tail(s)]
        ELSE <<Payload(s)>> \o Requests[SubSeq(s, r.size + 1, Len(s))]
=============================================================================
