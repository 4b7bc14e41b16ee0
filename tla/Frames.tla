------------------------------- MODULE Frames -------------------------------
(***************************************************************************)
(* The format of a WebSocket frame: how MakeFrame writes one and how Parse *)
(* finds out whether rbuf_ begins with a whole one and takes it apart      *)
(* (src/websocket.cpp).  Bound: a frame is shorter than 2^31, so that the  *)
(* upper half of a length of eight bytes is zero.                          *)
(*                                                                         *)
(* Variants.  An uncommented definition right before a commented one is a  *)
(* mistake that could be made in the code the latter models; nothing uses  *)
(* it but the models it gives in the other's place.                        *)
(***************************************************************************)
EXTENDS Codec

\* n as a number of k bytes, the first the highest, and back.
BigEndian(n, k) ==
    [i \in 1..k |-> IF k - i > 3 THEN 0 ELSE (n \div (256 ^ (k - i))) % 256]
Number(bytes) ==
    LET number[i \in 0..Len(bytes)] ==
            IF i = 0 THEN 0 ELSE (number[i - 1] * 256) + bytes[i]
    IN  number[Len(bytes)]

\* The exclusive or of two bytes, bit by bit.
Xor(a, b) ==
    LET At(bit) == bit * (((a \div bit) + (b \div bit)) % 2)
    IN  At(1) + At(2) + At(4) + At(8) + At(16) + At(32) + At(64) + At(128)

LengthFieldLate(len) ==
    IF len <= 126 THEN <<len>>
    ELSE IF len < 65536 THEN <<126>> \o BigEndian(len, 2)
    ELSE <<127>> \o BigEndian(len, 8)
\* The length, in one byte, in two more or in eight more.
LengthField(len) ==
    IF len < 126 THEN <<len>>
    ELSE IF len < 65536 THEN <<126>> \o BigEndian(len, 2)
    ELSE <<127>> \o BigEndian(len, 8)

\* The header that MakeFrame puts before a message of length len.
MakeHead(len, opcode) == <<128 + opcode>> \o LengthField(len)

MakeFrame(message, opcode) == MakeHead(Len(message), opcode) \o message

-----------------------------------------------------------------------------

\* Parse leaves rbuf_ as it is, until more has arrived.
MORE == [more |-> TRUE]

LengthBytes(len0) == IF len0 = 126 THEN 2 ELSE IF len0 = 127 THEN 8 ELSE 0

HeadSizeUnmasked(data) == 2 + LengthBytes(data[2] % 128)
\* wsh.header_size.
HeadSize(data) ==
    2 + LengthBytes(data[2] % 128) + (IF data[2] >= 128 THEN 4 ELSE 0)

\* The header that data begins with.
ParseHead(data) ==
    IF Len(data) < 2 \/ Len(data) < HeadSize(data) THEN MORE
    ELSE LET len0 == data[2] % 128
         IN  [more |-> FALSE,
              fin |-> data[1] >= 128, opcode |-> data[1] % 16,
              len |-> IF len0 < 126 THEN len0
                      ELSE Number(SubSeq(data, 3, 2 + LengthBytes(len0))),
              masked |-> data[2] >= 128,
              size |-> HeadSize(data)]

\* The payload of the frame that data begins with, or MORE.
ParsePayload(data) ==
    LET wsh == ParseHead(data)
        masking_key == SubSeq(data, wsh.size - 3, wsh.size)
        raw == SubSeq(data, wsh.size + 1, wsh.size + wsh.len)
    IN  IF wsh.more THEN MORE
        ELSE IF Len(data) < wsh.size + wsh.len THEN MORE
        ELSE [more |-> FALSE,
              msg |-> IF ~wsh.masked THEN raw
                      ELSE [i \in 1..wsh.len |->
                               Xor(raw[i], masking_key[((i - 1) % 4) + 1])]]
=============================================================================
