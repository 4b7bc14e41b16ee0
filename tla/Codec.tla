-------------------------------- MODULE Codec --------------------------------
(***************************************************************************)
(* The conversions of src/base64.cpp and src/util.cpp: base64 (used by the *)
(* WebSocket handshake) and the decoding of URL-encoded values (used by    *)
(* the request's forms).                                                   *)
(*                                                                         *)
(* A character is its code, 0 to 255, a string a sequence of them.  The    *)
(* base64 alphabet is written as the numbers its characters stand for,     *)
(* with PAD for '='.                                                       *)
(*                                                                         *)
(* Variants.  An uncommented definition right before a commented one is a  *)
(* mistake that could be made in the code the latter models; nothing uses  *)
(* it but the models it gives in the other's place.                        *)
(***************************************************************************)
EXTENDS Integers, SequencesExt

Byte == 0..255
Sextet == 0..63
PAD == 64

-----------------------------------------------------------------------------
(* base64.cpp                                                              *)

\* char_array_4 made of the bytes of char_array_3, and back.
Quad(a) ==
    << a[1] \div 4,
       ((a[1] % 4) * 16) + (a[2] \div 16),
       ((a[2] % 16) * 4) + (a[3] \div 64),
       a[3] % 64 >>

Triple(q) ==
    << ((q[1] * 4) + ((q[2] \div 16) % 4)) % 256,
       ((q[2] % 16) * 16) + ((q[3] \div 4) % 16),
       (((q[3] % 4) * 64) + q[4]) % 256 >>

EncodeTailShort(tail) ==
    IF tail = <<>> THEN <<>>
    ELSE LET q == Quad(tail \o <<0, 0>>)
         IN  [j \in 1..4 |-> IF j <= Len(tail) THEN q[j] ELSE PAD]
\* The one or two bytes that are left: padded with zeros, the characters that
\* hold none of them replaced by '='.
EncodeTail(tail) ==
    IF tail = <<>> THEN <<>>
    ELSE LET q == Quad(tail \o <<0, 0>>)
         IN  [j \in 1..4 |-> IF j <= Len(tail) + 1 THEN q[j] ELSE PAD]

\* The n-th group of size characters.
Group(s, n, size) == SubSeq(s, ((n - 1) * size) + 1, n * size)
Groups(s, size) == Len(s) \div size
Remainder(s, size) == SubSeq(s, (Groups(s, size) * size) + 1, Len(s))

Base64Encode(bytes) ==
    [i \in 1..(4 * Groups(bytes, 3)) |->
        Quad(Group(bytes, ((i - 1) \div 4) + 1, 3))[((i - 1) % 4) + 1]]
    \o EncodeTail(Remainder(bytes, 3))

\* What find('\0') gives for the characters that are missing at the end.
NPOS == 255

DecodeTail(tail) ==
    IF tail = <<>> THEN <<>>
    ELSE SubSeq(Triple(tail \o <<NPOS, NPOS, NPOS>>), 1, Len(tail) - 1)

\* Up to the first '=', or the first character outside the alphabet.
Base64Decode(string) ==
    LET stop == SelectInSeq(string, LAMBDA c : c \notin Sextet)
        s == IF stop = 0 THEN string ELSE SubSeq(string, 1, stop - 1)
    IN  [i \in 1..(3 * Groups(s, 4)) |->
            Triple(Group(s, ((i - 1) \div 3) + 1, 4))[((i - 1) % 3) + 1]]
        \o DecodeTail(Remainder(s, 4))

-----------------------------------------------------------------------------
(* util.cpp: URLDecode                                                     *)

IsXDigit(c) == c \in (48..57) \cup (65..70) \cup (97..102)

HtoiDigit(c) ==
    IF c \in 48..57 THEN c - 48
    ELSE IF c \in 65..90 THEN c - 55 ELSE c - 87
Htoi(c, d) == (HtoiDigit(c) * 16) + HtoiDigit(d)

\* At position i there is a '%' and two hexadecimal digits.
IsEscape(str, i) ==
    /\ str[i] = 37 /\ i + 2 <= Len(str)
    /\ IsXDigit(str[i + 1]) /\ IsXDigit(str[i + 2])

URLDecode(str) ==
    LET from[i \in 1..(Len(str) + 3)] ==
            IF i > Len(str) THEN <<>>
            ELSE IF IsEscape(str, i)
                 THEN <<Htoi(str[i + 1], str[i + 2])>> \o from[i + 3]
            ELSE <<IF str[i] = 43 THEN 32 ELSE str[i]>> \o from[i + 1]
    IN  from[1]
=============================================================================
