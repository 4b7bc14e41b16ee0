------------------------------- MODULE Codecs -------------------------------
(***************************************************************************)
(* The conversions of Codec, Fields and Frames at work: somebody types a   *)
(* string, and whatever it is, what one side encodes the other one reads.  *)
(* Beside it a handler answers a request.                                  *)
(***************************************************************************)
EXTENDS Response, Fields, Frames

CONSTANTS
    Char,       \* the characters that are typed
    MaxLen,     \* bound: how many
    Length      \* lengths of messages

ASSUME CodecAssumption ==
    /\ Char \subseteq Byte \ {0, CR, LF}
    /\ \A len \in Length \cup {MaxLen} : len \in Nat /\ len <= 2 ^ 30

VARIABLE input  \* what has been typed

vars == <<input, respVars>>

Init == input = <<>> /\ RespInit

\* Bound: strings are typed while there is no response.
Type(c) ==
    /\ RespInit /\ Len(input) < MaxLen
    /\ input' = Append(input, c)
    /\ UNCHANGED respVars

Answer == input = <<>> /\ RespNext /\ UNCHANGED input

Next == Answer \/ \E c \in Char : Type(c)

Spec == Init /\ [][Next]_vars

-----------------------------------------------------------------------------

\* Bit i of a sequence of numbers of the given width, from the first on.
Bit(s, width, i) == (s[(i \div width) + 1] \div (2 ^ ((width - 1) - (i % width)))) % 2

(***************************************************************************)
(* Base64Encode regroups the bits of its input by six, the last group      *)
(* filled up with zeros and the text with '=' to a multiple of four (RFC   *)
(* 4648: what the peer of a handshake expects), and Base64Decode gives the *)
(* input back.                                                             *)
(***************************************************************************)
Base64IsBits ==
    LET text == Base64Encode(input)
        bits == 8 * Len(input)
        digits == (bits + 5) \div 6
    IN  /\ Base64Decode(text) = input
        /\ Len(text) = 4 * ((Len(input) + 2) \div 3)
        /\ \A i \in DOMAIN text :
               IF i <= digits THEN text[i] \in Sextet ELSE text[i] = PAD
        /\ \A i \in 0..(6 * digits - 1) :
               Bit(text, 6, i) = IF i < bits THEN Bit(input, 8, i) ELSE 0

\* x as a browser encodes it, with the letters of its digits from letter on.
HexDigit(n, letter) == IF n < 10 THEN 48 + n ELSE (letter + n) - 10
EscapedChar(c, letter) ==
    IF c = SPACE THEN <<43>>
    ELSE IF c \in (48..57) \cup (65..90) \cup (97..122) THEN <<c>>
    ELSE <<37, HexDigit(c \div 16, letter), HexDigit(c % 16, letter)>>
Escaped(x, letter) ==
    LET from[i \in 1..(Len(x) + 1)] ==
            IF i > Len(x) THEN <<>> ELSE EscapedChar(x[i], letter) \o from[i + 1]
    IN  from[1]

f1 == <<97>>
f2 == <<97, 98>>

(***************************************************************************)
(* A handler gets the values that were entered into a form, whatever is in *)
(* them, wherever one field ends and the next begins.                      *)
(***************************************************************************)
FormsAreRead ==
    \A i \in 0..Len(input), letter \in {65, 97} :
        LET u == SubSeq(input, 1, i)
            v == SubSeq(input, i + 1, Len(input))
            form == f1 \o <<EQUALS>> \o Escaped(u, letter) \o <<AMPERSAND>>
                    \o f2 \o <<EQUALS>> \o Escaped(v, letter)
        IN  FormValue(form, f1) = u /\ FormValue(form, f2) = v

Trimmed(x) ==
    LET i == SelectInSeq(x, LAMBDA c : c # SPACE)
    IN  IF i = 0 THEN <<>> ELSE SubSeq(x, i, Len(x))

Line(field, value) == field \o <<COLON, SPACE>> \o value \o <<CR, LF>>

(***************************************************************************)
(* A handler gets the values of the header, without the spaces before and  *)
(* with the colons inside; the body does not get in between, as long as it *)
(* is of one line.                                                         *)
(***************************************************************************)
HeadersAreRead ==
    \A i \in 0..Len(input) :
        LET u == SubSeq(input, 1, i)
            v == SubSeq(input, i + 1, Len(input))
            rbuf == Line(u, v) \o Line(f1, u) \o Line(f2, v) \o <<CR, LF>>
                    \o f1 \o <<COLON>> \o v
        IN  HeaderValue(rbuf, f1) = Trimmed(u) /\ HeaderValue(rbuf, f2) = Trimmed(v)

\* A client's frame: what MakeFrame makes, masked with key.
key == <<255, 1, 37, 128>>
MaskedFrame(message) ==
    LET head == MakeHead(Len(message), 1)
    IN  [head EXCEPT ![2] = @ + 128] \o key
        \o [i \in DOMAIN message |-> Xor(message[i], key[((i - 1) % 4) + 1])]

(***************************************************************************)
(* Parse reads what MakeFrame writes, at every length at which the header  *)
(* changes its size; it takes a client's mask off; and of a frame that has *)
(* not arrived to the last byte it takes nothing.                          *)
(***************************************************************************)
FramesAreRead ==
    /\ \A len \in Length :
           LET head == MakeHead(len, 2)
           IN  /\ ParseHead(head) = [more |-> FALSE, fin |-> TRUE, opcode |-> 2,
                                     len |-> len, masked |-> FALSE, size |-> Len(head)]
               /\ \A n \in 0..(Len(head) - 1) : ParseHead(SubSeq(head, 1, n)) = MORE
    /\ \A frame \in {MakeFrame(input, 1), MaskedFrame(input)} :
           /\ ParsePayload(frame).msg = input
           /\ \A n \in 0..(Len(frame) - 1) : ParsePayload(SubSeq(frame, 1, n)) = MORE
=============================================================================
