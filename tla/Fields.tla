------------------------------- MODULE Fields -------------------------------
(***************************************************************************)
(* What a handler reads of its request: ParseHeader, ParseQueryString,     *)
(* ParsePostForm and their accessors (src/request.cpp).  A string is a     *)
(* sequence of character codes.  Bound: none of them is 0, where           *)
(* ParseHeader and ParseFormUrlencoded stop.                               *)
(*                                                                         *)
(* Variants.  An uncommented definition right before a commented one is a  *)
(* mistake that could be made in the code the latter models; nothing uses  *)
(* it but the models it gives in the other's place.                        *)
(***************************************************************************)
EXTENDS Codec, HeaderMap

CR == 13
LF == 10
SPACE == 32
AMPERSAND == 38
COLON == 58
EQUALS == 61

\* What the loops of ParseHeader and ParseFormUrlencoded keep.
Scan == [is_field |-> TRUE, field |-> <<>>, value |-> <<>>, map |-> <<>>]

-----------------------------------------------------------------------------
(* ParseFormUrlencoded.                                                    *)

StoreForm(s) ==
    IF s.field # <<>> /\ s.value # <<>>
    THEN Put(s.map, s.field, URLDecode(s.value)) ELSE s.map

Add(s, c) ==
    IF s.is_field THEN [s EXCEPT !.field = Append(@, c)]
    ELSE [s EXCEPT !.value = Append(@, c)]

FormCharOpen(s, c) ==
    IF c = EQUALS THEN [s EXCEPT !.is_field = FALSE]
    ELSE IF c = AMPERSAND
         THEN [s EXCEPT !.map = StoreForm(s), !.is_field = TRUE]
    ELSE Add(s, c)
\* One character of a form.
FormChar(s, c) ==
    IF c = EQUALS THEN [s EXCEPT !.is_field = FALSE]
    ELSE IF c = AMPERSAND THEN [Scan EXCEPT !.map = StoreForm(s)]
    ELSE Add(s, c)

\* s after the characters of str.
ScanForm(s, str) ==
    LET scan[i \in 0..Len(str)] ==
            IF i = 0 THEN s ELSE FormChar(scan[i - 1], str[i])
    IN  scan[Len(str)]

ParseFormUrlencoded(str) == StoreForm(ScanForm(Scan, str))

\* ParsePostForm and ParseQueryString, and their accessors.
FormValue(str, field) == Lookup(ParseFormUrlencoded(str), field)

-----------------------------------------------------------------------------
(* ParseHeader.                                                            *)

HeaderCharColon(s, c) ==
    IF c = COLON THEN [s EXCEPT !.is_field = FALSE]
    ELSE IF c = CR THEN s
    ELSE IF c = LF
         THEN [Scan EXCEPT !.map = IF s.field # <<>> /\ s.value # <<>>
                                   THEN Put(s.map, s.field, s.value) ELSE s.map]
    ELSE IF ~s.is_field /\ s.value = <<>> /\ c = SPACE THEN s
    ELSE Add(s, c)
\* One character of a header; the spaces before a value are dropped.
HeaderChar(s, c) ==
    IF c = COLON /\ s.is_field THEN [s EXCEPT !.is_field = FALSE]
    ELSE IF c = CR THEN s
    ELSE IF c = LF
         THEN [Scan EXCEPT !.map = IF s.field # <<>> /\ s.value # <<>>
                                   THEN Put(s.map, s.field, s.value) ELSE s.map]
    ELSE IF ~s.is_field /\ s.value = <<>> /\ c = SPACE THEN s
    ELSE Add(s, c)

ScanHeader(s, str) ==
    LET scan[i \in 0..Len(str)] ==
            IF i = 0 THEN s ELSE HeaderChar(scan[i - 1], str[i])
    IN  scan[Len(str)]

\* From the end of the request line to the end of rbuf_, body and all.
ParseHeader(rbuf) ==
    LET from == SelectInSeq(rbuf, LAMBDA c : c = LF)
    IN  ScanHeader(Scan, SubSeq(rbuf, from, Len(rbuf))).map

HeaderValue(rbuf, field) == Lookup(ParseHeader(rbuf), field)
=============================================================================
