----------------------------- MODULE CodecsProofs -----------------------------
(***************************************************************************)
(* What Codecs checks of a few short strings, for every string of every    *)
(* length that the assumption on MaxLen and Length allows.                 *)
(*                                                                         *)
(* The loops of the code are functions of a position here, each value      *)
(* given by the one before it (or, for what is read from the end, the one  *)
(* after).  So a string is read if there is a function that starts with    *)
(* what the loop starts with, follows it at every position and ends with   *)
(* what is claimed; such functions are put together from those of the      *)
(* parts of the string, and what they are at every position follows by     *)
(* induction over the position, on a set of numbers (UpTo).                *)
(***************************************************************************)
EXTENDS Codecs, WellFoundedInduction, TLAPS

-----------------------------------------------------------------------------
(* The response.  ResponseIsFramed compares the responses sent with the    *)
(* header as it is now.  It is inductive together with NoneYet: as long as *)
(* the handler may still change the header, no response with code 200 is   *)
(* out.                                                                    *)

IsSequence(s) == s \in Seq({s[i] : i \in DOMAIN s})

NoneYet == ~returned => \A i \in DOMAIN out : out[i].code # 200

FramedInv == IsSequence(out) /\ NoneYet /\ ResponseIsFramed

LEMMA Appended ==
    ASSUME NEW s, IsSequence(s), NEW r
    PROVE  /\ IsSequence(Append(s, r))
           /\ \A i \in DOMAIN Append(s, r) :
                  \/ Append(s, r)[i] = r
                  \/ i \in DOMAIN s /\ Append(s, r)[i] = s[i]
<1> DEFINE S == {s[i] : i \in DOMAIN s} \cup {r}
           t == Append(s, r)
<1>1. s \in Seq(S)
  <2>1. /\ Len(s) \in Nat /\ DOMAIN s = 1..Len(s)
        /\ s \in [1..Len(s) -> {s[i] : i \in DOMAIN s}]
    BY DEF IsSequence
  <2> QED
    BY <2>1
<1>2. /\ t \in Seq(S) /\ Len(t) = Len(s) + 1 /\ DOMAIN t = 1..Len(t)
      /\ DOMAIN s = 1..Len(s) /\ Len(s) \in Nat
      /\ \A i \in 1..Len(s) : t[i] = s[i]
      /\ t[Len(s) + 1] = r
  BY <1>1
<1> HIDE DEF t
<1>3. IsSequence(t)
  <2>1. t \in [1..Len(t) -> {t[i] : i \in DOMAIN t}] /\ Len(t) \in Nat
    BY <1>2
  <2> QED
    BY <2>1 DEF IsSequence
<1>4. \A i \in DOMAIN t : t[i] = r \/ (i \in DOMAIN s /\ t[i] = s[i])
  BY <1>2
<1> QED
  BY <1>3, <1>4 DEF t

-----------------------------------------------------------------------------
(* The two ways to send a response.                                        *)

\* The header matters for a 200 only.
LEMMA FramedWhatever ==
    ASSUME NEW r, NEW m, NEW n, r.code # 200, FramedAs(r, m)
    PROVE  FramedAs(r, n)
BY DEF FramedAs

LEMMA DefaultFields ==
    /\ DOMAIN Default = {"Server", "Date", "Content-Type"}
    /\ "Content-Length" \notin DOMAIN Default /\ "Connection" \notin DOMAIN Default
BY DEF Default

LEMMA ErrorIsFramed ==
    ASSUME NEW code \in DOMAIN Pages, NEW m, NEW r,
           r = [code |-> code, length |-> Pages[code], head |-> ErrorHeader(code)]
    PROVE  r.code # 200 /\ FramedAs(r, m)
<1>1. code \in {400, 403, 404, 500} /\ Pages[400] = 122 /\ Pages[403] = 118
  BY DEF Pages
<1>2. r.code = code /\ r.length = Pages[code] /\ r.head = ErrorHeader(code)
  OBVIOUS
<1>3. /\ DOMAIN ErrorHeader(code) = {"Content-Length", "Connection"} \cup DOMAIN Default
      /\ ErrorHeader(code)["Content-Length"] = <<PageAnnounced(code)>>
      /\ ErrorHeader(code)["Connection"] = <<"close">>
  BY DEF ErrorHeader
<1>4. PageAnnounced(code) = IF code = 400 THEN Pages[code] - 4 ELSE Pages[code]
  BY <1>1 DEF PageAnnounced
<1>5. r.code # 200
  BY <1>1, <1>2
<1> QED
  BY <1>2, <1>3, <1>4, <1>5 DEF FramedAs

LEMMA FlushIsFramed ==
    ASSUME NEW m, NEW n, NEW r,
           r = [code |-> 200, length |-> n, head |-> MakeHeader(Framed(m, n))]
    PROVE  FramedAs(r, Framed(m, n))
<1> DEFINE h == Framed(m, n)
<1>1. /\ "Content-Length" \in DOMAIN h /\ h["Content-Length"] = <<n>>
      /\ "Connection" \in DOMAIN h /\ h["Connection"] = <<"close">>
  BY DEF Framed, Put
<1>2. r.code = 200 /\ r.length = n /\ r.head = MakeHeader(h)
  OBVIOUS
<1> HIDE DEF h
<1>3. /\ DOMAIN MakeHeader(h) = DOMAIN h \cup DOMAIN Default
      /\ \A f \in DOMAIN h \cup DOMAIN Default :
             MakeHeader(h)[f] = IF f \in DOMAIN h THEN h[f] ELSE <<Default[f]>>
  BY DEF MakeHeader
<1>4. \A f : Lookup(MakeHeader(h), f) =
                 IF f \in DOMAIN h \/ f \notin DOMAIN Default
                 THEN Lookup(h, f) ELSE <<Default[f]>>
  BY <1>3 DEF Lookup
<1>5. /\ r.head["Content-Length"] = <<n>> /\ r.head["Connection"] = <<"close">>
      /\ DOMAIN Default \subseteq DOMAIN r.head
  <2>1. /\ MakeHeader(h)["Content-Length"] = h["Content-Length"]
        /\ MakeHeader(h)["Connection"] = h["Connection"]
        /\ DOMAIN Default \subseteq DOMAIN MakeHeader(h)
    BY <1>1, <1>3, Zenon
  <2> QED
    BY <1>1, <1>2, <2>1, Zenon
<1>6. (IF r.code = 400 THEN r.length - 4 ELSE r.length) = n
  BY <1>2
<1> QED
  BY <1>2, <1>4, <1>5, <1>6 DEF FramedAs, h

-----------------------------------------------------------------------------

LEMMA InitFramed == RespInit => FramedInv
BY DEF RespInit, FramedInv, IsSequence, NoneYet, ResponseIsFramed

\* Until the handler returns, the header is free to change.
LEMMA HeaderChanges ==
    ASSUME FramedInv, ~returned, UNCHANGED <<out, returned>>
    PROVE  FramedInv'
<1>1. \A i \in DOMAIN out : FramedAs(out[i], header_map_')
  BY FramedWhatever DEF FramedInv, NoneYet, ResponseIsFramed
<1> QED
  BY <1>1 DEF FramedInv, IsSequence, NoneYet, ResponseIsFramed

LEMMA ErrorFrames ==
    ASSUME FramedInv, NEW code \in DOMAIN Pages, WriteErrorMessage(code)
    PROVE  FramedInv'
<1> DEFINE r == [code |-> code, length |-> Pages[code], head |-> ErrorHeader(code)]
<1>1. out' = Append(out, r) /\ header_map_' = header_map_ /\ returned' = returned
  BY DEF WriteErrorMessage
<1>2. r.code # 200 /\ FramedAs(r, header_map_)
  BY ErrorIsFramed
<1> HIDE DEF r
<1>3. /\ IsSequence(out')
      /\ \A i \in DOMAIN out' : out'[i] = r \/ (i \in DOMAIN out /\ out'[i] = out[i])
  BY <1>1, Appended DEF FramedInv
<1> QED
  BY <1>1, <1>2, <1>3 DEF FramedInv, NoneYet, ResponseIsFramed

LEMMA FlushFrames ==
    ASSUME FramedInv, Flush
    PROVE  FramedInv'
<1>1. CASE wbuf_ = 0
  BY <1>1 DEF Flush, FramedInv, IsSequence, NoneYet, ResponseIsFramed
<1>2. CASE wbuf_ # 0
  <2> DEFINE h == Framed(header_map_, wbuf_)
             r == [code |-> 200, length |-> wbuf_, head |-> MakeHeader(h)]
  <2>1. /\ out' = Append(out, r) /\ header_map_' = h
        /\ ~returned /\ returned' = TRUE
    BY <1>2 DEF Flush
  <2>2. FramedAs(r, h)
    BY FlushIsFramed
  <2> HIDE DEF r, h
  <2>3. /\ IsSequence(out')
        /\ \A i \in DOMAIN out' : out'[i] = r \/ (i \in DOMAIN out /\ out'[i] = out[i])
    BY <2>1, Appended DEF FramedInv
  <2>4. \A i \in DOMAIN out : FramedAs(out[i], h)
    BY <2>1, FramedWhatever DEF FramedInv, NoneYet, ResponseIsFramed
  <2> QED
    BY <2>1, <2>2, <2>3, <2>4 DEF FramedInv, NoneYet, ResponseIsFramed
<1> QED
  BY <1>1, <1>2

LEMMA NextFramed == FramedInv /\ [RespNext]_respVars => FramedInv'
<1> SUFFICES ASSUME FramedInv, [RespNext]_respVars PROVE FramedInv'
  OBVIOUS
<1>1. ASSUME NEW f \in Field, NEW v \in Value, SetHeader(f, v) \/ AddHeader(f, v)
      PROVE  FramedInv'
  BY <1>1, HeaderChanges DEF SetHeader, AddHeader
<1>2. ASSUME NEW f \in Field, DelHeader(f) PROVE FramedInv'
  BY <1>2, HeaderChanges DEF DelHeader
<1>3. CASE WriteString
  BY <1>3, HeaderChanges DEF WriteString
<1>4. ASSUME NEW code \in DOMAIN Pages, WriteErrorMessage(code) PROVE FramedInv'
  BY <1>4, ErrorFrames
<1>5. CASE Flush
  BY <1>5, FlushFrames
<1>6. CASE Reset
  BY <1>6 DEF Reset, FramedInv, IsSequence, NoneYet, ResponseIsFramed
<1>7. CASE UNCHANGED respVars
  BY <1>7 DEF respVars, FramedInv, IsSequence, NoneYet, ResponseIsFramed
<1> QED
  BY <1>1, <1>2, <1>3, <1>4, <1>5, <1>6, <1>7 DEF RespNext

\* Each response announces the length of its body once and the close after it,
\* and a 200 carries every other field as the handler left it, or its default:
\* for any fields, values and number of writes.
THEOREM ResponsesAreFramed == RespSpec => []ResponseIsFramed
<1>1. FramedInv => ResponseIsFramed
  BY DEF FramedInv
<1> QED
  BY InitFramed, NextFramed, <1>1, PTL DEF RespSpec

\* Induction up to N, over a set of numbers.
LEMMA UpTo ==
    ASSUME NEW N \in Nat, NEW G, 0 \in G, \A n \in 1..N : n - 1 \in G => n \in G
    PROVE  \A n \in 0..N : n \in G
<1> DEFINE T == {n \in 0..N : n \notin G}
<1> SUFFICES ASSUME T # {} PROVE FALSE
  OBVIOUS
<1>1. T \subseteq Nat
  OBVIOUS
<1>2. PICK x \in T : \A y \in T : <<y, x>> \notin OpToRel(<, Nat)
  BY <1>1, NatLessThanWellFounded, WFMin, Zenon
<1>3. x \in 1..N /\ x - 1 \in 0..N /\ x - 1 < x /\ x - 1 \in Nat /\ x \in Nat
  <2>1. x \in 0..N /\ x # 0
    OBVIOUS
  <2> QED
    BY <2>1
<1>4. <<x - 1, x>> \in OpToRel(<, Nat)
  BY <1>3, Zenon DEF OpToRel
<1>5. x - 1 \in G
  BY <1>2, <1>3, <1>4
<1> QED
  BY <1>3, <1>5

-----------------------------------------------------------------------------
(* What the loops of ParseHeader and ParseFormUrlencoded make of a string. *)

\* A character of a header, or of a form.
ParseChar(kind, s, c) == IF kind = "header" THEN HeaderChar(s, c) ELSE FormChar(s, c)

\* g is what is kept after each character of str.
Steps(kind, str, g) ==
    \A i \in 1..Len(str) : g[i] = ParseChar(kind, g[i - 1], str[i])

\* str leads from s to t.
Scans(kind, s, str, t) ==
    \E g : Steps(kind, str, g) /\ g[0] = s /\ g[Len(str)] = t

\* Such a function is the one that ScanForm defines, and the next ScanHeader.
LEMMA ScanFormIs ==
    ASSUME NEW str \in Seq(Byte), NEW s, NEW t, Scans("form", s, str, t)
    PROVE  ScanForm(s, str) = t
<1> DEFINE F(f) == [i \in 0..Len(str) |->
                       IF i = 0 THEN s ELSE FormChar(f[i - 1], str[i])]
           scan == CHOOSE f : f = F(f)
<1>1. PICK g : Steps("form", str, g) /\ g[0] = s /\ g[Len(str)] = t
  BY DEF Scans
<1>2. \A i \in 1..Len(str) : g[i] = FormChar(g[i - 1], str[i])
  BY <1>1 DEF Steps, ParseChar
<1> DEFINE h == [i \in 0..Len(str) |-> g[i]]
<1>3. h = F(h)
  <2>1. \A i \in 0..Len(str) : i # 0 => i \in 1..Len(str) /\ i - 1 \in 0..Len(str)
    OBVIOUS
  <2>2. \A i \in 0..Len(str) : g[i] = IF i = 0 THEN s ELSE FormChar(h[i - 1], str[i])
    BY <1>1, <1>2, <2>1
  <2> QED
    BY <2>2
<1>4. scan = F(scan)
  BY <1>3
<1> HIDE DEF scan, h
<1> DEFINE G == {i \in 0..Len(str) : scan[i] = g[i]}
<1>5. Len(str) \in Nat
  OBVIOUS
<1>6. 0 \in G
  BY <1>1, <1>4
<1>7. ASSUME NEW i \in 1..Len(str), i - 1 \in G PROVE i \in G
  BY <1>2, <1>4, <1>7
<1>8. \A i \in 0..Len(str) : i \in G
  <2> HIDE DEF G
  <2> QED
    BY <1>5, <1>6, <1>7, UpTo
<1> QED
  BY <1>1, <1>5, <1>8 DEF ScanForm, scan

LEMMA ScanHeaderIs ==
    ASSUME NEW str \in Seq(Byte), NEW s, NEW t, Scans("header", s, str, t)
    PROVE  ScanHeader(s, str) = t
<1> DEFINE F(f) == [i \in 0..Len(str) |->
                       IF i = 0 THEN s ELSE HeaderChar(f[i - 1], str[i])]
           scan == CHOOSE f : f = F(f)
<1>1. PICK g : Steps("header", str, g) /\ g[0] = s /\ g[Len(str)] = t
  BY DEF Scans
<1>2. \A i \in 1..Len(str) : g[i] = HeaderChar(g[i - 1], str[i])
  BY <1>1 DEF Steps, ParseChar
<1> DEFINE h == [i \in 0..Len(str) |-> g[i]]
<1>3. h = F(h)
  <2>1. \A i \in 0..Len(str) : i # 0 => i \in 1..Len(str) /\ i - 1 \in 0..Len(str)
    OBVIOUS
  <2>2. \A i \in 0..Len(str) : g[i] = IF i = 0 THEN s ELSE HeaderChar(h[i - 1], str[i])
    BY <1>1, <1>2, <2>1
  <2> QED
    BY <2>2
<1>4. scan = F(scan)
  BY <1>3
<1> HIDE DEF scan, h
<1> DEFINE G == {i \in 0..Len(str) : scan[i] = g[i]}
<1>5. Len(str) \in Nat
  OBVIOUS
<1>6. 0 \in G
  BY <1>1, <1>4
<1>7. ASSUME NEW i \in 1..Len(str), i - 1 \in G PROVE i \in G
  BY <1>2, <1>4, <1>7
<1>8. \A i \in 0..Len(str) : i \in G
  <2> HIDE DEF G
  <2> QED
    BY <1>5, <1>6, <1>7, UpTo
<1> QED
  BY <1>1, <1>5, <1>8 DEF ScanHeader, scan

\* A string of one character, and two strings one after the other.
LEMMA ScansOne ==
    ASSUME NEW kind, NEW s, NEW c
    PROVE  Scans(kind, s, <<c>>, ParseChar(kind, s, c))
<1> DEFINE g == [i \in 0..1 |-> IF i = 0 THEN s ELSE ParseChar(kind, s, c)]
<1>1. g[0] = s /\ g[1] = ParseChar(kind, s, c)
  OBVIOUS
<1> HIDE DEF g
<1>2. Steps(kind, <<c>>, g)
  BY <1>1 DEF Steps
<1> QED
  BY <1>1, <1>2 DEF Scans

LEMMA ScansBoth ==
    ASSUME NEW kind, NEW x \in Seq(Byte), NEW y \in Seq(Byte), NEW s, NEW t, NEW r,
           Scans(kind, s, x, t), Scans(kind, t, y, r)
    PROVE  Scans(kind, s, x \o y, r)
<1>1. PICK g : Steps(kind, x, g) /\ g[0] = s /\ g[Len(x)] = t
  BY DEF Scans
<1>2. PICK h : Steps(kind, y, h) /\ h[0] = t /\ h[Len(y)] = r
  BY DEF Scans
<1> DEFINE N == Len(x) + Len(y)
           f == [i \in 0..N |-> IF i <= Len(x) THEN g[i] ELSE h[i - Len(x)]]
<1>3. /\ Len(x) \in Nat /\ Len(y) \in Nat /\ x \o y \in Seq(Byte) /\ Len(x \o y) = N
      /\ \A i \in 1..N : (x \o y)[i] = IF i <= Len(x) THEN x[i] ELSE y[i - Len(x)]
  OBVIOUS
<1>4. f[0] = s
  BY <1>1, <1>3
<1>5. f[N] = r
  BY <1>1, <1>2, <1>3
<1>6. \A i \in 0..N : f[i] = IF i <= Len(x) THEN g[i] ELSE h[i - Len(x)]
  OBVIOUS
<1> HIDE DEF f
<1>7. ASSUME NEW i \in 1..N PROVE f[i] = ParseChar(kind, f[i - 1], (x \o y)[i])
  <2>1. CASE i <= Len(x)
    <3>1. i \in 1..Len(x) /\ i - 1 \in 0..N /\ i - 1 <= Len(x) /\ i \in 0..N
      BY <1>3, <2>1
    <3>2. g[i] = ParseChar(kind, g[i - 1], x[i])
      BY <1>1, <3>1 DEF Steps
    <3> QED
      BY <1>3, <1>6, <2>1, <3>1, <3>2
  <2>2. CASE i = Len(x) + 1
    <3>1. 1 \in 1..Len(y) /\ i - 1 = Len(x) /\ i - 1 \in 0..N /\ i \in 0..N /\ ~(i <= Len(x))
          /\ i - Len(x) = 1
      BY <1>3, <2>2
    <3>2. h[1] = ParseChar(kind, h[1 - 1], y[1])
      BY <1>2, <3>1 DEF Steps
    <3>3. f[i - 1] = t
      BY <1>1, <1>3, <1>6, <3>1
    <3>4. f[i] = h[1] /\ (x \o y)[i] = y[1] /\ h[1 - 1] = t
      BY <1>2, <1>3, <1>6, <3>1
    <3> QED
      BY <3>2, <3>3, <3>4
  <2>3. CASE i > Len(x) + 1
    <3>1. i - Len(x) \in 1..Len(y) /\ i - 1 \in 0..N /\ i \in 0..N /\ ~(i <= Len(x))
          /\ ~(i - 1 <= Len(x)) /\ (i - 1) - Len(x) = (i - Len(x)) - 1
      BY <1>3, <2>3
    <3>2. h[i - Len(x)] = ParseChar(kind, h[(i - Len(x)) - 1], y[i - Len(x)])
      BY <1>2, <3>1 DEF Steps
    <3> QED
      BY <1>3, <1>6, <3>1, <3>2
  <2> QED
    BY <1>3, <2>1, <2>2, <2>3
<1>8. Steps(kind, x \o y, f)
  BY <1>3, <1>7 DEF Steps
<1> QED
  BY <1>3, <1>4, <1>5, <1>8 DEF Scans
-----------------------------------------------------------------------------

\* In a name, and in a value.
InField(field, value, map) ==
    [is_field |-> TRUE, field |-> field, value |-> value, map |-> map]
InValue(field, value, map) ==
    [is_field |-> FALSE, field |-> field, value |-> value, map |-> map]

\* What the two make of one character, as long as it is in the field or in
\* the value.
LEMMA ScanIs == Scan = InField(<<>>, <<>>, <<>>)
BY DEF Scan, InField

LEMMA PartsOf ==
    ASSUME NEW f, NEW v, NEW m
    PROVE  /\ InField(f, v, m).is_field /\ ~InValue(f, v, m).is_field
           /\ InField(f, v, m).field = f /\ InValue(f, v, m).field = f
           /\ InField(f, v, m).value = v /\ InValue(f, v, m).value = v
           /\ InField(f, v, m).map = m /\ InValue(f, v, m).map = m
BY DEF InField, InValue

LEMMA AddIs ==
    ASSUME NEW f, NEW v, NEW m, NEW c
    PROVE  /\ Add(InField(f, v, m), c) = InField(Append(f, c), v, m)
           /\ Add(InValue(f, v, m), c) = InValue(f, Append(v, c), m)
BY DEF Add, InField, InValue

LEMMA TurnsToValue ==
    ASSUME NEW f, NEW v, NEW m
    PROVE  /\ [InField(f, v, m) EXCEPT !.is_field = FALSE] = InValue(f, v, m)
           /\ [InValue(f, v, m) EXCEPT !.is_field = FALSE] = InValue(f, v, m)
<1>1. PICK no : no = FALSE
  OBVIOUS
<1>2. ASSUME NEW yes, NEW s,
             s = [is_field |-> yes, field |-> f, value |-> v, map |-> m]
      PROVE  [s EXCEPT !.is_field = FALSE]
                 = [is_field |-> FALSE, field |-> f, value |-> v, map |-> m]
  <2>1. [s EXCEPT !.is_field = no] = [is_field |-> no, field |-> f, value |-> v, map |-> m]
    BY <1>2
  <2>2. [s EXCEPT !.is_field = FALSE] = [s EXCEPT !.is_field = no]
    BY <1>1
  <2>3. [is_field |-> FALSE, field |-> f, value |-> v, map |-> m]
            = [is_field |-> no, field |-> f, value |-> v, map |-> m]
    BY <1>1
  <2> QED
    BY <2>1, <2>2, <2>3, Zenon
<1> QED
  BY <1>2, Zenon DEF InField, InValue

LEMMA StartsOver ==
    ASSUME NEW m PROVE [Scan EXCEPT !.map = m] = InField(<<>>, <<>>, m)
<1>1. PICK yes : yes = TRUE
  OBVIOUS
<1>2. Scan = [is_field |-> yes, field |-> <<>>, value |-> <<>>, map |-> <<>>]
  BY <1>1 DEF Scan
<1>3. [Scan EXCEPT !.map = m] = [is_field |-> yes, field |-> <<>>, value |-> <<>>, map |-> m]
  BY <1>2
<1>4. [is_field |-> TRUE, field |-> <<>>, value |-> <<>>, map |-> m]
          = [is_field |-> yes, field |-> <<>>, value |-> <<>>, map |-> m]
  BY <1>1
<1> QED
  BY <1>3, <1>4, Zenon DEF InField

LEMMA FormMarks ==
    ASSUME NEW f, NEW v, NEW m
    PROVE  /\ FormChar(InField(f, v, m), EQUALS) = InValue(f, v, m)
           /\ FormChar(InValue(f, v, m), AMPERSAND) =
                  InField(<<>>, <<>>, StoreForm(InValue(f, v, m)))
<1>1. EQUALS # AMPERSAND
  BY DEF EQUALS, AMPERSAND
<1>2. FormChar(InField(f, v, m), EQUALS) = InValue(f, v, m)
  BY TurnsToValue, Zenon DEF FormChar
<1>3. FormChar(InValue(f, v, m), AMPERSAND) =
          InField(<<>>, <<>>, StoreForm(InValue(f, v, m)))
  BY <1>1, StartsOver, Zenon DEF FormChar
<1> QED
  BY <1>2, <1>3

LEMMA FormCharIs ==
    ASSUME NEW f, NEW v, NEW m, NEW c, c \notin {EQUALS, AMPERSAND}
    PROVE  /\ FormChar(InField(f, v, m), c) = InField(Append(f, c), v, m)
           /\ FormChar(InValue(f, v, m), c) = InValue(f, Append(v, c), m)
<1>1. c # EQUALS /\ c # AMPERSAND
  OBVIOUS
<1>2. \A s : FormChar(s, c) = Add(s, c)
  BY <1>1, Zenon DEF FormChar
<1> QED
  BY <1>2, AddIs

LEMMA StoreFormIs ==
    ASSUME NEW f, NEW v, NEW m
    PROVE  StoreForm(InValue(f, v, m)) =
               IF f # <<>> /\ v # <<>> THEN Put(m, f, URLDecode(v)) ELSE m
<1>1. /\ InValue(f, v, m).field = f /\ InValue(f, v, m).value = v
      /\ InValue(f, v, m).map = m
  BY PartsOf
<1> QED
  BY <1>1 DEF StoreForm

\* The map with a line of the header that has ended.
Stored(map, field, value) ==
    IF field # <<>> /\ value # <<>> THEN Put(map, field, value) ELSE map

LEMMA HeaderMarks ==
    ASSUME NEW f, NEW v, NEW m
    PROVE  /\ HeaderChar(InField(f, v, m), COLON) = InValue(f, v, m)
           /\ HeaderChar(InField(f, v, m), CR) = InField(f, v, m)
           /\ HeaderChar(InValue(f, v, m), CR) = InValue(f, v, m)
           /\ HeaderChar(InField(f, v, m), LF) = InField(<<>>, <<>>, Stored(m, f, v))
           /\ HeaderChar(InValue(f, v, m), LF) = InField(<<>>, <<>>, Stored(m, f, v))
<1>1. COLON # CR /\ COLON # LF /\ CR # LF
  BY DEF COLON, CR, LF
<1>2. /\ InField(f, v, m).is_field
      /\ InField(f, v, m).field = f /\ InValue(f, v, m).field = f
      /\ InField(f, v, m).value = v /\ InValue(f, v, m).value = v
      /\ InField(f, v, m).map = m /\ InValue(f, v, m).map = m
  BY PartsOf
<1>3. HeaderChar(InField(f, v, m), COLON) = InValue(f, v, m)
  <2>1. [InField(f, v, m) EXCEPT !.is_field = FALSE] = InValue(f, v, m)
    BY TurnsToValue, Zenon
  <2> QED
    BY <1>2, <2>1, Zenon DEF HeaderChar
<1>4. \A s : HeaderChar(s, CR) = s
  BY <1>1, Zenon DEF HeaderChar
<1>5. /\ HeaderChar(InField(f, v, m), LF) = InField(<<>>, <<>>, Stored(m, f, v))
      /\ HeaderChar(InValue(f, v, m), LF) = InField(<<>>, <<>>, Stored(m, f, v))
  <2>1. [Scan EXCEPT !.map = Stored(m, f, v)] = InField(<<>>, <<>>, Stored(m, f, v))
    BY StartsOver, Zenon
  <2>2. /\ HeaderChar(InField(f, v, m), LF) = [Scan EXCEPT !.map = Stored(m, f, v)]
        /\ HeaderChar(InValue(f, v, m), LF) = [Scan EXCEPT !.map = Stored(m, f, v)]
    BY <1>1, <1>2, Zenon DEF HeaderChar, Stored
  <2> QED
    BY <2>1, <2>2, Zenon
<1> QED
  BY <1>3, <1>4, <1>5

LEMMA HeaderCharIs ==
    ASSUME NEW f, NEW v, NEW m, NEW c, c \notin {CR, LF}
    PROVE  /\ c # COLON => HeaderChar(InField(f, v, m), c) = InField(Append(f, c), v, m)
           /\ HeaderChar(InValue(f, v, m), c) =
                  IF v = <<>> /\ c = SPACE THEN InValue(f, v, m)
                  ELSE InValue(f, Append(v, c), m)
<1>1. c # CR /\ c # LF
  OBVIOUS
<1>2. InField(f, v, m).is_field /\ ~InValue(f, v, m).is_field /\ InValue(f, v, m).value = v
  BY PartsOf
<1>3. ASSUME NEW s, s.is_field, c # COLON PROVE HeaderChar(s, c) = Add(s, c)
  BY <1>1, <1>3, Zenon DEF HeaderChar
<1>4. ASSUME NEW s, ~s.is_field
      PROVE  HeaderChar(s, c) = IF s.value = <<>> /\ c = SPACE THEN s ELSE Add(s, c)
  BY <1>1, <1>4, Zenon DEF HeaderChar
<1> QED
  BY <1>2, <1>3, <1>4, AddIs

-----------------------------------------------------------------------------
(* Names and values, from their first character to the last.               *)

\* Two strings of the same characters are the same.
LEMMA SameString ==
    \A x, y \in Seq(Byte) :
        Len(x) = Len(y) /\ (\A i \in 1..Len(x) : x[i] = y[i]) => x = y
OBVIOUS

LEMMA Beginnings ==
    ASSUME NEW x \in Seq(Byte)
    PROVE  /\ SubSeq(x, 1, 0) = <<>> /\ SubSeq(x, 1, Len(x)) = x
           /\ \A i \in 1..Len(x) :
                  /\ SubSeq(x, 1, i) = Append(SubSeq(x, 1, i - 1), x[i])
                  /\ SubSeq(x, 1, i - 1) \in Seq(Byte) /\ x[i] \in Byte
<1>1. ASSUME NEW i \in 1..Len(x)
      PROVE  SubSeq(x, 1, i) = Append(SubSeq(x, 1, i - 1), x[i])
  OBVIOUS
<1> QED
  BY <1>1

\* The name of a field is kept as it is, and the value of a form.
LEMMA FieldScanned ==
    ASSUME NEW kind, NEW v, NEW m, NEW x \in Seq(Byte),
           \A i \in 1..Len(x) : x[i] \notin {EQUALS, AMPERSAND, CR, LF, COLON}
    PROVE  Scans(kind, InField(<<>>, v, m), x, InField(x, v, m))
<1> DEFINE g == [i \in 0..Len(x) |-> InField(SubSeq(x, 1, i), v, m)]
<1>1. /\ g[0] = InField(<<>>, v, m) /\ g[Len(x)] = InField(x, v, m)
      /\ \A i \in 0..Len(x) : g[i] = InField(SubSeq(x, 1, i), v, m)
  BY Beginnings
<1> HIDE DEF g
<1>2. ASSUME NEW i \in 1..Len(x) PROVE g[i] = ParseChar(kind, g[i - 1], x[i])
  <2>1. i \in 0..Len(x) /\ i - 1 \in 0..Len(x)
    OBVIOUS
  <2>2. g[i - 1] = InField(SubSeq(x, 1, i - 1), v, m)
    BY <1>1, <2>1
  <2>3. g[i] = InField(Append(SubSeq(x, 1, i - 1), x[i]), v, m)
    BY <1>1, <2>1, Beginnings
  <2>4. /\ x[i] \notin {EQUALS, AMPERSAND} /\ x[i] \notin {CR, LF} /\ x[i] # COLON
    OBVIOUS
  <2>5. HeaderChar(g[i - 1], x[i]) = g[i]
    BY <2>2, <2>3, <2>4, HeaderCharIs
  <2>6. FormChar(g[i - 1], x[i]) = g[i]
    BY <2>2, <2>3, <2>4, FormCharIs
  <2> QED
    BY <2>5, <2>6 DEF ParseChar
<1>3. Steps(kind, x, g)
  BY <1>2 DEF Steps
<1> QED
  BY <1>1, <1>3 DEF Scans

LEMMA FormValueScanned ==
    ASSUME NEW f, NEW m, NEW x \in Seq(Byte),
           \A i \in 1..Len(x) : x[i] \notin {EQUALS, AMPERSAND}
    PROVE  Scans("form", InValue(f, <<>>, m), x, InValue(f, x, m))
<1> DEFINE g == [i \in 0..Len(x) |-> InValue(f, SubSeq(x, 1, i), m)]
<1>1. /\ g[0] = InValue(f, <<>>, m) /\ g[Len(x)] = InValue(f, x, m)
      /\ \A i \in 0..Len(x) : g[i] = InValue(f, SubSeq(x, 1, i), m)
  BY Beginnings
<1> HIDE DEF g
<1>2. ASSUME NEW i \in 1..Len(x) PROVE g[i] = ParseChar("form", g[i - 1], x[i])
  <2>1. i \in 0..Len(x) /\ i - 1 \in 0..Len(x)
    OBVIOUS
  <2>2. g[i - 1] = InValue(f, SubSeq(x, 1, i - 1), m)
    BY <1>1, <2>1
  <2>3. g[i] = InValue(f, Append(SubSeq(x, 1, i - 1), x[i]), m)
    BY <1>1, <2>1, Beginnings
  <2>4. FormChar(g[i - 1], x[i]) = g[i]
    BY <2>2, <2>3, FormCharIs
  <2> QED
    BY <2>4 DEF ParseChar
<1>3. Steps("form", x, g)
  BY <1>2 DEF Steps
<1> QED
  BY <1>1, <1>3 DEF Scans

\* Trimmed, one character after the other.
\* The value of a header is what Trimmed says, character by character.
LEMMA TrimmedOf ==
    ASSUME NEW x \in Seq(Byte)
    PROVE  /\ (\A i \in 1..Len(x) : x[i] = SPACE) => Trimmed(x) = <<>>
           /\ \A k \in 1..Len(x) :
                  x[k] # SPACE /\ (\A i \in 1..(k - 1) : x[i] = SPACE) =>
                      Trimmed(x) = SubSeq(x, k, Len(x))
<1> DEFINE I == {i \in 1..Len(x) : x[i] # SPACE}
<1>1. Trimmed(x) = IF (IF I # {} THEN Min(I) ELSE 0) = 0 THEN <<>>
                   ELSE SubSeq(x, IF I # {} THEN Min(I) ELSE 0, Len(x))
  BY DEF Trimmed, SelectInSeq
<1>2. ASSUME \A i \in 1..Len(x) : x[i] = SPACE PROVE Trimmed(x) = <<>>
  BY <1>1, <1>2
<1>3. ASSUME NEW k \in 1..Len(x), x[k] # SPACE, \A i \in 1..(k - 1) : x[i] = SPACE
      PROVE  Trimmed(x) = SubSeq(x, k, Len(x))
  <2>1. k \in I /\ \A i \in I : k <= i
    BY <1>3
  <2>2. Min(I) = k
    BY <2>1 DEF Min
  <2>3. I # {} /\ k # 0
    BY <2>1
  <2> HIDE DEF I
  <2> QED
    BY <1>1, <2>2, <2>3
<1> QED
  BY <1>2, <1>3

LEMMA FirstOther ==
    ASSUME NEW x \in Seq(Byte), \E i \in 1..Len(x) : x[i] # SPACE
    PROVE  \E k \in 1..Len(x) : x[k] # SPACE /\ \A i \in 1..(k - 1) : x[i] = SPACE
<1> DEFINE G == {n \in 0..Len(x) : \A i \in 1..n : x[i] = SPACE}
<1> SUFFICES ASSUME \A k \in 1..Len(x) :
                        (\A i \in 1..(k - 1) : x[i] = SPACE) => x[k] = SPACE
             PROVE  FALSE
  OBVIOUS
<1>1. Len(x) \in Nat
  OBVIOUS
<1>2. 0 \in G
  BY <1>1
<1>3. ASSUME NEW n \in 1..Len(x), n - 1 \in G PROVE n \in G
  <2>1. x[n] = SPACE
    BY <1>3
  <2>2. \A i \in 1..n : i = n \/ i \in 1..(n - 1)
    OBVIOUS
  <2> QED
    BY <1>3, <2>1, <2>2
<1>4. \A n \in 0..Len(x) : n \in G
  <2> HIDE DEF G
  <2> QED
    BY <1>1, <1>2, <1>3, UpTo
<1> QED
  BY <1>1, <1>4

LEMMA NothingTrimmed == Trimmed(<<>>) = <<>>
<1>1. PICK e : e = <<>>
  OBVIOUS
<1>2. e \in Seq(Byte) /\ Len(e) = 0
  BY <1>1
<1>3. \A i \in 1..Len(e) : e[i] = SPACE
  BY <1>2
<1>4. Trimmed(e) = <<>>
  BY <1>2, <1>3, TrimmedOf
<1> QED
  BY <1>1, <1>4

\* Trimmed of a string with one more character.
LEMMA TrimmedStep ==
    ASSUME NEW x \in Seq(Byte), NEW c \in Byte
    PROVE  Trimmed(Append(x, c)) =
               IF Trimmed(x) = <<>> /\ c = SPACE THEN <<>> ELSE Append(Trimmed(x), c)
<1> DEFINE y == Append(x, c)
           N == Len(x)
<1>1. /\ y \in Seq(Byte) /\ Len(y) = N + 1 /\ N \in Nat
      /\ \A i \in 1..N : y[i] = x[i]
      /\ y[N + 1] = c
  OBVIOUS
<1>2. Trimmed(<<>>) = <<>>
  BY NothingTrimmed
<1>3. CASE \A i \in 1..N : x[i] = SPACE
  <2>1. Trimmed(x) = <<>>
    BY <1>3, TrimmedOf
  <2>2. CASE c = SPACE
    <3>1. \A i \in 1..Len(y) : y[i] = SPACE
      BY <1>1, <1>3, <2>2
    <3>2. Trimmed(y) = <<>>
      <4> HIDE DEF y
      <4> QED
        BY <1>1, <3>1, TrimmedOf
    <3> QED
      BY <1>2, <2>1, <2>2, <3>2
  <2>3. CASE c # SPACE
    <3>1. N + 1 \in 1..Len(y) /\ y[N + 1] # SPACE /\ \A i \in 1..((N + 1) - 1) : y[i] = SPACE
      BY <1>1, <1>3, <2>3
    <3>2. Trimmed(y) = SubSeq(y, N + 1, Len(y))
      <4> HIDE DEF y, N
      <4> QED
        BY <1>1, <3>1, TrimmedOf
    <3>3. SubSeq(y, N + 1, Len(y)) = <<c>>
      <4> DEFINE z == SubSeq(y, N + 1, Len(y))
                 w == <<c>>
      <4>1. z \in Seq(Byte) /\ Len(z) = 1 /\ z[1] = c
        BY <1>1
      <4>2. w \in Seq(Byte) /\ Len(w) = 1 /\ w[1] = c
        OBVIOUS
      <4> HIDE DEF z, w
      <4>3. z = w
        BY <4>1, <4>2, SameString
      <4> QED
        BY <4>3 DEF z, w
    <3>4. Append(<<>>, c) = <<c>>
      OBVIOUS
    <3> QED
      BY <1>2, <2>1, <2>3, <3>2, <3>3, <3>4
  <2> QED
    BY <2>2, <2>3
<1>4. CASE ~ \A i \in 1..N : x[i] = SPACE
  <2>1. PICK k \in 1..N : x[k] # SPACE /\ \A i \in 1..(k - 1) : x[i] = SPACE
    BY <1>4, FirstOther
  <2>2. Trimmed(x) = SubSeq(x, k, N)
    BY <2>1, TrimmedOf
  <2>3. k \in 1..Len(y) /\ y[k] # SPACE /\ \A i \in 1..(k - 1) : y[i] = SPACE
    BY <1>1, <2>1
  <2>4. Trimmed(y) = SubSeq(y, k, Len(y))
    <3> HIDE DEF y, N
    <3> QED
      BY <1>1, <2>3, TrimmedOf
  <2>5. SubSeq(y, k, Len(y)) = Append(SubSeq(x, k, N), c) /\ SubSeq(x, k, N) # <<>>
    OBVIOUS
  <2> QED
    BY <1>2, <2>2, <2>4, <2>5
<1> QED
  BY <1>3, <1>4

LEMMA HeaderValueScanned ==
    ASSUME NEW f, NEW m, NEW x \in Seq(Byte), \A i \in 1..Len(x) : x[i] \notin {CR, LF}
    PROVE  Scans("header", InValue(f, <<>>, m), x, InValue(f, Trimmed(x), m))
<1> DEFINE g == [i \in 0..Len(x) |-> InValue(f, Trimmed(SubSeq(x, 1, i)), m)]
<1>1. /\ g[0] = InValue(f, <<>>, m) /\ g[Len(x)] = InValue(f, Trimmed(x), m)
      /\ \A i \in 0..Len(x) : g[i] = InValue(f, Trimmed(SubSeq(x, 1, i)), m)
  <2>1. Trimmed(<<>>) = <<>>
    BY NothingTrimmed
  <2> QED
    BY <2>1, Beginnings
<1> HIDE DEF g
<1>2. ASSUME NEW i \in 1..Len(x) PROVE g[i] = ParseChar("header", g[i - 1], x[i])
  <2> DEFINE y == SubSeq(x, 1, i - 1)
  <2>1. i \in 0..Len(x) /\ i - 1 \in 0..Len(x)
    OBVIOUS
  <2>2. g[i - 1] = InValue(f, Trimmed(y), m)
    BY <1>1, <2>1
  <2>3. g[i] = InValue(f, Trimmed(Append(y, x[i])), m)
    BY <1>1, <2>1, Beginnings
  <2>4. y \in Seq(Byte) /\ x[i] \in Byte /\ x[i] \notin {CR, LF}
    BY Beginnings
  <2> HIDE DEF y
  <2>5. Trimmed(Append(y, x[i])) =
            IF Trimmed(y) = <<>> /\ x[i] = SPACE THEN <<>> ELSE Append(Trimmed(y), x[i])
    BY <2>4, TrimmedStep
  <2>6. HeaderChar(g[i - 1], x[i]) = g[i]
    BY <2>2, <2>3, <2>4, <2>5, HeaderCharIs
  <2> QED
    BY <2>6 DEF ParseChar
<1>3. Steps("header", x, g)
  BY <1>2 DEF Steps
<1> QED
  BY <1>1, <1>3 DEF Scans

LEMMA ScansOn ==
    ASSUME NEW kind, NEW x \in Seq(Byte), NEW y \in Seq(Byte), NEW z, z = x \o y,
           NEW s, NEW t, NEW r, Scans(kind, s, x, t), Scans(kind, t, y, r)
    PROVE  z \in Seq(Byte) /\ Scans(kind, s, z, r)
<1>1. x \o y \in Seq(Byte)
  OBVIOUS
<1>2. Scans(kind, s, x \o y, r)
  BY ScansBoth
<1> QED
  BY <1>1, <1>2

LEMMA ScansTwo ==
    ASSUME NEW kind, NEW s, NEW c \in Byte, NEW d \in Byte, NEW t, NEW r,
           t = ParseChar(kind, s, c), r = ParseChar(kind, t, d)
    PROVE  Scans(kind, s, <<c, d>>, r)
<1> DEFINE x == <<c>>
           y == <<d>>
<1>1. Scans(kind, s, x, t) /\ Scans(kind, t, y, r)
  BY ScansOne
<1>2. x \in Seq(Byte) /\ y \in Seq(Byte)
  OBVIOUS
<1>3. x \o y = <<c, d>>
  <2> DEFINE z == <<c, d>>
  <2>1. x \o y \in Seq(Byte) /\ Len(x \o y) = 2 /\ (x \o y)[1] = c /\ (x \o y)[2] = d
    OBVIOUS
  <2>2. z \in Seq(Byte) /\ Len(z) = 2 /\ z[1] = c /\ z[2] = d
    OBVIOUS
  <2> HIDE DEF z
  <2>3. \A i \in 1..Len(z) : i \in {1, 2}
    BY <2>2
  <2> QED
    BY <2>1, <2>2, <2>3, SameString DEF z
<1> HIDE DEF x, y
<1>4. Scans(kind, s, x \o y, r)
  BY <1>1, <1>2, ScansBoth
<1> QED
  BY <1>3, <1>4

-----------------------------------------------------------------------------
(* The names of the fields, and the map in the end.                        *)

LEMMA Names ==
    /\ f1 \in Seq(Byte) /\ f2 \in Seq(Byte) /\ f1 # <<>> /\ f2 # <<>> /\ f1 # f2
    /\ \A i \in 1..Len(f1) : f1[i] \notin {EQUALS, AMPERSAND, CR, LF, COLON}
    /\ \A i \in 1..Len(f2) : f2[i] \notin {EQUALS, AMPERSAND, CR, LF, COLON}
<1>1. /\ f1 \in Seq(Byte) /\ Len(f1) = 1 /\ f1[1] = 97
      /\ f2 \in Seq(Byte) /\ Len(f2) = 2 /\ f2[1] = 97 /\ f2[2] = 98
  BY DEF f1, f2, Byte
<1>2. /\ \A i \in 1..Len(f1) : f1[i] = 97
      /\ \A i \in 1..Len(f2) : f2[i] \in {97, 98}
  BY <1>1
<1>3. {97, 98} \cap {EQUALS, AMPERSAND, CR, LF, COLON} = {}
  BY DEF EQUALS, AMPERSAND, CR, LF, COLON
<1>4. f1 # <<>> /\ f2 # <<>>
  BY DEF f1, f2
<1>5. f1 # f2
  BY DEF f1, f2
<1> QED
  BY <1>1, <1>2, <1>3, <1>4, <1>5

\* The map keeps what was stored under either name.
LEMMA StoredIs ==
    ASSUME NEW m, NEW f, NEW v, f # <<>>, f \notin DOMAIN m
    PROVE  /\ Lookup(Stored(m, f, v), f) = v
           /\ \A g : g # f =>
                  /\ g \in DOMAIN Stored(m, f, v) <=> g \in DOMAIN m
                  /\ Lookup(Stored(m, f, v), g) = Lookup(m, g)
<1>1. CASE v = <<>>
  <2>1. Stored(m, f, v) = m
    BY <1>1 DEF Stored
  <2> QED
    BY <1>1, <2>1 DEF Lookup
<1>2. CASE v # <<>>
  <2> DEFINE n == [g \in DOMAIN m \cup {f} |-> IF g = f THEN v ELSE m[g]]
  <2>1. Stored(m, f, v) = n
    BY <1>2 DEF Stored, Put
  <2>2. /\ DOMAIN n = DOMAIN m \cup {f} /\ n[f] = v
        /\ \A g \in DOMAIN m : n[g] = m[g]
    OBVIOUS
  <2> HIDE DEF n
  <2> QED
    BY <2>1, <2>2 DEF Lookup
<1> QED
  BY <1>1, <1>2

LEMMA BothStored ==
    ASSUME NEW x, NEW y, NEW m, m = Stored(Stored(<<>>, f1, x), f2, y)
    PROVE  Lookup(m, f1) = x /\ Lookup(m, f2) = y
<1>1. PICK e : e = <<>>
  OBVIOUS
<1> DEFINE n == Stored(e, f1, x)
<1>2. f1 # <<>> /\ f2 # <<>> /\ f1 # f2
  BY Names
<1>3. f1 \notin DOMAIN e /\ f2 \notin DOMAIN e
  BY <1>1
<1>4. Lookup(n, f1) = x /\ f2 \notin DOMAIN n
  BY <1>2, <1>3, StoredIs
<1>5. m = Stored(n, f2, y)
  BY <1>1
<1> HIDE DEF n
<1> QED
  BY <1>2, <1>4, <1>5, StoredIs

-----------------------------------------------------------------------------
(* The header.                                                             *)

\* A value, or a name, of a line.
OfLine(x) == x \in Seq(Byte) /\ \A i \in 1..Len(x) : x[i] \notin {CR, LF}

LEMMA Codes == {CR, LF, SPACE, COLON, EQUALS, AMPERSAND} \subseteq Byte
BY DEF CR, LF, SPACE, COLON, EQUALS, AMPERSAND, Byte

\* One line of the header is stored and nothing of it is kept.
LEMMA LineScanned ==
    ASSUME NEW f \in Seq(Byte), NEW m, NEW v, OfLine(v),
           \A i \in 1..Len(f) : f[i] \notin {EQUALS, AMPERSAND, CR, LF, COLON}
    PROVE  /\ Line(f, v) \in Seq(Byte)
           /\ Scans("header", InField(<<>>, <<>>, m), Line(f, v),
                    InField(<<>>, <<>>, Stored(m, f, Trimmed(v))))
<1> DEFINE a == <<COLON, SPACE>>
           b == <<CR, LF>>
           t == Trimmed(v)
           last == InField(<<>>, <<>>, Stored(m, f, t))
<1>1. a \in Seq(Byte) /\ b \in Seq(Byte) /\ v \in Seq(Byte)
  BY Codes DEF OfLine
<1>2. Scans("header", InField(<<>>, <<>>, m), f, InField(f, <<>>, m))
  BY FieldScanned
<1>3. Scans("header", InField(f, <<>>, m), a, InValue(f, <<>>, m))
  <2>1. InValue(f, <<>>, m) = ParseChar("header", InField(f, <<>>, m), COLON)
    BY HeaderMarks DEF ParseChar
  <2>2. InValue(f, <<>>, m) = ParseChar("header", InValue(f, <<>>, m), SPACE)
    <3>1. SPACE \notin {CR, LF}
      BY DEF SPACE, CR, LF
    <3> QED
      BY <3>1, HeaderCharIs DEF ParseChar
  <2> QED
    BY <2>1, <2>2, Codes, ScansTwo
<1>4. Scans("header", InValue(f, <<>>, m), v, InValue(f, t, m))
  BY HeaderValueScanned DEF OfLine
<1>5. Scans("header", InValue(f, t, m), b, last)
  <2>1. InValue(f, t, m) = ParseChar("header", InValue(f, t, m), CR)
    BY HeaderMarks DEF ParseChar
  <2>2. last = ParseChar("header", InValue(f, t, m), LF)
    BY HeaderMarks DEF ParseChar
  <2> QED
    BY <2>1, <2>2, Codes, ScansTwo
<1> DEFINE x == f \o a
           y == x \o v
           z == y \o b
<1> HIDE DEF a, b, t, last
<1>6. x = f \o a /\ y = x \o v /\ z = y \o b
  OBVIOUS
<1> HIDE DEF x, y, z
<1>7. x \in Seq(Byte) /\ Scans("header", InField(<<>>, <<>>, m), x, InValue(f, <<>>, m))
  BY <1>1, <1>2, <1>3, <1>6, ScansOn
<1>8. y \in Seq(Byte) /\ Scans("header", InField(<<>>, <<>>, m), y, InValue(f, t, m))
  BY <1>1, <1>4, <1>6, <1>7, ScansOn
<1>9. z \in Seq(Byte) /\ Scans("header", InField(<<>>, <<>>, m), z, last)
  BY <1>1, <1>5, <1>6, <1>8, ScansOn
<1>10. Line(f, v) = z
  BY DEF Line, x, y, z, a, b
<1> QED
  BY <1>9, <1>10 DEF last, t

\* The first line of x ends at n, and ParseHeader, from there, gets to s.
Reads(x, n, s) ==
    /\ x \in Seq(Byte) /\ n \in 1..Len(x)
    /\ x[n] = LF /\ \A i \in 1..(n - 1) : x[i] # LF
    /\ Scans("header", Scan, SubSeq(x, n, Len(x)), s)

LEMMA ReadsOn ==
    ASSUME NEW x, NEW n, NEW s, NEW y \in Seq(Byte), NEW z, NEW t,
           Reads(x, n, s), z = x \o y, Scans("header", s, y, t)
    PROVE  Reads(z, n, t)
<1>1. x \in Seq(Byte) /\ n \in 1..Len(x)
  BY DEF Reads
<1>2. /\ z \in Seq(Byte) /\ Len(z) = Len(x) + Len(y)
      /\ \A i \in 1..Len(x) : z[i] = x[i]
  BY <1>1
<1>3. SubSeq(x, n, Len(x)) \in Seq(Byte)
  BY <1>1
<1>4. SubSeq(z, n, Len(z)) = SubSeq(x, n, Len(x)) \o y
  <2> DEFINE a == SubSeq(z, n, Len(z))
             b == SubSeq(x, n, Len(x)) \o y
  <2>1. /\ a \in Seq(Byte) /\ b \in Seq(Byte)
        /\ Len(a) = Len(x) + Len(y) - n + 1 /\ Len(b) = Len(x) + Len(y) - n + 1
    BY <1>1, <1>2
  <2>2. ASSUME NEW i \in 1..Len(a) PROVE a[i] = b[i]
    BY <1>1, <1>2, <2>1
  <2> HIDE DEF a, b
  <2>3. a = b
    BY <2>1, <2>2, SameString
  <2> QED
    BY <2>3 DEF a, b
<1>5. Scans("header", Scan, SubSeq(x, n, Len(x)), s)
  BY DEF Reads
<1>6. Scans("header", Scan, SubSeq(z, n, Len(z)), t)
  <2> DEFINE a == SubSeq(x, n, Len(x))
             b == SubSeq(z, n, Len(z))
  <2>1. a \in Seq(Byte) /\ b = a \o y /\ Scans("header", Scan, a, s)
    BY <1>3, <1>4, <1>5
  <2> HIDE DEF a, b
  <2>2. Scans("header", Scan, b, t)
    BY <2>1, ScansOn
  <2> QED
    BY <2>2 DEF b
<1>7. z[n] = LF /\ \A i \in 1..(n - 1) : z[i] # LF
  <2>1. \A i \in 1..(n - 1) : i \in 1..Len(x)
    BY <1>1
  <2> QED
    BY <1>1, <1>2, <2>1 DEF Reads
<1>8. n \in 1..Len(z)
  BY <1>1, <1>2
<1> QED
  BY <1>2, <1>6, <1>7, <1>8 DEF Reads

LEMMA ReadsHeader ==
    ASSUME NEW x, NEW n, NEW s, Reads(x, n, s)
    PROVE  ParseHeader(x) = s.map
<1> DEFINE I == {i \in 1..Len(x) : x[i] = LF}
<1>1. /\ x \in Seq(Byte) /\ n \in 1..Len(x)
      /\ x[n] = LF /\ \A i \in 1..(n - 1) : x[i] # LF
      /\ Scans("header", Scan, SubSeq(x, n, Len(x)), s)
  BY DEF Reads
<1>2. n \in I /\ \A i \in I : n <= i
  BY <1>1
<1>3. I # {} /\ Min(I) = n
  BY <1>2 DEF Min
<1> HIDE DEF I
<1>4. (IF I # {} THEN Min(I) ELSE 0) = n
  BY <1>3
<1>5. SubSeq(x, n, Len(x)) \in Seq(Byte)
  BY <1>1
<1>6. ScanHeader(Scan, SubSeq(x, n, Len(x))) = s
  BY <1>1, <1>5, ScanHeaderIs
<1>7. ParseHeader(x) =
          ScanHeader(Scan, SubSeq(x, IF I # {} THEN Min(I) ELSE 0, Len(x))).map
  BY DEF ParseHeader, SelectInSeq, I
<1> QED
  BY <1>4, <1>6, <1>7

\* The request line comes before the first line feed, and is not a header.
LEMMA RequestLineRead ==
    ASSUME NEW u, NEW v, OfLine(u), OfLine(v)
    PROVE  Reads(Line(u, v), Len(Line(u, v)), InField(<<>>, <<>>, <<>>))
<1> DEFINE x == Line(u, v)
           n == Len(u) + Len(v) + 4
<1>1. CR \in Byte /\ LF \in Byte /\ SPACE \in Byte /\ COLON \in Byte
      /\ u \in Seq(Byte) /\ v \in Seq(Byte) /\ Len(u) \in Nat /\ Len(v) \in Nat
  BY Codes DEF OfLine
<1>2. x \in Seq(Byte) /\ Len(x) = n
  BY <1>1 DEF Line
<1>3. /\ \A i \in 1..Len(u) : x[i] = u[i]
      /\ x[Len(u) + 1] = COLON /\ x[Len(u) + 2] = SPACE
      /\ \A i \in 1..Len(v) : x[Len(u) + 2 + i] = v[i]
      /\ x[n - 1] = CR /\ x[n] = LF
  BY <1>1 DEF Line
<1> HIDE DEF x
<1>4. ASSUME NEW i \in 1..(n - 1) PROVE x[i] # LF
  <2>1. CASE i \in 1..Len(u)
    BY <1>3, <2>1 DEF OfLine
  <2>2. CASE i \in {Len(u) + 1, Len(u) + 2, n - 1}
    BY <1>3, <2>2 DEF CR, LF, COLON, SPACE
  <2>3. CASE i - (Len(u) + 2) \in 1..Len(v)
    <3> DEFINE j == i - (Len(u) + 2)
    <3>1. i = Len(u) + 2 + j
      BY <1>1
    <3>2. j \in 1..Len(v)
      BY <2>3
    <3> HIDE DEF j
    <3>3. x[i] = v[j]
      BY <1>3, <3>1, <3>2
    <3>4. v[j] # LF
      BY <3>2 DEF OfLine
    <3> QED
      BY <3>3, <3>4
  <2> QED
    BY <1>1, <2>1, <2>2, <2>3
<1>5. n \in 1..Len(x)
  BY <1>1, <1>2
<1>6. SubSeq(x, n, Len(x)) = <<LF>>
  <2> DEFINE a == SubSeq(x, n, Len(x))
             b == <<LF>>
  <2>1. a \in Seq(Byte) /\ Len(a) = 1 /\ a[1] = LF
    BY <1>1, <1>2, <1>3, <1>5
  <2>2. b \in Seq(Byte) /\ Len(b) = 1 /\ b[1] = LF
    BY <1>1
  <2> HIDE DEF a, b
  <2>3. a = b
    BY <2>1, <2>2, SameString
  <2> QED
    BY <2>3 DEF a, b
<1>7. Scans("header", Scan, <<LF>>, InField(<<>>, <<>>, <<>>))
  <2> DEFINE s == InField(<<>>, <<>>, <<>>)
  <2>1. Stored(<<>>, <<>>, <<>>) = <<>>
    BY DEF Stored
  <2>2. ParseChar("header", s, LF) = InField(<<>>, <<>>, Stored(<<>>, <<>>, <<>>))
    BY HeaderMarks DEF ParseChar
  <2>3. ParseChar("header", s, LF) = s
    BY <2>1, <2>2
  <2>4. Scan = s
    BY ScanIs
  <2> HIDE DEF s
  <2>5. Scans("header", s, <<LF>>, s)
    BY <2>3, ScansOne
  <2> QED
    BY <2>4, <2>5 DEF s
<1> QED
  BY <1>2, <1>3, <1>4, <1>5, <1>6, <1>7 DEF Reads, x

\* What HeadersAreRead says, of any two strings of one line.
LEMMA HeaderRead ==
    ASSUME NEW u, NEW v, OfLine(u), OfLine(v), NEW rbuf,
           rbuf = Line(u, v) \o Line(f1, u) \o Line(f2, v) \o <<CR, LF>>
                  \o f1 \o <<COLON>> \o v
    PROVE  HeaderValue(rbuf, f1) = Trimmed(u) /\ HeaderValue(rbuf, f2) = Trimmed(v)
<1> DEFINE a == <<CR, LF>>
           b == <<COLON>>
           x0 == Line(u, v)
           y1 == Line(f1, u)
           y2 == Line(f2, v)
           x1 == x0 \o y1
           x2 == x1 \o y2
           x3 == x2 \o a
           x4 == x3 \o f1
           x5 == x4 \o b
           x6 == x5 \o v
           n == Len(x0)
           m0 == <<>>
           m1 == Stored(m0, f1, Trimmed(u))
           m2 == Stored(m1, f2, Trimmed(v))
           Start(m) == InField(<<>>, <<>>, m)
<1>1. rbuf = x6
  OBVIOUS
<1>2. a \in Seq(Byte) /\ b \in Seq(Byte) /\ v \in Seq(Byte)
      /\ f1 \in Seq(Byte) /\ f2 \in Seq(Byte)
  BY Codes, Names DEF OfLine
<1>3. Reads(x0, n, Start(m0))
  BY RequestLineRead
<1>4. y1 \in Seq(Byte) /\ Scans("header", Start(m0), y1, Start(m1))
  <2> HIDE DEF m0
  <2> QED
    BY <1>2, LineScanned, Names
<1>5. y2 \in Seq(Byte) /\ Scans("header", Start(m1), y2, Start(m2))
  <2> HIDE DEF m0, m1
  <2> QED
    BY <1>2, LineScanned, Names
<1>6. Scans("header", Start(m2), a, Start(m2))
  <2> HIDE DEF m2
  <2>1. Start(m2) = ParseChar("header", Start(m2), CR)
    BY HeaderMarks DEF ParseChar
  <2>2. Stored(m2, <<>>, <<>>) = m2
    BY DEF Stored
  <2>3. InField(<<>>, <<>>, Stored(m2, <<>>, <<>>)) = ParseChar("header", Start(m2), LF)
    BY HeaderMarks DEF ParseChar
  <2>4. Start(m2) = ParseChar("header", Start(m2), LF)
    BY <2>2, <2>3
  <2> HIDE DEF Start
  <2> QED
    BY <2>1, <2>4, Codes, ScansTwo
<1>7. Scans("header", Start(m2), f1, InField(f1, <<>>, m2))
  <2> HIDE DEF m2
  <2> QED
    BY Names, FieldScanned
<1>8. Scans("header", InField(f1, <<>>, m2), b, InValue(f1, <<>>, m2))
  <2> HIDE DEF m2
  <2>1. InValue(f1, <<>>, m2) = ParseChar("header", InField(f1, <<>>, m2), COLON)
    BY HeaderMarks DEF ParseChar
  <2> QED
    BY <2>1, ScansOne
<1>9. Scans("header", InValue(f1, <<>>, m2), v, InValue(f1, Trimmed(v), m2))
  <2> HIDE DEF m2
  <2> QED
    BY HeaderValueScanned DEF OfLine
<1>10. InValue(f1, Trimmed(v), m2).map = m2
  BY PartsOf
<1>11. Lookup(m2, f1) = Trimmed(u) /\ Lookup(m2, f2) = Trimmed(v)
  BY BothStored
<1>12. /\ x1 = x0 \o y1 /\ x2 = x1 \o y2 /\ x3 = x2 \o a
       /\ x4 = x3 \o f1 /\ x5 = x4 \o b /\ x6 = x5 \o v
  OBVIOUS
<1> DEFINE s0 == Start(m0)
           s1 == Start(m1)
           s2 == Start(m2)
           s4 == InField(f1, <<>>, m2)
           s5 == InValue(f1, <<>>, m2)
           s6 == InValue(f1, Trimmed(v), m2)
<1>13. /\ Reads(x0, n, s0) /\ Scans("header", s0, y1, s1) /\ Scans("header", s1, y2, s2)
       /\ Scans("header", s2, a, s2) /\ Scans("header", s2, f1, s4)
       /\ Scans("header", s4, b, s5) /\ Scans("header", s5, v, s6)
       /\ s6.map = m2
  BY <1>3, <1>4, <1>5, <1>6, <1>7, <1>8, <1>9, <1>10
<1>14. y1 \in Seq(Byte) /\ y2 \in Seq(Byte)
  BY <1>4, <1>5
<1> HIDE DEF a, b, x0, y1, y2, x1, x2, x3, x4, x5, x6, n, m0, m1, m2, Start,
             s0, s1, s2, s4, s5, s6
<1>15. Reads(x1, n, s1)
  BY <1>12, <1>13, <1>14, ReadsOn
<1>16. Reads(x2, n, s2)
  BY <1>12, <1>13, <1>14, <1>15, ReadsOn
<1>17. Reads(x3, n, s2)
  BY <1>2, <1>12, <1>13, <1>16, ReadsOn
<1>18. Reads(x4, n, s4)
  BY <1>2, <1>12, <1>13, <1>17, ReadsOn
<1>19. Reads(x5, n, s5)
  BY <1>2, <1>12, <1>13, <1>18, ReadsOn
<1>20. Reads(x6, n, s6)
  BY <1>2, <1>12, <1>13, <1>19, ReadsOn
<1>21. ParseHeader(rbuf) = m2
  BY <1>1, <1>13, <1>20, ReadsHeader
<1> QED
  BY <1>11, <1>21 DEF HeaderValue

-----------------------------------------------------------------------------
(* Forms: URLDecode undoes Escaped.                                        *)

\* g[i] is x escaped, from position i on.
EscapeSteps(x, letter, g) ==
    /\ g[Len(x) + 1] = <<>>
    /\ \A i \in 1..Len(x) : g[i] = EscapedChar(x[i], letter) \o g[i + 1]

LEMMA EscapedIs ==
    ASSUME NEW x \in Seq(Byte), NEW letter, NEW g, EscapeSteps(x, letter, g)
    PROVE  Escaped(x, letter) = g[1]
<1> DEFINE N == Len(x)
           F(f) == [i \in 1..(N + 1) |->
                       IF i > N THEN <<>> ELSE EscapedChar(x[i], letter) \o f[i + 1]]
           from == CHOOSE f : f = F(f)
           h == [i \in 1..(N + 1) |-> g[i]]
<1>1. N \in Nat
  OBVIOUS
<1>2. /\ g[N + 1] = <<>>
      /\ \A i \in 1..N : g[i] = EscapedChar(x[i], letter) \o g[i + 1]
  BY DEF EscapeSteps
<1>3. h = F(h)
  <2>1. ASSUME NEW i \in 1..(N + 1)
        PROVE  g[i] = IF i > N THEN <<>> ELSE EscapedChar(x[i], letter) \o h[i + 1]
    <3>1. CASE i > N
      BY <1>1, <1>2, <3>1
    <3>2. CASE ~(i > N)
      <4>1. i \in 1..N /\ i + 1 \in 1..(N + 1)
        BY <1>1, <3>2
      <4>2. h[i + 1] = g[i + 1]
        BY <4>1
      <4> QED
        BY <1>2, <3>2, <4>1, <4>2
    <3> QED
      BY <3>1, <3>2
  <2> QED
    BY <2>1
<1>4. from = F(from)
  BY <1>3
<1> HIDE DEF from, h
<1> DEFINE G == {n \in 0..N : from[(N + 1) - n] = g[(N + 1) - n]}
<1>5. 0 \in G
  BY <1>1, <1>2, <1>4
<1>6. ASSUME NEW n \in 1..N, n - 1 \in G PROVE n \in G
  <2> DEFINE i == (N + 1) - n
  <2>1. i \in 1..N /\ i \in 1..(N + 1) /\ ~(i > N) /\ (N + 1) - (n - 1) = i + 1
    BY <1>1
  <2>2. from[i + 1] = g[i + 1]
    BY <1>6, <2>1
  <2>3. from[i] = EscapedChar(x[i], letter) \o from[i + 1]
    BY <1>4, <2>1
  <2>4. from[i] = g[i]
    BY <1>2, <2>1, <2>2, <2>3
  <2> QED
    BY <1>1, <2>4
<1>7. \A n \in 0..N : n \in G
  <2> HIDE DEF G, N
  <2> QED
    BY <1>1, <1>5, <1>6, UpTo
<1>8. (N + 1) - N = 1 /\ N \in 0..N
  BY <1>1
<1>9. from[1] = g[1]
  BY <1>7, <1>8
<1> QED
  BY <1>9 DEF Escaped, from

\* What URLDecode reads at position i, if it has read after what comes later.
Decoded(str, i, after) ==
    IF IsEscape(str, i) THEN <<Htoi(str[i + 1], str[i + 2])>> \o after[i + 3]
    ELSE <<IF str[i] = 43 THEN 32 ELSE str[i]>> \o after[i + 1]

DecodeSteps(str, h) ==
    /\ \A i \in (Len(str) + 1)..(Len(str) + 3) : h[i] = <<>>
    /\ \A i \in 1..Len(str) : h[i] = Decoded(str, i, h)

LEMMA DecodedIs ==
    ASSUME NEW str \in Seq(Byte), NEW h, DecodeSteps(str, h)
    PROVE  URLDecode(str) = h[1]
<1> DEFINE N == Len(str)
           F(f) == [i \in 1..(N + 3) |->
                       IF i > N THEN <<>>
                       ELSE IF IsEscape(str, i)
                            THEN <<Htoi(str[i + 1], str[i + 2])>> \o f[i + 3]
                       ELSE <<IF str[i] = 43 THEN 32 ELSE str[i]>> \o f[i + 1]]
           from == CHOOSE f : f = F(f)
           g == [i \in 1..(N + 3) |-> h[i]]
<1>1. N \in Nat
  OBVIOUS
<1>2. /\ \A i \in (N + 1)..(N + 3) : h[i] = <<>>
      /\ \A i \in 1..N : h[i] = Decoded(str, i, h)
  BY DEF DecodeSteps
<1>3. \A f : F(f) = [i \in 1..(N + 3) |-> IF i > N THEN <<>> ELSE Decoded(str, i, f)]
  BY DEF Decoded
<1>4. ASSUME NEW i \in 1..N, NEW a, NEW b, a[i + 1] = b[i + 1], a[i + 3] = b[i + 3]
      PROVE  Decoded(str, i, a) = Decoded(str, i, b)
  BY <1>4 DEF Decoded
<1> HIDE DEF F
<1>5. g = F(g)
  <2>1. ASSUME NEW i \in 1..(N + 3)
        PROVE  h[i] = IF i > N THEN <<>> ELSE Decoded(str, i, g)
    <3>1. CASE i > N
      BY <1>1, <1>2, <3>1
    <3>2. CASE ~(i > N)
      <4>1. i \in 1..N /\ i + 1 \in 1..(N + 3) /\ i + 3 \in 1..(N + 3)
        BY <1>1, <3>2
      <4>2. h[i + 1] = g[i + 1] /\ h[i + 3] = g[i + 3]
        BY <4>1
      <4> HIDE DEF g
      <4>3. Decoded(str, i, h) = Decoded(str, i, g)
        BY <1>4, <4>1, <4>2
      <4> QED
        BY <1>2, <3>2, <4>1, <4>3
    <3> QED
      BY <3>1, <3>2
  <2>2. g = [i \in 1..(N + 3) |-> IF i > N THEN <<>> ELSE Decoded(str, i, g)]
    BY <2>1
  <2> QED
    BY <1>3, <2>2
<1>6. from = F(from)
  BY <1>5
<1> HIDE DEF from, g
<1>7. \A i \in 1..(N + 3) : from[i] = IF i > N THEN <<>> ELSE Decoded(str, i, from)
  <2>1. from = [i \in 1..(N + 3) |-> IF i > N THEN <<>> ELSE Decoded(str, i, from)]
    BY <1>3, <1>6
  <2> QED
    BY <2>1
<1> DEFINE G == {n \in 0..N : \A i \in ((N + 1) - n)..(N + 3) : from[i] = h[i]}
<1>8. 0 \in G
  BY <1>1, <1>2, <1>7
<1>9. ASSUME NEW n \in 1..N, n - 1 \in G PROVE n \in G
  <2> DEFINE i == (N + 1) - n
  <2>1. i \in 1..N /\ i \in 1..(N + 3) /\ ~(i > N) /\ (N + 1) - (n - 1) = i + 1
        /\ i + 1 \in (i + 1)..(N + 3) /\ i + 3 \in (i + 1)..(N + 3)
    BY <1>1
  <2>2. \A k \in (i + 1)..(N + 3) : from[k] = h[k]
    BY <1>9, <2>1
  <2>3. from[i] = Decoded(str, i, from)
    BY <1>7, <2>1
  <2>4. Decoded(str, i, from) = Decoded(str, i, h)
    <3> HIDE DEF i
    <3> QED
      BY <1>4, <2>1, <2>2
  <2>5. from[i] = h[i]
    BY <1>2, <2>1, <2>3, <2>4
  <2>6. \A k \in i..(N + 3) : k = i \/ k \in (i + 1)..(N + 3)
    BY <1>1, <2>1
  <2>7. \A k \in i..(N + 3) : from[k] = h[k]
    BY <2>2, <2>5, <2>6
  <2> QED
    BY <2>7
<1>10. \A n \in 0..N : n \in G
  <2> HIDE DEF G, N
  <2> QED
    BY <1>1, <1>8, <1>9, UpTo
<1>11. (N + 1) - N = 1 /\ N \in 0..N /\ 1 \in 1..(N + 3)
  BY <1>1
<1>12. from[1] = h[1]
  BY <1>10, <1>11
<1> QED
  BY <1>12 DEF URLDecode, from, F

\* A character is put in front.
ShiftedSteps(w, h, v, g) ==
    /\ DecodeSteps(v, g)
    /\ \A i \in 1..(Len(w) + 3) : g[i + 1] = h[i]
    /\ g[1] = Decoded(v, 1, g)

LEMMA DecodedBefore ==
    ASSUME NEW w \in Seq(Byte), NEW h, DecodeSteps(w, h), NEW c \in Byte,
           NEW v, v = <<c>> \o w
    PROVE  /\ v \in Seq(Byte) /\ Len(v) = Len(w) + 1 /\ v[1] = c
           /\ \A i \in 1..Len(w) : v[i + 1] = w[i]
           /\ \E g : ShiftedSteps(w, h, v, g)
<1> DEFINE N == Len(w)
           first == IF IsEscape(v, 1) THEN <<Htoi(v[2], v[3])>> \o h[3]
                    ELSE <<IF v[1] = 43 THEN 32 ELSE v[1]>> \o h[1]
           g == [i \in 1..(N + 4) |-> IF i = 1 THEN first ELSE h[i - 1]]
<1>1. N \in Nat
  OBVIOUS
<1>2. v \in Seq(Byte) /\ Len(v) = N + 1 /\ v[1] = c /\ \A i \in 1..N : v[i + 1] = w[i]
  OBVIOUS
<1>3. /\ \A i \in (N + 1)..(N + 3) : h[i] = <<>>
      /\ \A i \in 1..N : h[i] = Decoded(w, i, h)
  BY DEF DecodeSteps
<1>4. \A i \in 1..(N + 3) : g[i + 1] = h[i]
  <2>1. ASSUME NEW i \in 1..(N + 3) PROVE g[i + 1] = h[i]
    <3>1. i + 1 \in 1..(N + 4) /\ i + 1 # 1 /\ (i + 1) - 1 = i
      BY <1>1
    <3> HIDE DEF first
    <3> QED
      BY <3>1
  <2> QED
    BY <2>1
<1>5. g[1] = first
  <2>1. 1 \in 1..(N + 4)
    BY <1>1
  <2> HIDE DEF first
  <2> QED
    BY <2>1
<1> HIDE DEF g
<1>6. g[1] = Decoded(v, 1, g)
  <2>1. g[2] = h[1] /\ g[4] = h[3]
    <3>1. 1 \in 1..(N + 3) /\ 3 \in 1..(N + 3) /\ 1 + 1 = 2 /\ 3 + 1 = 4
      BY <1>1
    <3> QED
      BY <1>4, <3>1
  <2>2. 1 + 1 = 2 /\ 1 + 2 = 3 /\ 1 + 3 = 4
    OBVIOUS
  <2>3. Decoded(v, 1, g) = IF IsEscape(v, 1) THEN <<Htoi(v[2], v[3])>> \o g[4]
                           ELSE <<IF v[1] = 43 THEN 32 ELSE v[1]>> \o g[2]
    BY <2>2 DEF Decoded
  <2> QED
    BY <1>5, <2>1, <2>3
<1>7. ASSUME NEW i \in 1..N PROVE g[i + 1] = Decoded(v, i + 1, g)
  <2>1. i \in 1..(N + 3) /\ i + 1 \in 1..(N + 3) /\ i + 3 \in 1..(N + 3)
    BY <1>1
  <2>2. g[i + 1] = h[i] /\ g[(i + 1) + 1] = h[i + 1] /\ g[(i + 3) + 1] = h[i + 3]
    BY <1>4, <2>1
  <2>3. v[i + 1] = w[i]
    BY <1>2
  <2>4. IsEscape(v, i + 1) <=> IsEscape(w, i)
    <3>1. (i + 1) + 2 <= Len(v) <=> i + 2 <= N
      BY <1>1, <1>2
    <3>2. i + 2 <= N => v[(i + 1) + 1] = w[i + 1] /\ v[(i + 1) + 2] = w[i + 2]
      <4>1. i + 2 <= N => i + 1 \in 1..N /\ i + 2 \in 1..N /\ (i + 1) + 2 = (i + 2) + 1
        BY <1>1
      <4> QED
        BY <1>2, <4>1
    <3> QED
      BY <2>3, <3>1, <3>2 DEF IsEscape
  <2>5. CASE IsEscape(w, i)
    <3>1. i + 1 \in 1..N /\ i + 2 \in 1..N /\ (i + 1) + 2 = (i + 2) + 1
          /\ (i + 1) + 3 = (i + 3) + 1
      BY <1>1, <2>5 DEF IsEscape
    <3>2. v[(i + 1) + 1] = w[i + 1] /\ v[(i + 1) + 2] = w[i + 2]
      BY <1>2, <3>1
    <3>3. Decoded(v, i + 1, g) = <<Htoi(w[i + 1], w[i + 2])>> \o g[(i + 3) + 1]
      BY <2>4, <2>5, <3>1, <3>2 DEF Decoded
    <3>4. Decoded(w, i, h) = <<Htoi(w[i + 1], w[i + 2])>> \o h[i + 3]
      BY <2>5 DEF Decoded
    <3> QED
      BY <1>3, <2>2, <3>3, <3>4
  <2>6. CASE ~IsEscape(w, i)
    <3>1. Decoded(v, i + 1, g) = <<IF w[i] = 43 THEN 32 ELSE w[i]>> \o g[(i + 1) + 1]
      BY <2>3, <2>4, <2>6 DEF Decoded
    <3>2. Decoded(w, i, h) = <<IF w[i] = 43 THEN 32 ELSE w[i]>> \o h[i + 1]
      BY <2>6 DEF Decoded
    <3> QED
      BY <1>3, <2>2, <3>1, <3>2
  <2> QED
    BY <2>5, <2>6
<1>8. \A i \in 1..Len(v) : g[i] = Decoded(v, i, g)
  <2>1. ASSUME NEW i \in 1..Len(v), i # 1 PROVE g[i] = Decoded(v, i, g)
    <3> DEFINE k == i - 1
    <3>1. k \in 1..N /\ i = k + 1
      BY <1>1, <1>2, <2>1
    <3> HIDE DEF k
    <3> QED
      BY <1>7, <3>1
  <2> QED
    BY <1>6, <2>1
<1>9. \A i \in (Len(v) + 1)..(Len(v) + 3) : g[i] = <<>>
  <2>1. ASSUME NEW i \in (Len(v) + 1)..(Len(v) + 3) PROVE g[i] = <<>>
    <3> DEFINE k == i - 1
    <3>1. k \in (N + 1)..(N + 3) /\ k \in 1..(N + 3) /\ i = k + 1
      BY <1>1, <1>2
    <3> HIDE DEF k
    <3> QED
      BY <1>3, <1>4, <3>1
  <2> QED
    BY <2>1
<1>10. DecodeSteps(v, g)
  BY <1>8, <1>9 DEF DecodeSteps
<1>11. ShiftedSteps(w, h, v, g)
  BY <1>4, <1>6, <1>10 DEF ShiftedSteps
<1> QED
  BY <1>2, <1>11

\* URLDecode reads u from str.
Decodes(str, u) == \E h : DecodeSteps(str, h) /\ h[1] = u

\* A character in front, or an escape, as URLDecode meets them.
LEMMA PlainDecodes ==
    ASSUME NEW w \in Seq(Byte), NEW u, Decodes(w, u), NEW c \in Byte, c # 37
    PROVE  Decodes(<<c>> \o w, <<IF c = 43 THEN 32 ELSE c>> \o u)
<1>1. PICK h : DecodeSteps(w, h) /\ h[1] = u
  BY DEF Decodes
<1> DEFINE v == <<c>> \o w
<1>2. v = <<c>> \o w
  OBVIOUS
<1> HIDE DEF v
<1>3. v[1] = c
  BY <1>1, <1>2, DecodedBefore
<1>4. PICK g : ShiftedSteps(w, h, v, g)
  BY <1>1, <1>2, DecodedBefore
<1>5. /\ DecodeSteps(v, g)
      /\ \A i \in 1..(Len(w) + 3) : g[i + 1] = h[i]
      /\ g[1] = Decoded(v, 1, g)
  BY <1>4 DEF ShiftedSteps
<1>6. 1 \in 1..(Len(w) + 3) /\ 1 + 1 = 2
  OBVIOUS
<1>7. g[2] = u
  BY <1>1, <1>5, <1>6
<1>8. g[1] = <<IF c = 43 THEN 32 ELSE c>> \o g[2]
  BY <1>3, <1>5 DEF Decoded, IsEscape
<1> QED
  BY <1>2, <1>5, <1>7, <1>8 DEF Decodes, v

LEMMA EscapeDecodes ==
    ASSUME NEW w \in Seq(Byte), NEW u, Decodes(w, u), NEW a \in Byte, NEW b \in Byte,
           IsXDigit(a), IsXDigit(b)
    PROVE  Decodes(<<37, a, b>> \o w, <<Htoi(a, b)>> \o u)
<1>1. PICK h : DecodeSteps(w, h) /\ h[1] = u
  BY DEF Decodes
<1> DEFINE w1 == <<b>> \o w
           w2 == <<a>> \o w1
           w3 == <<37>> \o w2
<1>2. w1 = <<b>> \o w /\ w2 = <<a>> \o w1 /\ w3 = <<37>> \o w2 /\ 37 \in Byte
  BY DEF Byte
<1>3. w3 = <<37, a, b>> \o w
  <2> DEFINE z == <<37, a, b>> \o w
  <2>1. /\ w3 \in Seq(Byte) /\ Len(w3) = Len(w) + 3
        /\ w3[1] = 37 /\ w3[2] = a /\ w3[3] = b
        /\ \A i \in 4..(Len(w) + 3) : w3[i] = w[i - 3]
    BY <1>2
  <2>2. /\ z \in Seq(Byte) /\ Len(z) = Len(w) + 3
        /\ z[1] = 37 /\ z[2] = a /\ z[3] = b
        /\ \A i \in 4..(Len(w) + 3) : z[i] = w[i - 3]
    BY <1>2
  <2> HIDE DEF z, w3
  <2>3. \A i \in 1..Len(z) : i \in {1, 2, 3} \/ i \in 4..(Len(w) + 3)
    BY <2>2
  <2> QED
    BY <2>1, <2>2, <2>3, SameString DEF z
<1> HIDE DEF w1, w2, w3
<1>4. w1 \in Seq(Byte) /\ Len(w1) = Len(w) + 1 /\ w1[1] = b
  BY <1>1, <1>2, DecodedBefore
<1>5. PICK h1 : ShiftedSteps(w, h, w1, h1)
  BY <1>1, <1>2, DecodedBefore
<1>6. /\ DecodeSteps(w1, h1)
      /\ \A i \in 1..(Len(w) + 3) : h1[i + 1] = h[i]
  BY <1>5 DEF ShiftedSteps
<1>7. /\ w2 \in Seq(Byte) /\ Len(w2) = Len(w1) + 1 /\ w2[1] = a
      /\ \A i \in 1..Len(w1) : w2[i + 1] = w1[i]
  BY <1>2, <1>4, <1>6, DecodedBefore
<1>8. PICK h2 : ShiftedSteps(w1, h1, w2, h2)
  BY <1>2, <1>4, <1>6, DecodedBefore
<1>9. /\ DecodeSteps(w2, h2)
      /\ \A i \in 1..(Len(w1) + 3) : h2[i + 1] = h1[i]
  BY <1>8 DEF ShiftedSteps
<1>10. /\ w3 \in Seq(Byte) /\ Len(w3) = Len(w2) + 1 /\ w3[1] = 37
      /\ \A i \in 1..Len(w2) : w3[i + 1] = w2[i]
  BY <1>2, <1>7, <1>9, DecodedBefore
<1>11. w2 \in Seq(Byte) /\ DecodeSteps(w2, h2) /\ 37 \in Byte /\ w3 = <<37>> \o w2
  BY <1>2, <1>7, <1>9
<1>12. PICK h3 : ShiftedSteps(w2, h2, w3, h3)
  BY <1>11, DecodedBefore
<1>13. /\ DecodeSteps(w3, h3)
      /\ \A i \in 1..(Len(w2) + 3) : h3[i + 1] = h2[i]
      /\ h3[1] = Decoded(w3, 1, h3)
  BY <1>12 DEF ShiftedSteps
<1>14. Len(w) \in Nat
  OBVIOUS
<1>15. h3[4] = u
  <2>1. h1[2] = h[1]
    <3>1. 1 \in 1..(Len(w) + 3) /\ 1 + 1 = 2
      BY <1>14
    <3> QED
      BY <1>6, <3>1
  <2>2. h2[3] = h1[2]
    <3>1. 2 \in 1..(Len(w1) + 3) /\ 2 + 1 = 3
      BY <1>4, <1>14
    <3> QED
      BY <1>9, <3>1
  <2>3. h3[4] = h2[3]
    <3>1. 3 \in 1..(Len(w2) + 3) /\ 3 + 1 = 4
      BY <1>4, <1>7, <1>14
    <3> QED
      BY <1>13, <3>1
  <2> QED
    BY <1>1, <2>1, <2>2, <2>3
<1>16. w3[2] = a /\ w3[3] = b /\ 1 + 2 <= Len(w3)
  <2>1. /\ 1 \in 1..Len(w2) /\ 2 \in 1..Len(w2) /\ 1 \in 1..Len(w1)
        /\ 1 + 1 = 2 /\ 2 + 1 = 3
    BY <1>4, <1>7, <1>14
  <2>2. w3[2] = w2[1] /\ w3[3] = w2[2] /\ w2[2] = w1[1]
    BY <1>7, <1>10, <2>1
  <2> QED
    BY <1>4, <1>7, <1>10, <1>14, <2>2
<1>17. IsEscape(w3, 1)
  BY <1>10, <1>16 DEF IsEscape
<1>18. h3[1] = <<Htoi(a, b)>> \o h3[4]
  BY <1>13, <1>16, <1>17 DEF Decoded
<1> QED
  BY <1>3, <1>13, <1>15, <1>18 DEF Decodes

-----------------------------------------------------------------------------

\* A string with the characters of values in a form.
Plain(str) == str \in Seq(Byte) /\ \A i \in 1..Len(str) : str[i] \notin {EQUALS, AMPERSAND}

\* What Escaped makes of u.
IsForm(w, u) == Plain(w) /\ Decodes(w, u) /\ (w = <<>> <=> u = <<>>)

\* What a browser puts in front decodes to the character it stands for, and
\* has none of the marks of a form.
LEMMA EscapedBefore ==
    ASSUME NEW c \in Byte, NEW letter \in {65, 97}, NEW w, NEW u \in Seq(Byte), IsForm(w, u)
    PROVE  IsForm(EscapedChar(c, letter) \o w, <<c>> \o u)
<1> DEFINE e == EscapedChar(c, letter)
           v == e \o w
<1>1. /\ w \in Seq(Byte) /\ Decodes(w, u)
      /\ \A i \in 1..Len(w) : w[i] \notin {EQUALS, AMPERSAND}
  BY DEF IsForm, Plain
<1> SUFFICES Plain(v) /\ v # <<>> /\ Decodes(v, <<c>> \o u)
  <2>1. <<c>> \o u # <<>>
    OBVIOUS
  <2> QED
    BY <2>1 DEF IsForm
<1>2. ASSUME NEW d \in Byte \ {EQUALS, AMPERSAND}, e = <<d>>
      PROVE  Plain(v) /\ v # <<>>
  <2>1. v = <<d>> \o w
    BY <1>2
  <2>2. /\ v \in Seq(Byte) /\ Len(v) = Len(w) + 1 /\ v[1] = d
        /\ \A i \in 2..Len(v) : v[i] = w[i - 1]
    BY <1>1, <2>1
  <2>3. \A i \in 1..Len(v) : i = 1 \/ (i \in 2..Len(v) /\ i - 1 \in 1..Len(w))
    BY <1>1, <2>2
  <2>4. v # <<>>
    BY <1>1, <2>1
  <2> QED
    BY <1>1, <2>2, <2>3, <2>4 DEF Plain
<1>3. CASE c = SPACE
  <2>1. e = <<43>> /\ 43 \in Byte \ {EQUALS, AMPERSAND} /\ c = 32
    BY <1>3 DEF EscapedChar, Byte, EQUALS, AMPERSAND, SPACE
  <2>2. Decodes(<<43>> \o w, <<IF 43 = 43 THEN 32 ELSE 43>> \o u)
    BY <1>1, <2>1, PlainDecodes
  <2> QED
    BY <1>2, <2>1, <2>2
<1>4. CASE c # SPACE /\ c \in (48..57) \cup (65..90) \cup (97..122)
  <2>1. e = <<c>> /\ c \in Byte \ {EQUALS, AMPERSAND} /\ c # 37 /\ c # 43
    BY <1>4 DEF EscapedChar, Byte, EQUALS, AMPERSAND
  <2>2. Decodes(<<c>> \o w, <<IF c = 43 THEN 32 ELSE c>> \o u)
    BY <1>1, <2>1, PlainDecodes
  <2> HIDE DEF e
  <2> QED
    BY <1>2, <2>1, <2>2 DEF e
<1>5. CASE c # SPACE /\ c \notin (48..57) \cup (65..90) \cup (97..122)
  <2> DEFINE p == c \div 16
             q == c % 16
             a == HexDigit(p, letter)
             b == HexDigit(q, letter)
  <2>1. p \in 0..15 /\ q \in 0..15 /\ (p * 16) + q = c
    BY DEF Byte
  <2> HIDE DEF p, q
  <2>2. /\ a \in Byte \ {EQUALS, AMPERSAND} /\ b \in Byte \ {EQUALS, AMPERSAND}
        /\ IsXDigit(a) /\ IsXDigit(b)
        /\ HtoiDigit(a) = p /\ HtoiDigit(b) = q
    BY <2>1 DEF HexDigit, Byte, EQUALS, AMPERSAND, IsXDigit, HtoiDigit
  <2>3. e = <<37, a, b>>
    BY <1>5 DEF EscapedChar, p, q
  <2> HIDE DEF a, b, e
  <2>4. Htoi(a, b) = c
    BY <2>1, <2>2 DEF Htoi
  <2>5. Decodes(<<37, a, b>> \o w, <<Htoi(a, b)>> \o u)
    BY <1>1, <2>2, EscapeDecodes
  <2>6. 37 \in Byte \ {EQUALS, AMPERSAND}
    BY DEF Byte, EQUALS, AMPERSAND
  <2>7. v = <<37, a, b>> \o w
    BY <2>3 DEF e
  <2>8. /\ v \in Seq(Byte) /\ Len(v) = Len(w) + 3
        /\ v[1] = 37 /\ v[2] = a /\ v[3] = b
        /\ \A i \in 4..Len(v) : v[i] = w[i - 3]
    BY <1>1, <2>2, <2>6, <2>7
  <2>9. \A i \in 1..Len(v) : i \in {1, 2, 3} \/ (i \in 4..Len(v) /\ i - 3 \in 1..Len(w))
    BY <1>1, <2>8
  <2>10. v # <<>>
    BY <1>1, <2>7
  <2>11. Plain(v)
    BY <1>1, <2>2, <2>6, <2>8, <2>9 DEF Plain
  <2> QED
    BY <2>4, <2>5, <2>7, <2>10, <2>11
<1> QED
  BY <1>3, <1>4, <1>5

\* By induction from the end of x.
LEMMA EscapesFromEnd ==
    ASSUME NEW x \in Seq(Byte), NEW letter \in {65, 97}, NEW g, EscapeSteps(x, letter, g)
    PROVE  IsForm(g[1], x)
<1> DEFINE N == Len(x)
           Rest(i) == SubSeq(x, i, N)
           G == {n \in 0..N : IsForm(g[(N + 1) - n], Rest((N + 1) - n))}
<1>1. N \in Nat
  OBVIOUS
<1>2. /\ g[N + 1] = <<>>
      /\ \A i \in 1..N : g[i] = EscapedChar(x[i], letter) \o g[i + 1]
  BY DEF EscapeSteps
<1>3. 0 \in G
  <2>1. PICK e : e = <<>>
    OBVIOUS
  <2>2. e \in Seq(Byte) /\ Len(e) = 0
    BY <2>1
  <2>3. Plain(e)
    BY <2>2 DEF Plain
  <2>4. Decodes(e, e)
    <3> DEFINE h == [i \in 1..3 |-> e]
    <3>1. DecodeSteps(e, h)
      BY <2>1, <2>2 DEF DecodeSteps
    <3>2. h[1] = e
      OBVIOUS
    <3> QED
      BY <3>1, <3>2 DEF Decodes
  <2>5. Rest(N + 1) = e /\ g[N + 1] = e
    BY <1>1, <1>2, <2>1
  <2>6. IsForm(e, e)
    BY <2>3, <2>4 DEF IsForm
  <2>7. (N + 1) - 0 = N + 1 /\ 0 \in 0..N
    BY <1>1
  <2> HIDE DEF Rest
  <2>8. IsForm(g[N + 1], Rest(N + 1))
    BY <2>5, <2>6
  <2> QED
    BY <2>7, <2>8
<1>4. ASSUME NEW n \in 1..N, n - 1 \in G PROVE n \in G
  <2> DEFINE i == (N + 1) - n
             c == x[i]
             w == g[i + 1]
             v == g[i]
             u == Rest(i + 1)
  <2>1. i \in 1..N /\ (N + 1) - (n - 1) = i + 1
    BY <1>1
  <2>2. IsForm(w, u)
    BY <1>4, <2>1
  <2>3. c \in Byte /\ u \in Seq(Byte)
    BY <1>1, <2>1
  <2>4. v = EscapedChar(c, letter) \o w
    BY <1>2, <2>1
  <2>5. <<c>> \o u = Rest(i)
    <3> DEFINE a == <<c>> \o u
               b == Rest(i)
    <3>1. a \in Seq(Byte) /\ Len(a) = (N - i) + 1 /\ a[1] = c
          /\ \A k \in 2..((N - i) + 1) : a[k] = x[(i + k) - 1]
      BY <1>1, <2>1, <2>3
    <3>2. b \in Seq(Byte) /\ Len(b) = (N - i) + 1 /\ b[1] = c
          /\ \A k \in 2..((N - i) + 1) : b[k] = x[(i + k) - 1]
      BY <1>1, <2>1
    <3> HIDE DEF a, b, c, u, i
    <3>3. a = b
      <4>1. \A k \in 1..Len(a) : k = 1 \/ k \in 2..((N - i) + 1)
        BY <1>1, <2>1, <3>1
      <4> QED
        BY <3>1, <3>2, <4>1, SameString
    <3> QED
      BY <3>3 DEF a, b
  <2> HIDE DEF c, w, v, u, Rest
  <2>6. IsForm(EscapedChar(c, letter) \o w, <<c>> \o u)
    BY <2>2, <2>3, EscapedBefore
  <2>7. IsForm(v, Rest(i))
    BY <2>4, <2>5, <2>6
  <2> QED
    BY <2>7 DEF v
<1>5. \A n \in 0..N : n \in G
  <2> HIDE DEF G, N
  <2> QED
    BY <1>1, <1>3, <1>4, UpTo
<1>6. (N + 1) - N = 1 /\ N \in 0..N
  BY <1>1
<1>7. IsForm(g[1], Rest(1))
  <2>1. N \in G
    BY <1>5, <1>6
  <2> HIDE DEF Rest
  <2> QED
    BY <1>6, <2>1
<1>8. Rest(1) = x
  BY <1>1
<1> QED
  BY <1>7, <1>8

\* The steps of Escaped, down to position n.
StepsDownTo(x, letter, n, g) ==
    /\ g[Len(x) + 1] = <<>>
    /\ \A i \in n..Len(x) : g[i] = EscapedChar(x[i], letter) \o g[i + 1]

LEMMA EscapeStepsExist ==
    ASSUME NEW x \in Seq(Byte), NEW letter
    PROVE  \E g : EscapeSteps(x, letter, g)
<1> DEFINE N == Len(x)
           G == {n \in 0..N : \E g : StepsDownTo(x, letter, (N + 1) - n, g)}
<1>1. N \in Nat
  OBVIOUS
<1>2. 0 \in G
  <2> DEFINE g == [i \in 1..(N + 1) |-> <<>>]
  <2>1. g[N + 1] = <<>> /\ (N + 1) - 0 = N + 1 /\ (N + 1)..N = {} /\ 0 \in 0..N
    BY <1>1
  <2>2. StepsDownTo(x, letter, (N + 1) - 0, g)
    BY <2>1 DEF StepsDownTo
  <2> QED
    BY <2>1, <2>2
<1>3. ASSUME NEW n \in 1..N, n - 1 \in G PROVE n \in G
  <2> DEFINE k == (N + 1) - n
  <2>1. k \in 1..N /\ (N + 1) - (n - 1) = k + 1 /\ n \in 0..N
    BY <1>1
  <2>2. PICK g : StepsDownTo(x, letter, k + 1, g)
    BY <1>3, <2>1
  <2> DEFINE e == EscapedChar(x[k], letter) \o g[k + 1]
             h == [i \in 1..(N + 1) |-> IF i = k THEN e ELSE g[i]]
  <2> HIDE DEF k
  <2>3. /\ h[k] = EscapedChar(x[k], letter) \o g[k + 1]
        /\ \A i \in (k + 1)..(N + 1) : h[i] = g[i]
    <3> HIDE DEF e
    <3>1. /\ k \in 1..(N + 1)
          /\ \A i \in (k + 1)..(N + 1) : i \in 1..(N + 1) /\ i # k
      BY <1>1, <2>1
    <3>2. h[k] = e /\ \A i \in (k + 1)..(N + 1) : h[i] = g[i]
      BY <3>1
    <3> QED
      BY <3>2 DEF e
  <2> HIDE DEF h
  <2>4. h[N + 1] = <<>>
    BY <1>1, <2>1, <2>2, <2>3 DEF StepsDownTo
  <2>5. ASSUME NEW i \in k..N PROVE h[i] = EscapedChar(x[i], letter) \o h[i + 1]
    <3>1. i + 1 \in (k + 1)..(N + 1) /\ (i = k \/ (i \in (k + 1)..N /\ i \in (k + 1)..(N + 1)))
      BY <1>1, <2>1
    <3>2. h[i + 1] = g[i + 1]
      BY <2>3, <3>1
    <3>3. CASE i = k
      BY <2>3, <3>2, <3>3
    <3>4. CASE i # k
      <4>1. h[i] = g[i] /\ g[i] = EscapedChar(x[i], letter) \o g[i + 1]
        BY <2>2, <2>3, <3>1, <3>4 DEF StepsDownTo
      <4> QED
        BY <3>2, <4>1
    <3> QED
      BY <3>3, <3>4
  <2>6. StepsDownTo(x, letter, k, h)
    BY <2>4, <2>5 DEF StepsDownTo
  <2> QED
    BY <2>1, <2>6 DEF k
<1>4. \A n \in 0..N : n \in G
  <2> HIDE DEF G, N
  <2> QED
    BY <1>1, <1>2, <1>3, UpTo
<1>5. (N + 1) - N = 1 /\ N \in 0..N
  BY <1>1
<1>6. PICK g : StepsDownTo(x, letter, 1, g)
  BY <1>4, <1>5
<1>7. EscapeSteps(x, letter, g)
  BY <1>6 DEF StepsDownTo, EscapeSteps
<1> QED
  BY <1>7

LEMMA EscapedIsForm ==
    ASSUME NEW x \in Seq(Byte), NEW letter \in {65, 97}
    PROVE  IsForm(Escaped(x, letter), x)
<1>1. PICK g : EscapeSteps(x, letter, g)
  BY EscapeStepsExist
<1>2. Escaped(x, letter) = g[1]
  BY <1>1, EscapedIs
<1> QED
  BY <1>1, <1>2, EscapesFromEnd

\* A field of a form and its value are read: w, which is u escaped.
FieldIsRead(f, m, w, u) ==
    /\ f \o <<EQUALS>> \in Seq(Byte) /\ w \in Seq(Byte)
    /\ Scans("form", InField(<<>>, <<>>, m), f \o <<EQUALS>>, InValue(f, <<>>, m))
    /\ Scans("form", InValue(f, <<>>, m), w, InValue(f, w, m))
    /\ StoreForm(InValue(f, w, m)) = Stored(m, f, u)

\* A field of a form is stored with the value it was made of.
LEMMA FieldRead ==
    ASSUME NEW f \in Seq(Byte), f # <<>>, NEW m, NEW w, NEW u \in Seq(Byte), IsForm(w, u),
           \A i \in 1..Len(f) : f[i] \notin {EQUALS, AMPERSAND, CR, LF, COLON}
    PROVE  FieldIsRead(f, m, w, u)
<1> DEFINE a == <<EQUALS>>
           x == f \o a
<1>1. a \in Seq(Byte) /\ x = f \o a
  BY Codes
<1>2. w \in Seq(Byte) /\ \A i \in 1..Len(w) : w[i] \notin {EQUALS, AMPERSAND}
  BY DEF IsForm, Plain
<1>3. Scans("form", InField(<<>>, <<>>, m), f, InField(f, <<>>, m))
  BY FieldScanned
<1>4. Scans("form", InField(f, <<>>, m), a, InValue(f, <<>>, m))
  <2>1. InValue(f, <<>>, m) = ParseChar("form", InField(f, <<>>, m), EQUALS)
    BY FormMarks DEF ParseChar
  <2> QED
    BY <2>1, ScansOne
<1>5. Scans("form", InValue(f, <<>>, m), w, InValue(f, w, m))
  BY <1>2, FormValueScanned
<1>6. URLDecode(w) = u
  <2>1. PICK h : DecodeSteps(w, h) /\ h[1] = u
    BY DEF IsForm, Decodes
  <2> QED
    BY <1>2, <2>1, DecodedIs
<1>7. StoreForm(InValue(f, w, m)) = Stored(m, f, u)
  <2>1. w = <<>> <=> u = <<>>
    BY DEF IsForm
  <2> QED
    BY <1>6, <2>1, StoreFormIs DEF Stored
<1> HIDE DEF a, x
<1>8. x \in Seq(Byte) /\ Scans("form", InField(<<>>, <<>>, m), x, InValue(f, <<>>, m))
  BY <1>1, <1>3, <1>4, ScansOn
<1> QED
  BY <1>2, <1>5, <1>7, <1>8 DEF FieldIsRead, x, a

\* What a browser sends.
FormOf(u, v, letter) ==
    f1 \o <<EQUALS>> \o Escaped(u, letter) \o <<AMPERSAND>>
    \o f2 \o <<EQUALS>> \o Escaped(v, letter)

\* What FormsAreRead says, of any two strings.
LEMMA FormRead ==
    ASSUME NEW u \in Seq(Byte), NEW v \in Seq(Byte), NEW letter \in {65, 97}, NEW form,
           form = FormOf(u, v, letter)
    PROVE  FormValue(form, f1) = u /\ FormValue(form, f2) = v
<1> DEFINE a == <<AMPERSAND>>
           w1 == Escaped(u, letter)
           w2 == Escaped(v, letter)
           x0 == f1 \o <<EQUALS>>
           y0 == f2 \o <<EQUALS>>
           x1 == x0 \o w1
           x2 == x1 \o a
           x3 == x2 \o y0
           x4 == x3 \o w2
           m0 == <<>>
           m1 == Stored(m0, f1, u)
           m2 == Stored(m1, f2, v)
           s0 == InField(<<>>, <<>>, m0)
           s1 == InValue(f1, <<>>, m0)
           s2 == InValue(f1, w1, m0)
           s3 == InField(<<>>, <<>>, m1)
           s4 == InValue(f2, <<>>, m1)
           s5 == InValue(f2, w2, m1)
<1>1. IsForm(w1, u) /\ IsForm(w2, v)
  BY EscapedIsForm
<1>2. a \in Seq(Byte) /\ f1 \in Seq(Byte) /\ f2 \in Seq(Byte) /\ f1 # <<>> /\ f2 # <<>>
  BY Codes, Names
<1> HIDE DEF w1, w2
<1>3. /\ x0 \in Seq(Byte) /\ w1 \in Seq(Byte)
      /\ Scans("form", s0, x0, s1) /\ Scans("form", s1, w1, s2)
      /\ StoreForm(s2) = m1
  <2> HIDE DEF m0
  <2>1. FieldIsRead(f1, m0, w1, u)
    BY <1>1, Names, FieldRead
  <2> QED
    BY <2>1 DEF FieldIsRead
<1>4. /\ y0 \in Seq(Byte) /\ w2 \in Seq(Byte)
      /\ Scans("form", s3, y0, s4) /\ Scans("form", s4, w2, s5)
      /\ StoreForm(s5) = m2
  <2> HIDE DEF m0, m1
  <2>1. FieldIsRead(f2, m1, w2, v)
    BY <1>1, Names, FieldRead
  <2> QED
    BY <2>1 DEF FieldIsRead
<1>5. Scans("form", s2, a, s3)
  <2> HIDE DEF m0
  <2>1. s3 = ParseChar("form", s2, AMPERSAND)
    BY <1>3, FormMarks DEF ParseChar
  <2> QED
    BY <2>1, ScansOne
<1>6. Lookup(m2, f1) = u /\ Lookup(m2, f2) = v
  BY BothStored
<1>7. Scan = s0
  BY ScanIs
<1>8. form = x4
  <2> DEFINE e == <<EQUALS>>
  <2>1. e \in Seq(Byte)
    BY Codes
  <2>2. form = f1 \o e \o w1 \o a \o f2 \o e \o w2
    BY DEF w1, w2, FormOf
  <2>3. x1 \in Seq(Byte) /\ x2 \in Seq(Byte)
    BY <1>2, <1>3
  <2> HIDE DEF a, e, x2
  <2>4. \A z \in Seq(Byte) : (z \o f2) \o e = z \o (f2 \o e)
    <3>1. ASSUME NEW z \in Seq(Byte) PROVE (z \o f2) \o e = z \o (f2 \o e)
      <4> DEFINE b == (z \o f2) \o e
                 c == z \o (f2 \o e)
      <4>1. b \in Seq(Byte) /\ c \in Seq(Byte) /\ Len(b) = Len(c)
            /\ \A i \in 1..Len(b) : b[i] = c[i]
        BY <1>2, <2>1
      <4> HIDE DEF b, c
      <4>2. b = c
        BY <4>1, SameString
      <4> QED
        BY <4>2 DEF b, c
    <3> QED
      BY <3>1
  <2>5. (x2 \o f2) \o e = x2 \o (f2 \o e)
    BY <2>3, <2>4
  <2> QED
    BY <2>2, <2>5 DEF e, x2
<1>9. x1 = x0 \o w1 /\ x2 = x1 \o a /\ x3 = x2 \o y0 /\ x4 = x3 \o w2
  OBVIOUS
<1> HIDE DEF a, x0, y0, x1, x2, x3, x4, m0, m1, m2, s0, s1, s2, s3, s4, s5
<1>10. x1 \in Seq(Byte) /\ Scans("form", s0, x1, s2)
  <2>1. x0 \in Seq(Byte) /\ w1 \in Seq(Byte) /\ x1 = x0 \o w1
        /\ Scans("form", s0, x0, s1) /\ Scans("form", s1, w1, s2)
    BY <1>3, <1>9
  <2> QED
    BY <2>1, ScansOn
<1>11. x2 \in Seq(Byte) /\ Scans("form", s0, x2, s3)
  <2>1. x1 \in Seq(Byte) /\ a \in Seq(Byte) /\ x2 = x1 \o a
        /\ Scans("form", s0, x1, s2) /\ Scans("form", s2, a, s3)
    BY <1>2, <1>5, <1>9, <1>10
  <2> QED
    BY <2>1, ScansOn
<1>12. x3 \in Seq(Byte) /\ Scans("form", s0, x3, s4)
  <2>1. x2 \in Seq(Byte) /\ y0 \in Seq(Byte) /\ x3 = x2 \o y0
        /\ Scans("form", s0, x2, s3) /\ Scans("form", s3, y0, s4)
    BY <1>4, <1>9, <1>11
  <2> QED
    BY <2>1, ScansOn
<1>13. x4 \in Seq(Byte) /\ Scans("form", s0, x4, s5)
  <2>1. x3 \in Seq(Byte) /\ w2 \in Seq(Byte) /\ x4 = x3 \o w2
        /\ Scans("form", s0, x3, s4) /\ Scans("form", s4, w2, s5)
    BY <1>4, <1>9, <1>12
  <2> QED
    BY <2>1, ScansOn
<1>14. ScanForm(Scan, x4) = s5
  BY <1>7, <1>13, ScanFormIs
<1>15. ParseFormUrlencoded(form) = m2
  BY <1>4, <1>8, <1>14 DEF ParseFormUrlencoded
<1> QED
  BY <1>6, <1>15 DEF FormValue

-----------------------------------------------------------------------------
(* Frames: ParseHead reads what MakeHead writes.                           *)

LEMMA Bytes == Byte \subseteq Nat /\ \A b \in Nat : b \in Byte <=> b <= 255
BY DEF Byte

LEMMA StringOf ==
    ASSUME NEW n \in Nat, NEW s, s = [i \in 1..n |-> s[i]], \A i \in 1..n : s[i] \in Byte
    PROVE  s \in Seq(Byte) /\ Len(s) = n
<1>1. s \in [1..n -> Byte]
  OBVIOUS
<1> QED
  BY <1>1

NumberSteps(bytes, g) ==
    g[0] = 0 /\ \A i \in 1..Len(bytes) : g[i] = (g[i - 1] * 256) + bytes[i]

\* The number that bytes stand for, once it is known at every position.
LEMMA NumberIs ==
    ASSUME NEW bytes \in Seq(Byte), NEW g, NumberSteps(bytes, g)
    PROVE  Number(bytes) = g[Len(bytes)]
<1> DEFINE N == Len(bytes)
           F(f) == [i \in 0..N |-> IF i = 0 THEN 0 ELSE (f[i - 1] * 256) + bytes[i]]
           number == CHOOSE f : f = F(f)
           h == [i \in 0..N |-> g[i]]
<1>1. N \in Nat
  OBVIOUS
<1>2. g[0] = 0 /\ \A i \in 1..N : g[i] = (g[i - 1] * 256) + bytes[i]
  BY DEF NumberSteps
<1>3. h = F(h)
  <2>1. ASSUME NEW i \in 0..N
        PROVE  g[i] = IF i = 0 THEN 0 ELSE (h[i - 1] * 256) + bytes[i]
    <3>1. CASE i = 0
      BY <1>2, <3>1
    <3>2. CASE i # 0
      <4>1. i \in 1..N /\ i - 1 \in 0..N
        BY <1>1, <3>2
      <4>2. h[i - 1] = g[i - 1]
        BY <4>1
      <4> QED
        BY <1>2, <3>2, <4>1, <4>2
    <3> QED
      BY <3>1, <3>2
  <2> QED
    BY <2>1
<1>4. number = F(number)
  BY <1>3
<1> HIDE DEF number, h
<1> DEFINE G == {n \in 0..N : number[n] = g[n]}
<1>5. 0 \in G
  BY <1>1, <1>4, <1>2
<1>6. ASSUME NEW n \in 1..N, n - 1 \in G PROVE n \in G
  <2>1. number[n] = (number[n - 1] * 256) + bytes[n]
    BY <1>1, <1>4
  <2>2. number[n - 1] = g[n - 1]
    BY <1>6
  <2> QED
    BY <1>2, <2>1, <2>2
<1>7. \A n \in 0..N : n \in G
  <2> HIDE DEF G, N
  <2> QED
    BY <1>1, <1>5, <1>6, UpTo
<1>8. number[N] = g[N]
  BY <1>1, <1>7
<1> QED
  BY <1>8 DEF Number, number

LEMMA NumberOfTwo ==
    ASSUME NEW bytes \in Seq(Byte), Len(bytes) = 2
    PROVE  Number(bytes) = (bytes[1] * 256) + bytes[2]
<1> DEFINE g == [i \in 0..2 |-> IF i = 0 THEN 0 ELSE IF i = 1 THEN bytes[1]
                                ELSE (bytes[1] * 256) + bytes[2]]
<1>1. bytes[1] \in Nat /\ bytes[2] \in Nat
  <2>1. bytes[1] \in Byte /\ bytes[2] \in Byte
    OBVIOUS
  <2> QED
    BY <2>1, Bytes
<1>2. g[0] = 0 /\ g[1] = bytes[1] /\ g[2] = (bytes[1] * 256) + bytes[2]
  OBVIOUS
<1> HIDE DEF g
<1>3. ASSUME NEW i \in 1..Len(bytes) PROVE g[i] = (g[i - 1] * 256) + bytes[i]
  <2>1. i = 1 \/ i = 2
    OBVIOUS
  <2> QED
    BY <1>1, <1>2, <2>1
<1>4. Number(bytes) = g[2]
  <2>1. NumberSteps(bytes, g)
    BY <1>2, <1>3 DEF NumberSteps
  <2> QED
    BY <2>1, NumberIs
<1> QED
  BY <1>2, <1>4

\* The number that the last four of eight bytes are.
LowHalf(bytes) ==
    (bytes[5] * 16777216) + (bytes[6] * 65536) + (bytes[7] * 256) + bytes[8]

LEMMA BytesOf == \A x \in Seq(Byte) : \A i \in 1..Len(x) : x[i] \in Byte
OBVIOUS

LEMMA NumberOfEight ==
    ASSUME NEW bytes \in Seq(Byte), Len(bytes) = 8,
           bytes[1] = 0, bytes[2] = 0, bytes[3] = 0, bytes[4] = 0
    PROVE  Number(bytes) = LowHalf(bytes)
<1> DEFINE a == bytes[5]
           b == bytes[6]
           c == bytes[7]
           d == bytes[8]
           g == [i \in 0..8 |-> IF i <= 4 THEN 0
                                ELSE IF i = 5 THEN a
                                ELSE IF i = 6 THEN (a * 256) + b
                                ELSE IF i = 7 THEN (a * 65536) + (b * 256) + c
                                ELSE (a * 16777216) + (b * 65536) + (c * 256) + d]
<1>1. a \in Nat /\ b \in Nat /\ c \in Nat /\ d \in Nat
  <2>1. \A i \in 1..8 : bytes[i] \in Byte
    BY BytesOf
  <2>2. a \in Byte /\ b \in Byte /\ c \in Byte /\ d \in Byte
    BY <2>1
  <2> QED
    BY <2>2, Bytes
<1>2. /\ g[0] = 0 /\ g[1] = 0 /\ g[2] = 0 /\ g[3] = 0 /\ g[4] = 0
      /\ g[5] = a /\ g[6] = (a * 256) + b /\ g[7] = (a * 65536) + (b * 256) + c
      /\ g[8] = (a * 16777216) + (b * 65536) + (c * 256) + d
  OBVIOUS
<1>3. bytes[5] = a /\ bytes[6] = b /\ bytes[7] = c /\ bytes[8] = d
  OBVIOUS
<1> HIDE DEF g, a, b, c, d
<1>4. ASSUME NEW i \in 1..Len(bytes) PROVE g[i] = (g[i - 1] * 256) + bytes[i]
  <2>1. i \in {1, 2, 3, 4} \/ i \in {5, 6} \/ i = 7 \/ i = 8
    OBVIOUS
  <2>2. CASE i \in {1, 2, 3, 4}
    BY <1>2, <2>2
  <2>3. CASE i \in {5, 6}
    BY <1>1, <1>2, <1>3, <2>3
  <2>4. CASE i = 7
    BY <1>1, <1>2, <1>3, <2>4, SMT
  <2>5. CASE i = 8
    BY <1>1, <1>2, <1>3, <2>5, SMT
  <2> QED
    BY <2>1, <2>2, <2>3, <2>4, <2>5
<1>5. Number(bytes) = g[8]
  <2>1. NumberSteps(bytes, g)
    BY <1>2, <1>4 DEF NumberSteps
  <2> QED
    BY <2>1, NumberIs
<1> QED
  BY <1>2, <1>5, SMT DEF LowHalf, a, b, c, d

\* BigEndian and Number undo each other, in two bytes and in eight.
LEMMA TwoBytes ==
    ASSUME NEW n \in Nat, n < 65536
    PROVE  /\ BigEndian(n, 2) \in Seq(Byte) /\ Len(BigEndian(n, 2)) = 2
           /\ BigEndian(n, 2)[1] = n \div 256 /\ BigEndian(n, 2)[2] = n % 256
<1> DEFINE p == n \div 256
           q == n % 256
<1>1. 256 ^ (2 - 1) = 256 /\ 256 ^ (2 - 2) = 1
  BY SMT
<1>2. /\ p \in Nat /\ p <= 255 /\ q \in Nat /\ q <= 255 /\ n \div 1 = n
  BY SMT
<1>3. n \div (256 ^ (2 - 1)) = p /\ (n \div (256 ^ (2 - 2))) % 256 = q
  BY <1>1, <1>2
<1> HIDE DEF p, q
<1>4. p % 256 = p
  BY <1>2
<1>5. BigEndian(n, 2) = [i \in 1..2 |-> IF i = 1 THEN p ELSE q]
  <2>1. ASSUME NEW i \in 1..2
        PROVE  (IF 2 - i > 3 THEN 0 ELSE (n \div (256 ^ (2 - i))) % 256) =
                   (IF i = 1 THEN p ELSE q)
    <3>1. CASE i = 1
      BY <1>3, <1>4, <3>1, SMT
    <3>2. CASE i = 2
      BY <1>3, <3>2, SMT
    <3> QED
      BY <3>1, <3>2
  <2> QED
    BY <2>1 DEF BigEndian
<1>6. p \in Byte /\ q \in Byte
  BY <1>2, Bytes
<1>7. /\ BigEndian(n, 2) \in Seq(Byte) /\ Len(BigEndian(n, 2)) = 2
      /\ BigEndian(n, 2)[1] = p /\ BigEndian(n, 2)[2] = q
  <2>1. ASSUME NEW s, s = [i \in 1..2 |-> IF i = 1 THEN p ELSE q]
        PROVE  s \in Seq(Byte) /\ Len(s) = 2 /\ s[1] = p /\ s[2] = q
    <3>1. \A i \in 1..2 : (IF i = 1 THEN p ELSE q) \in Byte
      BY <1>6
    <3> QED
      BY <2>1, <3>1, StringOf
  <2> QED
    BY <1>5, <2>1
<1> QED
  BY <1>7 DEF p, q

\* A length of a message.
Size(n) == n \in Nat /\ n <= 2 ^ 30

LEMMA EightBytes ==
    ASSUME NEW n, Size(n)
    PROVE  /\ BigEndian(n, 8) \in Seq(Byte) /\ Len(BigEndian(n, 8)) = 8
           /\ \A i \in 1..4 : BigEndian(n, 8)[i] = 0
           /\ n = LowHalf(BigEndian(n, 8))
<1> DEFINE a == (n \div 16777216) % 256
           b == (n \div 65536) % 256
           c == (n \div 256) % 256
           d == n % 256
<1>1. 2 ^ 30 = 1073741824
  BY SMT
<1>2. n \in Nat /\ n <= 1073741824
  BY <1>1, SMT DEF Size
<1>3. /\ a \in Byte /\ b \in Byte /\ c \in Byte /\ d \in Byte
      /\ n = (a * 16777216) + (b * 65536) + (c * 256) + d
  <2> DEFINE q1 == n \div 256
             q2 == n \div 65536
             q3 == n \div 16777216
  <2>1. n = (q1 * 256) + d
    BY <1>2, SMT
  <2>2. q1 = (q2 * 256) + c
    BY <1>2, SMT
  <2>3. q2 = (q3 * 256) + b
    BY <1>2, SMT
  <2>4. q3 = a
    BY <1>2, SMT
  <2>5. q1 \in Nat /\ q2 \in Nat /\ q3 \in Nat
    BY <1>2, SMT
  <2>6. /\ a \in Nat /\ a <= 255 /\ b \in Nat /\ b <= 255
        /\ c \in Nat /\ c <= 255 /\ d \in Nat /\ d <= 255
    BY <1>2, SMT
  <2> HIDE DEF q1, q2, q3, a, b, c, d
  <2>7. n = (a * 16777216) + (b * 65536) + (c * 256) + d
    BY <2>1, <2>2, <2>3, <2>4, <2>5, <2>6, SMT
  <2> QED
    BY <2>6, <2>7, Bytes, SMT
<1>4. /\ 256 ^ (8 - 5) = 16777216 /\ 256 ^ (8 - 6) = 65536
      /\ 256 ^ (8 - 7) = 256 /\ 256 ^ (8 - 8) = 1 /\ n \div 1 = n
  BY <1>2, SMT
<1>5. BigEndian(n, 8) = [i \in 1..8 |-> IF i <= 4 THEN 0 ELSE IF i = 5 THEN a
                                        ELSE IF i = 6 THEN b ELSE IF i = 7 THEN c ELSE d]
  <2>1. ASSUME NEW i \in 1..8
        PROVE  (IF 8 - i > 3 THEN 0 ELSE (n \div (256 ^ (8 - i))) % 256) =
                   (IF i <= 4 THEN 0 ELSE IF i = 5 THEN a
                    ELSE IF i = 6 THEN b ELSE IF i = 7 THEN c ELSE d)
    <3>1. CASE i <= 4
      BY <3>1
    <3>2. CASE i = 5
      BY <1>4, <3>2, SMT
    <3>3. CASE i = 6
      BY <1>4, <3>3, SMT
    <3>4. CASE i = 7
      BY <1>4, <3>4, SMT
    <3>5. CASE i = 8
      BY <1>4, <3>5, SMT
    <3> QED
      BY <3>1, <3>2, <3>3, <3>4, <3>5, SMT
  <2> QED
    BY <2>1 DEF BigEndian
<1> HIDE DEF a, b, c, d
<1> DEFINE s == BigEndian(n, 8)
<1>6. /\ s[1] = 0 /\ s[2] = 0 /\ s[3] = 0 /\ s[4] = 0
      /\ s[5] = a /\ s[6] = b /\ s[7] = c /\ s[8] = d
  BY <1>5
<1>7. 0 \in Byte
  BY DEF Byte
<1>8. s \in Seq(Byte) /\ Len(s) = 8
  <2>1. a \in Byte /\ b \in Byte /\ c \in Byte /\ d \in Byte
    BY <1>3
  <2>2. \A i \in 1..8 : s[i] \in Byte
    BY <1>5, <1>7, <2>1 DEF s
  <2>3. s = [i \in 1..8 |-> s[i]]
    BY <1>5 DEF s
  <2> HIDE DEF s
  <2> QED
    BY <2>2, <2>3, StringOf
<1> HIDE DEF s
<1>9. \A i \in 1..4 : s[i] = 0
  BY <1>6
<1> QED
  BY <1>3, <1>6, <1>8, <1>9, SMT DEF LowHalf, s

\* A mask is taken off by putting it on again: bit by bit.
AreBits(x, x0, x1, x2, x3, x4, x5, x6, x7) ==
    /\ x0 \in {0, 1} /\ x1 \in {0, 1} /\ x2 \in {0, 1} /\ x3 \in {0, 1}
    /\ x4 \in {0, 1} /\ x5 \in {0, 1} /\ x6 \in {0, 1} /\ x7 \in {0, 1}
    /\ x = x0 + (2 * x1) + (4 * x2) + (8 * x3) + (16 * x4) + (32 * x5)
           + (64 * x6) + (128 * x7)

\* A byte is the sum of its bits, and has no others.
LEMMA BitsOf ==
    ASSUME NEW x0, NEW x1, NEW x2, NEW x3, NEW x4, NEW x5, NEW x6, NEW x7, NEW x,
           AreBits(x, x0, x1, x2, x3, x4, x5, x6, x7)
    PROVE  /\ x \in Nat /\ x <= 255
           /\ (x \div 1) % 2 = x0 /\ (x \div 2) % 2 = x1
           /\ (x \div 4) % 2 = x2 /\ (x \div 8) % 2 = x3
           /\ (x \div 16) % 2 = x4 /\ (x \div 32) % 2 = x5
           /\ (x \div 64) % 2 = x6 /\ (x \div 128) % 2 = x7
<1> USE DEF AreBits
<1>1. x \in Nat /\ x <= 255
  OBVIOUS
<1>2. (x \div 1) % 2 = x0
  OBVIOUS
<1>3. x \div 2 = x1 + (2 * x2) + (4 * x3) + (8 * x4) + (16 * x5) + (32 * x6) + (64 * x7)
  OBVIOUS
<1>4. x \div 4 = x2 + (2 * x3) + (4 * x4) + (8 * x5) + (16 * x6) + (32 * x7)
  OBVIOUS
<1>5. x \div 8 = x3 + (2 * x4) + (4 * x5) + (8 * x6) + (16 * x7)
  OBVIOUS
<1>6. x \div 16 = x4 + (2 * x5) + (4 * x6) + (8 * x7)
  OBVIOUS
<1>7. x \div 32 = x5 + (2 * x6) + (4 * x7)
  OBVIOUS
<1>8. x \div 64 = x6 + (2 * x7)
  OBVIOUS
<1>9. x \div 128 = x7
  OBVIOUS
<1>10. (x \div 2) % 2 = x1 /\ (x \div 4) % 2 = x2
  BY <1>3, <1>4
<1>11. (x \div 8) % 2 = x3 /\ (x \div 16) % 2 = x4
  BY <1>5, <1>6
<1>12. (x \div 32) % 2 = x5 /\ (x \div 64) % 2 = x6 /\ (x \div 128) % 2 = x7
  BY <1>7, <1>8, <1>9
<1> QED
  BY <1>1, <1>2, <1>10, <1>11, <1>12

LEMMA SumOfBits ==
    ASSUME NEW a \in Nat, a <= 255
    PROVE  a = (1 * ((a \div 1) % 2)) + (2 * ((a \div 2) % 2)) + (4 * ((a \div 4) % 2))
               + (8 * ((a \div 8) % 2)) + (16 * ((a \div 16) % 2))
               + (32 * ((a \div 32) % 2)) + (64 * ((a \div 64) % 2))
               + (128 * ((a \div 128) % 2))
<1> DEFINE q1 == a \div 2
           q2 == a \div 4
           q3 == a \div 8
           q4 == a \div 16
           q5 == a \div 32
           q6 == a \div 64
           q7 == a \div 128
<1>1. a = (2 * q1) + (a % 2) /\ a \div 1 = a
  OBVIOUS
<1>2. q1 = (2 * q2) + (q1 % 2)
  OBVIOUS
<1>3. q2 = (2 * q3) + (q2 % 2)
  OBVIOUS
<1>4. q3 = (2 * q4) + (q3 % 2)
  OBVIOUS
<1>5. q4 = (2 * q5) + (q4 % 2)
  OBVIOUS
<1>6. q5 = (2 * q6) + (q5 % 2)
  OBVIOUS
<1>7. q6 = (2 * q7) + (q6 % 2)
  OBVIOUS
<1>8. q7 = q7 % 2
  OBVIOUS
<1>9. /\ q1 \in Nat /\ q2 \in Nat /\ q3 \in Nat /\ q4 \in Nat
      /\ q5 \in Nat /\ q6 \in Nat /\ q7 \in Nat
  OBVIOUS
<1> HIDE DEF q1, q2, q3, q4, q5, q6, q7
<1> DEFINE r0 == a % 2
           r1 == q1 % 2
           r2 == q2 % 2
           r3 == q3 % 2
           r4 == q4 % 2
           r5 == q5 % 2
           r6 == q6 % 2
           r7 == q7 % 2
<1>10. /\ r0 \in Nat /\ r1 \in Nat /\ r2 \in Nat /\ r3 \in Nat
       /\ r4 \in Nat /\ r5 \in Nat /\ r6 \in Nat /\ r7 \in Nat
  BY <1>9
<1>11. /\ a = (2 * q1) + r0 /\ q1 = (2 * q2) + r1 /\ q2 = (2 * q3) + r2
       /\ q3 = (2 * q4) + r3 /\ q4 = (2 * q5) + r4 /\ q5 = (2 * q6) + r5
       /\ q6 = (2 * q7) + r6 /\ q7 = r7
  BY <1>1, <1>2, <1>3, <1>4, <1>5, <1>6, <1>7, <1>8
<1> HIDE DEF r0, r1, r2, r3, r4, r5, r6, r7
<1>12. a = (1 * r0) + (2 * r1) + (4 * r2) + (8 * r3) + (16 * r4) + (32 * r5)
           + (64 * r6) + (128 * r7)
  BY <1>9, <1>10, <1>11, SMT
<1> QED
  BY <1>1, <1>12, SMT DEF q1, q2, q3, q4, q5, q6, q7, r0, r1, r2, r3, r4, r5, r6, r7

\* The bit of Xor that has this value.
XorAt(a, b, bit) == ((a \div bit) + (b \div bit)) % 2

LEMMA XorIs ==
    ASSUME NEW a, NEW b
    PROVE  Xor(a, b) = (1 * XorAt(a, b, 1)) + (2 * XorAt(a, b, 2)) + (4 * XorAt(a, b, 4))
                       + (8 * XorAt(a, b, 8)) + (16 * XorAt(a, b, 16))
                       + (32 * XorAt(a, b, 32)) + (64 * XorAt(a, b, 64))
                       + (128 * XorAt(a, b, 128))
BY DEF Xor, XorAt

LEMMA XorBits ==
    ASSUME NEW a \in Nat, NEW b \in Nat, NEW x, x = Xor(a, b)
    PROVE  /\ x \in Nat /\ x <= 255
           /\ \A bit \in {1, 2, 4, 8, 16, 32, 64, 128} :
                  (x \div bit) % 2 = XorAt(a, b, bit)
<1>1. \A bit \in {1, 2, 4, 8, 16, 32, 64, 128} : XorAt(a, b, bit) \in {0, 1}
  <2>1. \A p, q \in Nat : (p + q) % 2 \in {0, 1}
    OBVIOUS
  <2>2. \A bit \in {1, 2, 4, 8, 16, 32, 64, 128} : a \div bit \in Nat /\ b \div bit \in Nat
    OBVIOUS
  <2> QED
    BY <2>1, <2>2 DEF XorAt
<1> DEFINE x0 == XorAt(a, b, 1)
           x1 == XorAt(a, b, 2)
           x2 == XorAt(a, b, 4)
           x3 == XorAt(a, b, 8)
           x4 == XorAt(a, b, 16)
           x5 == XorAt(a, b, 32)
           x6 == XorAt(a, b, 64)
           x7 == XorAt(a, b, 128)
<1>2. /\ x0 \in {0, 1} /\ x1 \in {0, 1} /\ x2 \in {0, 1} /\ x3 \in {0, 1}
      /\ x4 \in {0, 1} /\ x5 \in {0, 1} /\ x6 \in {0, 1} /\ x7 \in {0, 1}
  BY <1>1
<1>3. x = (1 * x0) + (2 * x1) + (4 * x2) + (8 * x3) + (16 * x4) + (32 * x5)
          + (64 * x6) + (128 * x7)
  BY XorIs
<1> HIDE DEF x0, x1, x2, x3, x4, x5, x6, x7
<1>4. x = x0 + (2 * x1) + (4 * x2) + (8 * x3) + (16 * x4) + (32 * x5)
          + (64 * x6) + (128 * x7)
  BY <1>2, <1>3
<1>5. AreBits(x, x0, x1, x2, x3, x4, x5, x6, x7)
  BY <1>2, <1>4 DEF AreBits
<1>6. /\ x \in Nat /\ x <= 255
      /\ (x \div 1) % 2 = x0 /\ (x \div 2) % 2 = x1
      /\ (x \div 4) % 2 = x2 /\ (x \div 8) % 2 = x3
      /\ (x \div 16) % 2 = x4 /\ (x \div 32) % 2 = x5
      /\ (x \div 64) % 2 = x6 /\ (x \div 128) % 2 = x7
  BY <1>5, BitsOf
<1> QED
  BY <1>6 DEF x0, x1, x2, x3, x4, x5, x6, x7

\* The mask comes off where it was put on.
LEMMA XorTwice ==
    ASSUME NEW a \in Byte, NEW b \in Byte
    PROVE  Xor(a, b) \in Byte /\ Xor(Xor(a, b), b) = a
<1> DEFINE x == Xor(a, b)
           Bits == {1, 2, 4, 8, 16, 32, 64, 128}
<1>1. a \in Nat /\ b \in Nat /\ a <= 255 /\ b <= 255
  BY Bytes
<1>2. x \in Nat /\ x <= 255 /\ \A bit \in Bits : (x \div bit) % 2 = XorAt(a, b, bit)
  BY <1>1, XorBits
<1> HIDE DEF x
<1>3. ASSUME NEW bit \in Bits PROVE XorAt(x, b, bit) = (a \div bit) % 2
  <2> DEFINE p == a \div bit
             q == b \div bit
             r == x \div bit
  <2>1. p \in Nat /\ q \in Nat /\ r \in Nat
    BY <1>1, <1>2
  <2>2. r % 2 = (p + q) % 2
    BY <1>2 DEF XorAt
  <2> HIDE DEF p, q, r
  <2>3. (r + q) % 2 = p % 2
    BY <2>1, <2>2
  <2> QED
    BY <2>3 DEF XorAt, p, q, r
<1>4. Xor(x, b) = a
  <2>1. /\ XorAt(x, b, 1) = (a \div 1) % 2 /\ XorAt(x, b, 2) = (a \div 2) % 2
        /\ XorAt(x, b, 4) = (a \div 4) % 2 /\ XorAt(x, b, 8) = (a \div 8) % 2
        /\ XorAt(x, b, 16) = (a \div 16) % 2 /\ XorAt(x, b, 32) = (a \div 32) % 2
        /\ XorAt(x, b, 64) = (a \div 64) % 2 /\ XorAt(x, b, 128) = (a \div 128) % 2
    BY <1>3
  <2> QED
    BY <1>1, <2>1, XorIs, SumOfBits
<1> QED
  BY <1>2, <1>4, Bytes DEF x

Fronted(f, c, s) == f = <<c>> \o s

LEMMA PutBefore ==
    ASSUME NEW c \in Byte, NEW s \in Seq(Byte), NEW f, Fronted(f, c, s)
    PROVE  /\ f \in Seq(Byte) /\ Len(f) = Len(s) + 1 /\ f[1] = c
           /\ \A i \in 1..Len(s) : f[i + 1] = s[i]
           /\ SubSeq(f, 2, Len(f)) = s
<1>1. /\ f \in Seq(Byte) /\ Len(f) = Len(s) + 1 /\ f[1] = c
      /\ \A i \in 1..Len(s) : f[i + 1] = s[i]
  BY DEF Fronted
<1> DEFINE t == SubSeq(f, 2, Len(f))
<1>2. t \in Seq(Byte) /\ Len(t) = Len(s) /\ \A i \in 1..Len(s) : t[i] = f[i + 1]
  BY <1>1
<1> HIDE DEF t
<1>3. t = s
  BY <1>1, <1>2, SameString
<1> QED
  BY <1>1, <1>3 DEF t

\* Whatever the length, its field says how long it is itself, and the length.
LEMMA LengthFieldIs ==
    ASSUME NEW n, Size(n), NEW f, f = LengthField(n)
    PROVE  /\ f \in Seq(Byte) /\ Len(f) = 1 + LengthBytes(f[1])
           /\ f[1] \in Nat /\ f[1] <= 127
           /\ IF f[1] < 126 THEN f[1] = n ELSE Number(SubSeq(f, 2, Len(f))) = n
<1>1. n \in Nat
  BY DEF Size
<1>2. CASE n < 126
  <2>1. f = <<n>>
    BY <1>2 DEF LengthField
  <2>2. n \in Byte
    BY <1>1, <1>2, Bytes
  <2>3. f \in Seq(Byte) /\ Len(f) = 1 /\ f[1] = n
    BY <2>1, <2>2
  <2>4. LengthBytes(n) = 0
    BY <1>1, <1>2 DEF LengthBytes
  <2> QED
    BY <1>1, <1>2, <2>3, <2>4
<1>3. CASE ~(n < 126) /\ n < 65536
  <2> DEFINE s == BigEndian(n, 2)
             c == 126
  <2>1. Fronted(f, c, s)
    BY <1>3 DEF LengthField, Fronted
  <2>2. s \in Seq(Byte) /\ Len(s) = 2 /\ s[1] = n \div 256 /\ s[2] = n % 256
    BY <1>1, <1>3, TwoBytes
  <2>3. c \in Byte
    BY DEF Byte
  <2>4. c \in Nat /\ c <= 127 /\ ~(c < 126) /\ LengthBytes(c) = 2
    BY DEF LengthBytes
  <2> HIDE DEF s, c
  <2>5. s \in Seq(Byte) /\ Len(s) = 2
    BY <2>2
  <2>6. f \in Seq(Byte) /\ Len(f) = Len(s) + 1 /\ f[1] = c /\ SubSeq(f, 2, Len(f)) = s
    BY <2>1, <2>3, <2>5, PutBefore
  <2>7. f \in Seq(Byte) /\ Len(f) = 3 /\ f[1] = c /\ SubSeq(f, 2, Len(f)) = s
    BY <2>5, <2>6
  <2>8. Len(f) = 1 + LengthBytes(f[1])
    BY <2>7, <2>4
  <2>9. f[1] \in Nat /\ f[1] <= 127 /\ ~(f[1] < 126)
    BY <2>7, <2>4
  <2>10. Number(s) = n
    <3>1. Number(s) = (s[1] * 256) + s[2]
      BY <2>2, NumberOfTwo
    <3>2. ((n \div 256) * 256) + (n % 256) = n
      BY <1>1
    <3> QED
      BY <2>2, <3>1, <3>2
  <2> QED
    BY <2>7, <2>10, <2>8, <2>9
<1>4. CASE ~(n < 126) /\ ~(n < 65536)
  <2> DEFINE s == BigEndian(n, 8)
             c == 127
  <2>1. Fronted(f, c, s)
    BY <1>4 DEF LengthField, Fronted
  <2>2. /\ s \in Seq(Byte) /\ Len(s) = 8 /\ \A i \in 1..4 : s[i] = 0
        /\ n = LowHalf(s)
    BY EightBytes
  <2>3. c \in Byte
    BY DEF Byte
  <2>4. c \in Nat /\ c <= 127 /\ ~(c < 126) /\ LengthBytes(c) = 8
    BY DEF LengthBytes
  <2> HIDE DEF s, c
  <2>5. s \in Seq(Byte) /\ Len(s) = 8
    BY <2>2
  <2>6. f \in Seq(Byte) /\ Len(f) = Len(s) + 1 /\ f[1] = c /\ SubSeq(f, 2, Len(f)) = s
    BY <2>1, <2>3, <2>5, PutBefore
  <2>7. f \in Seq(Byte) /\ Len(f) = 9 /\ f[1] = c /\ SubSeq(f, 2, Len(f)) = s
    BY <2>5, <2>6
  <2>8. Len(f) = 1 + LengthBytes(f[1])
    BY <2>7, <2>4
  <2>9. f[1] \in Nat /\ f[1] <= 127 /\ ~(f[1] < 126)
    BY <2>7, <2>4
  <2>10. Number(s) = n
    <3>1. s[1] = 0 /\ s[2] = 0 /\ s[3] = 0 /\ s[4] = 0
      BY <2>2
    <3> QED
      BY <2>2, <3>1, NumberOfEight
  <2> QED
    BY <2>7, <2>10, <2>8, <2>9
<1> QED
  BY <1>2, <1>3, <1>4

\* A part of a string.
LEMMA PartIs ==
    ASSUME NEW x \in Seq(Byte), NEW a \in Nat, NEW b \in Nat, 1 <= a, a <= b + 1, b <= Len(x)
    PROVE  /\ SubSeq(x, a, b) \in Seq(Byte) /\ Len(SubSeq(x, a, b)) = (b - a) + 1
           /\ \A i \in 1..((b - a) + 1) : SubSeq(x, a, b)[i] = x[(a + i) - 1]
OBVIOUS

\* data begins with the head of a message of n bytes, that says if m is 128 that
\* a key follows.
Extra(m) == IF m = 128 THEN 4 ELSE 0
BeginsWith(data, n, opcode, m) ==
    LET head == MakeHead(n, opcode)
    IN  /\ data \in Seq(Byte) /\ Len(data) >= Len(head) + Extra(m)
        /\ m \in {0, 128} /\ Size(n) /\ opcode \in 0..15
        /\ data[2] = head[2] + m
        /\ \A i \in 1..Len(head) : i # 2 => data[i] = head[i]

HeadOf(n, opcode, m) ==
    [more |-> FALSE, fin |-> TRUE, opcode |-> opcode, len |-> n, masked |-> m = 128,
     size |-> Len(MakeHead(n, opcode)) + Extra(m)]

\* What ParseHead needs of the head of a message of n bytes.
HeadIs(head, n, opcode) ==
    /\ head \in Seq(Byte) /\ Len(head) = 2 + LengthBytes(head[2])
    /\ head[1] = 128 + opcode
    /\ head[2] \in Nat /\ head[2] <= 127
    /\ IF head[2] < 126 THEN head[2] = n ELSE Number(SubSeq(head, 3, Len(head))) = n

LEMMA MakeHeadIs ==
    ASSUME NEW n, Size(n), NEW opcode \in 0..15
    PROVE  HeadIs(MakeHead(n, opcode), n, opcode)
<1> DEFINE f == LengthField(n)
           head == MakeHead(n, opcode)
<1>1. head = <<128 + opcode>> \o f
  BY DEF MakeHead
<1>2. /\ f \in Seq(Byte) /\ Len(f) = 1 + LengthBytes(f[1])
      /\ f[1] \in Nat /\ f[1] <= 127
      /\ IF f[1] < 126 THEN f[1] = n ELSE Number(SubSeq(f, 2, Len(f))) = n
  BY LengthFieldIs
<1> HIDE DEF f, head
<1>3. 128 + opcode \in Byte
  BY DEF Byte
<1>4. LengthBytes(f[1]) \in Nat
  BY DEF LengthBytes
<1>5. /\ head \in Seq(Byte) /\ Len(head) = 1 + Len(f) /\ head[1] = 128 + opcode
      /\ \A i \in 1..Len(f) : head[i + 1] = f[i]
  BY <1>1, <1>2, <1>3
<1>6. head[2] = f[1]
  <2>1. 1 \in 1..Len(f) /\ 1 + 1 = 2
    BY <1>2, <1>4
  <2> QED
    BY <1>5, <2>1
<1>7. SubSeq(head, 3, Len(head)) = SubSeq(f, 2, Len(f))
  <2> DEFINE a == SubSeq(head, 3, Len(head))
             b == SubSeq(f, 2, Len(f))
  <2>1. /\ Len(f) \in Nat /\ Len(f) >= 1
        /\ \A i \in 1..(Len(f) - 1) : i + 1 \in 1..Len(f) /\ (i + 1) + 1 = i + 2
    BY <1>2, <1>4
  <2>2. a \in Seq(Byte) /\ Len(a) = Len(f) - 1
        /\ \A i \in 1..(Len(f) - 1) : a[i] = head[i + 2]
    <3> DEFINE z == Len(head)
    <3>1. head \in Seq(Byte) /\ z = Len(f) + 1 /\ z \in Nat
      BY <1>5, <2>1
    <3>2. (z - 3) + 1 = Len(f) - 1 /\ 3 <= z + 1 /\ z <= Len(head)
      BY <2>1, <3>1
    <3> HIDE DEF z
    <3>3. /\ SubSeq(head, 3, z) \in Seq(Byte) /\ Len(SubSeq(head, 3, z)) = (z - 3) + 1
          /\ \A i \in 1..((z - 3) + 1) : SubSeq(head, 3, z)[i] = head[(3 + i) - 1]
      BY <3>1, <3>2, PartIs
    <3>4. \A i \in 1..(Len(f) - 1) : (3 + i) - 1 = i + 2
      OBVIOUS
    <3> QED
      BY <3>2, <3>3, <3>4 DEF z
  <2>3. b \in Seq(Byte) /\ Len(b) = Len(f) - 1
        /\ \A i \in 1..(Len(f) - 1) : b[i] = f[i + 1]
    BY <1>2, <2>1
  <2>4. \A i \in 1..(Len(f) - 1) : head[i + 2] = f[i + 1]
    BY <1>5, <2>1
  <2> HIDE DEF a, b
  <2>5. a = b
    BY <2>2, <2>3, <2>4, SameString
  <2> QED
    BY <2>5 DEF a, b
<1>8. head[2] \in Nat /\ head[2] <= 127
  BY <1>2, <1>6
<1>9. Len(head) = 2 + LengthBytes(head[2])
  <2>1. LengthBytes(head[2]) = LengthBytes(f[1])
    BY <1>6
  <2> QED
    BY <1>2, <1>4, <1>5, <2>1
<1>10. IF head[2] < 126 THEN head[2] = n ELSE Number(SubSeq(head, 3, Len(head))) = n
  BY <1>2, <1>6, <1>7
<1> QED
  BY <1>5, <1>8, <1>9, <1>10 DEF HeadIs, head

\* The mark of the key beside the length.
Marked(d, r, m) == r \in Nat /\ r <= 127 /\ m \in {0, 128} /\ d = r + m

LEMMA MarkedLength ==
    ASSUME NEW d, NEW r, NEW m, Marked(d, r, m)
    PROVE  d % 128 = r /\ (d >= 128 <=> m = 128)
BY DEF Marked

\* What is read of such a head, and nothing if it is not there to the end.
\* ParseHead reads it, and asks for more of anything shorter.
LEMMA HeadRead ==
    ASSUME NEW data, NEW n, NEW opcode, NEW m, BeginsWith(data, n, opcode, m)
    PROVE  ParseHead(data) = HeadOf(n, opcode, m)
<1> DEFINE head == MakeHead(n, opcode)
           len0 == data[2] % 128
           k == LengthBytes(len0)
<1>1. /\ data \in Seq(Byte) /\ Len(data) >= Len(head) + Extra(m)
      /\ m \in {0, 128} /\ Size(n) /\ opcode \in 0..15
      /\ data[2] = head[2] + m
      /\ \A i \in 1..Len(head) : i # 2 => data[i] = head[i]
  BY DEF BeginsWith
<1>2. /\ head \in Seq(Byte) /\ Len(head) = 2 + LengthBytes(head[2])
      /\ head[1] = 128 + opcode
      /\ head[2] \in Nat /\ head[2] <= 127
      /\ IF head[2] < 126 THEN head[2] = n ELSE Number(SubSeq(head, 3, Len(head))) = n
  <2>1. HeadIs(head, n, opcode)
    BY <1>1, MakeHeadIs
  <2> QED
    BY <2>1 DEF HeadIs
<1> HIDE DEF head
<1>3. len0 = head[2] /\ (data[2] >= 128 <=> m = 128)
  <2>1. Marked(data[2], head[2], m)
    BY <1>1, <1>2 DEF Marked
  <2> QED
    BY <2>1, MarkedLength
<1>4. k \in Nat /\ Len(head) = 2 + k
  BY <1>2, <1>3 DEF LengthBytes
<1>5. HeadSize(data) = Len(head) + Extra(m) /\ Extra(m) \in {0, 4}
  BY <1>3, <1>4 DEF HeadSize, Extra
<1>6. data[1] = 128 + opcode /\ 128 + opcode >= 128 /\ (128 + opcode) % 16 = opcode
  <2>1. 1 \in 1..Len(head) /\ 1 # 2
    BY <1>4
  <2>2. data[1] = 128 + opcode
    BY <1>1, <1>2, <2>1
  <2> QED
    BY <1>1, <2>2
<1>7. SubSeq(data, 3, 2 + k) = SubSeq(head, 3, Len(head))
  <2> DEFINE a == SubSeq(data, 3, 2 + k)
             b == SubSeq(head, 3, Len(head))
  <2>1. a \in Seq(Byte) /\ Len(a) = k /\ \A i \in 1..k : a[i] = data[i + 2]
    BY <1>1, <1>4, <1>5
  <2>2. b \in Seq(Byte) /\ Len(b) = k /\ \A i \in 1..k : b[i] = head[i + 2]
    BY <1>2, <1>4
  <2>3. \A i \in 1..k : data[i + 2] = head[i + 2]
    <3>1. \A i \in 1..k : i + 2 \in 1..Len(head) /\ i + 2 # 2
      BY <1>4
    <3> QED
      BY <1>1, <3>1
  <2> HIDE DEF a, b
  <2>4. a = b
    BY <2>1, <2>2, <2>3, SameString
  <2> QED
    BY <2>4 DEF a, b
<1>8. (IF len0 < 126 THEN len0 ELSE Number(SubSeq(data, 3, 2 + k))) = n
  BY <1>2, <1>3, <1>7
<1>9. ~(Len(data) < 2 \/ Len(data) < HeadSize(data))
  BY <1>1, <1>4, <1>5
<1>10. ParseHead(data) =
           [more |-> FALSE, fin |-> data[1] >= 128, opcode |-> data[1] % 16,
            len |-> IF len0 < 126 THEN len0 ELSE Number(SubSeq(data, 3, 2 + k)),
            masked |-> data[2] >= 128, size |-> HeadSize(data)]
  BY <1>9 DEF ParseHead
<1>11. (data[1] >= 128) = TRUE /\ (data[2] >= 128) = (m = 128)
  BY <1>3, <1>6
<1>12. data[1] % 16 = opcode
  BY <1>6
<1> HIDE DEF len0, k
<1>13. ParseHead(data) =
           [more |-> FALSE, fin |-> TRUE, opcode |-> opcode, len |-> n,
            masked |-> m = 128, size |-> Len(head) + Extra(m)]
  BY <1>5, <1>8, <1>10, <1>11, <1>12, Zenon
<1> QED
  BY <1>13 DEF HeadOf, head

LEMMA HeadCut ==
    ASSUME NEW data, NEW n, NEW opcode, NEW m, BeginsWith(data, n, opcode, m),
           NEW k \in Nat, k < Len(MakeHead(n, opcode)) + Extra(m)
    PROVE  ParseHead(SubSeq(data, 1, k)) = MORE
<1> DEFINE head == MakeHead(n, opcode)
           cut == SubSeq(data, 1, k)
<1>1. /\ data \in Seq(Byte) /\ Len(data) >= Len(head) + Extra(m)
      /\ m \in {0, 128} /\ Size(n) /\ opcode \in 0..15
      /\ data[2] = head[2] + m
  BY DEF BeginsWith
<1>2. /\ head \in Seq(Byte) /\ Len(head) = 2 + LengthBytes(head[2])
      /\ head[1] = 128 + opcode
      /\ head[2] \in Nat /\ head[2] <= 127
      /\ IF head[2] < 126 THEN head[2] = n ELSE Number(SubSeq(head, 3, Len(head))) = n
  <2>1. HeadIs(head, n, opcode)
    BY <1>1, MakeHeadIs
  <2> QED
    BY <2>1 DEF HeadIs
<1> HIDE DEF head
<1>3. Extra(m) \in {0, 4} /\ Len(head) \in Nat
  BY <1>2 DEF Extra
<1>4. cut \in Seq(Byte) /\ Len(cut) = k /\ \A i \in 1..k : cut[i] = data[i]
  BY <1>1, <1>3 DEF head
<1> HIDE DEF cut
<1>5. CASE k < 2
  BY <1>4, <1>5 DEF ParseHead, cut
<1>6. CASE ~(k < 2)
  <2>1. cut[2] = head[2] + m
    BY <1>1, <1>4, <1>6
  <2>2. HeadSize(cut) = Len(head) + Extra(m)
    <3>1. cut[2] % 128 = head[2] /\ (cut[2] >= 128 <=> m = 128)
      <4>1. Marked(cut[2], head[2], m)
        BY <1>1, <1>2, <2>1 DEF Marked
      <4> QED
        BY <4>1, MarkedLength
    <3>2. HeadSize(cut) = 2 + LengthBytes(head[2]) + (IF m = 128 THEN 4 ELSE 0)
      BY <3>1 DEF HeadSize
    <3> QED
      BY <1>2, <3>2 DEF Extra
  <2> QED
    BY <1>4, <2>2 DEF ParseHead, cut, head
<1> QED
  BY <1>5, <1>6

\* Where the payload begins.
SizeOf(n, opcode, m) == Len(MakeHead(n, opcode)) + Extra(m)

LEMMA HeadSizes ==
    ASSUME NEW n, NEW opcode, NEW m, NEW data, BeginsWith(data, n, opcode, m)
    PROVE  /\ data \in Seq(Byte) /\ n \in Nat
           /\ SizeOf(n, opcode, m) \in Nat /\ SizeOf(n, opcode, m) >= 2 + Extra(m)
           /\ SizeOf(n, opcode, m) <= Len(data) /\ Extra(m) \in {0, 4}
<1> DEFINE head == MakeHead(n, opcode)
<1>1. /\ data \in Seq(Byte) /\ Len(data) >= Len(head) + Extra(m)
      /\ m \in {0, 128} /\ Size(n) /\ opcode \in 0..15
  BY DEF BeginsWith
<1>2. /\ head \in Seq(Byte) /\ Len(head) = 2 + LengthBytes(head[2])
      /\ head[1] = 128 + opcode
      /\ head[2] \in Nat /\ head[2] <= 127
      /\ IF head[2] < 126 THEN head[2] = n ELSE Number(SubSeq(head, 3, Len(head))) = n
  <2>1. HeadIs(head, n, opcode)
    BY <1>1, MakeHeadIs
  <2> QED
    BY <2>1 DEF HeadIs
<1> HIDE DEF head
<1>3. Extra(m) \in {0, 4} /\ LengthBytes(head[2]) \in Nat
  BY DEF Extra, LengthBytes
<1>4. SizeOf(n, opcode, m) = Len(head) + Extra(m)
  BY DEF SizeOf, head
<1> QED
  BY <1>1, <1>2, <1>3, <1>4 DEF Size

LEMMA FlagsOf ==
    ASSUME NEW n, NEW opcode, NEW m
    PROVE  ~HeadOf(n, opcode, m).more /\ (HeadOf(n, opcode, m).masked <=> m = 128)
<1>1. ASSUME NEW masked, NEW s,
             s = [more |-> FALSE, fin |-> TRUE, opcode |-> opcode, len |-> n,
                  masked |-> masked, size |-> SizeOf(n, opcode, m)]
      PROVE  ~s.more /\ s.masked = masked
  BY <1>1
<1>2. PICK masked : masked = (m = 128)
  OBVIOUS
<1> DEFINE s == HeadOf(n, opcode, m)
<1>3. s = [more |-> FALSE, fin |-> TRUE, opcode |-> opcode, len |-> n,
           masked |-> masked, size |-> SizeOf(n, opcode, m)]
  BY <1>2, Zenon DEF HeadOf, SizeOf
<1> HIDE DEF s
<1>4. ~s.more /\ s.masked = masked
  BY <1>1, <1>3
<1>5. s.masked <=> m = 128
  BY <1>2, <1>4, Zenon
<1> QED
  BY <1>4, <1>5 DEF s

\* The n bytes after the head, and what is under the mask.
Payload(data, size, n) == SubSeq(data, size + 1, size + n)
Unmasked(data, size, n) ==
    [i \in 1..n |-> Xor(SubSeq(data, size + 1, size + n)[i],
                        SubSeq(data, size - 3, size)[((i - 1) % 4) + 1])]

\* The payload behind such a head, and what is missing of a frame cut short.
LEMMA PayloadRead ==
    ASSUME NEW n, NEW opcode, NEW m, NEW data, BeginsWith(data, n, opcode, m),
           NEW size, size = SizeOf(n, opcode, m), Len(data) = size + n
    PROVE  /\ m = 0 => ParsePayload(data).msg = Payload(data, size, n)
           /\ m = 128 => ParsePayload(data).msg = Unmasked(data, size, n)
<1> DEFINE wsh == ParseHead(data)
<1>1. wsh = HeadOf(n, opcode, m)
  BY HeadRead
<1>2. wsh.len = n /\ wsh.size = size
  BY <1>1 DEF HeadOf, SizeOf
<1>3. size \in Nat /\ n \in Nat /\ data \in Seq(Byte)
  BY HeadSizes
<1>4. ~wsh.more /\ (wsh.masked <=> m = 128)
  BY <1>1, FlagsOf
<1>5. ~(Len(data) < wsh.size + wsh.len)
  BY <1>2, <1>3
<1> DEFINE p == Payload(data, wsh.size, wsh.len)
           u == Unmasked(data, wsh.size, wsh.len)
<1>6. ParsePayload(data) = [more |-> FALSE, msg |-> IF ~wsh.masked THEN p ELSE u]
  BY <1>4, <1>5, Zenon DEF ParsePayload, Payload, Unmasked
<1>7. p = Payload(data, size, n) /\ u = Unmasked(data, size, n)
  BY <1>2
<1> HIDE DEF wsh, p, u
<1>8. ParsePayload(data).msg = IF ~wsh.masked THEN p ELSE u
  BY <1>6
<1> QED
  BY <1>4, <1>7, <1>8

LEMMA PayloadCut ==
    ASSUME NEW n, NEW opcode, NEW m, NEW data, BeginsWith(data, n, opcode, m),
           NEW size, size = SizeOf(n, opcode, m), Len(data) = size + n,
           NEW k \in Nat, k < Len(data)
    PROVE  ParsePayload(SubSeq(data, 1, k)) = MORE
<1> DEFINE cut == SubSeq(data, 1, k)
           wsh == ParseHead(cut)
<1>1. /\ size \in Nat /\ n \in Nat /\ data \in Seq(Byte)
      /\ size >= 2 + Extra(m) /\ Extra(m) \in {0, 4}
  BY HeadSizes
<1>2. CASE k < size
  <2>1. wsh = MORE
    BY <1>2, HeadCut DEF SizeOf
  <2>2. wsh.more
    BY <2>1 DEF MORE
  <2> QED
    BY <2>2, Zenon DEF ParsePayload
<1>3. CASE ~(k < size)
  <2>1. cut \in Seq(Byte) /\ Len(cut) = k /\ \A i \in 1..k : cut[i] = data[i]
    BY <1>1
  <2> DEFINE head == MakeHead(n, opcode)
  <2>2. /\ m \in {0, 128} /\ Size(n) /\ opcode \in 0..15
        /\ data[2] = head[2] + m
        /\ \A i \in 1..Len(head) : i # 2 => data[i] = head[i]
    BY DEF BeginsWith
  <2>3. head \in Seq(Byte)
    BY <2>2, MakeHeadIs DEF HeadIs
  <2> HIDE DEF cut, head
  <2>4. size = Len(head) + Extra(m) /\ Len(head) \in Nat
    BY <2>3 DEF SizeOf, head
  <2>5. BeginsWith(cut, n, opcode, m)
    <3>1. cut[2] = data[2]
      BY <1>1, <1>3, <2>1
    <3>2. ASSUME NEW i \in 1..Len(head), i # 2 PROVE cut[i] = head[i]
      <4>1. i \in 1..k
        BY <1>1, <1>3, <2>4
      <4> QED
        BY <2>1, <2>2, <3>2, <4>1
    <3>3. Len(cut) >= Len(head) + Extra(m)
      BY <1>1, <1>3, <2>1, <2>4
    <3> QED
      BY <2>1, <2>2, <3>1, <3>2, <3>3 DEF BeginsWith, head
  <2>6. wsh = HeadOf(n, opcode, m)
    BY <2>5, HeadRead
  <2>7. wsh.more = FALSE /\ wsh.len = n /\ wsh.size = size
    BY <2>6 DEF HeadOf, SizeOf
  <2>8. ~wsh.more /\ Len(cut) < wsh.size + wsh.len
    BY <1>1, <2>1, <2>7
  <2> QED
    BY <2>8, Zenon DEF ParsePayload, cut
<1> QED
  BY <1>2, <1>3

Joined(z, a, b) == z = a \o b

LEMMA JoinedIs ==
    ASSUME NEW a \in Seq(Byte), NEW b \in Seq(Byte), NEW z, Joined(z, a, b)
    PROVE  /\ z \in Seq(Byte) /\ Len(z) = Len(a) + Len(b)
           /\ \A i \in 1..Len(a) : z[i] = a[i]
           /\ \A i \in 1..Len(b) : z[Len(a) + i] = b[i]
BY DEF Joined

\* The frame of a server, and the one of a client.
LEMMA PlainFrame ==
    ASSUME NEW message \in Seq(Byte), Size(Len(message)), NEW opcode \in 0..15,
           NEW frame, frame = MakeFrame(message, opcode)
    PROVE  /\ frame \in Seq(Byte)
           /\ BeginsWith(frame, Len(message), opcode, 0)
           /\ Len(frame) = SizeOf(Len(message), opcode, 0) + Len(message)
           /\ SubSeq(frame, SizeOf(Len(message), opcode, 0) + 1, Len(frame)) = message
<1> DEFINE n == Len(message)
           head == MakeHead(n, opcode)
<1>1. /\ head \in Seq(Byte) /\ Len(head) = 2 + LengthBytes(head[2])
      /\ head[1] = 128 + opcode
      /\ head[2] \in Nat /\ head[2] <= 127
      /\ IF head[2] < 126 THEN head[2] = n ELSE Number(SubSeq(head, 3, Len(head))) = n
  <2>1. HeadIs(head, n, opcode)
    BY MakeHeadIs
  <2> QED
    BY <2>1 DEF HeadIs
<1>2. Joined(frame, head, message)
  BY DEF MakeFrame, Joined
<1> HIDE DEF head
<1>3. /\ frame \in Seq(Byte) /\ Len(frame) = Len(head) + n
      /\ \A i \in 1..Len(head) : frame[i] = head[i]
      /\ \A i \in 1..n : frame[Len(head) + i] = message[i]
      /\ n \in Nat /\ Len(head) \in Nat
  <2>1. head \in Seq(Byte) /\ n \in Nat /\ Len(head) \in Nat
    BY <1>1
  <2> QED
    BY <1>2, <2>1, JoinedIs
<1>4. Extra(0) = 0 /\ SizeOf(n, opcode, 0) = Len(head)
  BY <1>3 DEF Extra, SizeOf, head
<1>5. Len(head) >= 2 /\ 2 \in 1..Len(head)
  BY <1>1 DEF LengthBytes
<1>6. BeginsWith(frame, n, opcode, 0)
  <2>1. frame[2] = head[2] + 0
    BY <1>1, <1>3, <1>5
  <2>2. Len(frame) >= Len(head) + Extra(0)
    BY <1>3, <1>4
  <2> QED
    BY <1>3, <2>1, <2>2 DEF BeginsWith, head
<1>7. SubSeq(frame, Len(head) + 1, Len(frame)) = message
  <2> DEFINE a == SubSeq(frame, Len(head) + 1, Len(frame))
  <2>1. a \in Seq(Byte) /\ Len(a) = n /\ \A i \in 1..n : a[i] = frame[Len(head) + i]
    BY <1>3
  <2> HIDE DEF a
  <2>2. a = message
    BY <1>3, <2>1, SameString
  <2> QED
    BY <2>2 DEF a
<1> QED
  BY <1>3, <1>4, <1>6, <1>7

LEMMA KeyIs == key \in Seq(Byte) /\ Len(key) = 4 /\ \A j \in 1..4 : key[j] \in Byte
BY DEF key, Byte

LEMMA AMaskedFrame ==
    ASSUME NEW message \in Seq(Byte), Size(Len(message)),
           NEW frame, frame = MaskedFrame(message),
           NEW size, size = SizeOf(Len(message), 1, 128)
    PROVE  /\ frame \in Seq(Byte)
           /\ BeginsWith(frame, Len(message), 1, 128)
           /\ Len(frame) = size + Len(message)
           /\ SubSeq(frame, size - 3, size) = key
           /\ \A i \in 1..Len(message) :
                  SubSeq(frame, size + 1, Len(frame))[i] =
                      Xor(message[i], key[((i - 1) % 4) + 1])
<1> DEFINE n == Len(message)
           head == MakeHead(n, 1)
           marked == [head EXCEPT ![2] = @ + 128]
           masked == [i \in DOMAIN message |-> Xor(message[i], key[((i - 1) % 4) + 1])]
           front == marked \o key
<1>1. /\ head \in Seq(Byte) /\ Len(head) = 2 + LengthBytes(head[2])
      /\ head[1] = 128 + 1
      /\ head[2] \in Nat /\ head[2] <= 127
      /\ IF head[2] < 126 THEN head[2] = n ELSE Number(SubSeq(head, 3, Len(head))) = n
  <2>1. 1 \in 0..15
    OBVIOUS
  <2>2. HeadIs(head, n, 1)
    BY <2>1, MakeHeadIs
  <2> HIDE DEF head, n
  <2> QED
    BY <2>2 DEF HeadIs
<1>2. Joined(frame, front, masked)
  BY DEF MaskedFrame, Joined
<1> HIDE DEF head
<1>3. Len(head) \in Nat /\ Len(head) >= 2 /\ n \in Nat
  BY <1>1 DEF LengthBytes
<1>4. /\ marked \in Seq(Byte) /\ Len(marked) = Len(head) /\ marked[2] = head[2] + 128
      /\ \A i \in 1..Len(head) : i # 2 => marked[i] = head[i]
  <2>1. head[2] + 128 \in Byte
    BY <1>1, Bytes
  <2> QED
    BY <1>1, <1>3, <2>1
<1>5. /\ masked \in Seq(Byte) /\ Len(masked) = n
      /\ \A i \in 1..n : masked[i] = Xor(message[i], key[((i - 1) % 4) + 1])
  <2>1. \A i \in 1..n : masked[i] = Xor(message[i], key[((i - 1) % 4) + 1])
    OBVIOUS
  <2>2. ASSUME NEW i \in 1..n PROVE masked[i] \in Byte
    <3> DEFINE j == ((i - 1) % 4) + 1
    <3>1. j \in 1..4 /\ masked[i] = Xor(message[i], key[j])
      BY <2>1
    <3> HIDE DEF j, masked
    <3>2. message[i] \in Byte /\ key[j] \in Byte
      BY <3>1, KeyIs
    <3> QED
      BY <3>1, <3>2, XorTwice
  <2>3. masked = [i \in 1..n |-> masked[i]]
    OBVIOUS
  <2> HIDE DEF masked
  <2> QED
    BY <1>3, <2>1, <2>2, <2>3, StringOf
<1> HIDE DEF marked, masked
<1>6. /\ front \in Seq(Byte) /\ Len(front) = Len(head) + 4
      /\ \A i \in 1..Len(head) : front[i] = marked[i]
      /\ \A i \in 1..4 : front[Len(head) + i] = key[i]
  <2>1. Joined(front, marked, key)
    BY DEF Joined
  <2> HIDE DEF front
  <2> QED
    <3>1. marked \in Seq(Byte) /\ Len(marked) = Len(head)
      BY <1>4
    <3>2. key \in Seq(Byte)
      BY KeyIs
    <3>3. marked \in Seq(Byte)
      BY <3>1
    <3>4. /\ front \in Seq(Byte) /\ Len(front) = Len(marked) + Len(key)
          /\ \A i \in 1..Len(marked) : front[i] = marked[i]
          /\ \A i \in 1..Len(key) : front[Len(marked) + i] = key[i]
      BY <2>1, <3>2, <3>3, JoinedIs
    <3> QED
      BY <3>1, <3>4, KeyIs
<1> HIDE DEF front
<1>7. /\ frame \in Seq(Byte) /\ Len(frame) = Len(front) + n
      /\ \A i \in 1..Len(front) : frame[i] = front[i]
      /\ \A i \in 1..n : frame[Len(front) + i] = masked[i]
  <2>1. front \in Seq(Byte) /\ masked \in Seq(Byte) /\ Len(masked) = n
    BY <1>5, <1>6
  <2> QED
    BY <1>2, <2>1, JoinedIs
<1>8. Extra(128) = 4 /\ size = Len(head) + 4 /\ size = Len(front)
  BY <1>3, <1>6 DEF Extra, SizeOf, head
<1>9. \A i \in 1..Len(head) : frame[i] = marked[i]
  BY <1>3, <1>6, <1>7
<1>10. BeginsWith(frame, n, 1, 128)
  <2>1. frame[2] = head[2] + 128
    <3>1. 2 \in 1..Len(head)
      BY <1>3
    <3> QED
      BY <1>4, <1>9, <3>1
  <2>2. \A i \in 1..Len(head) : i # 2 => frame[i] = head[i]
    BY <1>4, <1>9
  <2>3. Len(frame) >= Len(head) + Extra(128)
    BY <1>3, <1>6, <1>7, <1>8
  <2>4. 128 \in {0, 128} /\ 1 \in 0..15
    OBVIOUS
  <2> QED
    BY <1>7, <2>1, <2>2, <2>3, <2>4 DEF BeginsWith, head
<1>11. SubSeq(frame, size - 3, size) = key
  <2> DEFINE a == SubSeq(frame, size - 3, size)
  <2>1. a \in Seq(Byte) /\ Len(a) = 4 /\ \A i \in 1..4 : a[i] = frame[Len(head) + i]
    <3> DEFINE b == size - 3
    <3>1. /\ frame \in Seq(Byte) /\ b \in Nat /\ size \in Nat /\ 1 <= b /\ b <= size + 1
          /\ size <= Len(frame) /\ (size - b) + 1 = 4 /\ b = Len(head) + 1
      BY <1>3, <1>6, <1>7, <1>8
    <3> HIDE DEF b
    <3>2. /\ SubSeq(frame, b, size) \in Seq(Byte)
          /\ Len(SubSeq(frame, b, size)) = (size - b) + 1
          /\ \A i \in 1..((size - b) + 1) : SubSeq(frame, b, size)[i] = frame[(b + i) - 1]
      BY <3>1, PartIs
    <3>3. \A i \in 1..4 : (b + i) - 1 = Len(head) + i
      BY <1>3, <3>1
    <3>4. /\ SubSeq(frame, b, size) \in Seq(Byte) /\ Len(SubSeq(frame, b, size)) = 4
          /\ \A i \in 1..4 : SubSeq(frame, b, size)[i] = frame[Len(head) + i]
      BY <3>1, <3>2, <3>3
    <3> QED
      BY <3>4 DEF b
  <2>2. \A i \in 1..4 : frame[Len(head) + i] = key[i]
    BY <1>3, <1>6, <1>7
  <2> HIDE DEF a
  <2>3. a = key
    BY <2>1, <2>2, KeyIs, SameString
  <2> QED
    BY <2>3 DEF a
<1>12. ASSUME NEW i \in 1..n
       PROVE  SubSeq(frame, size + 1, Len(frame))[i] = masked[i]
  <2> DEFINE a == size + 1
             b == Len(frame)
  <2>1. b = size + n /\ b = Len(frame) /\ size = Len(front)
    BY <1>7, <1>8
  <2>2. size \in Nat /\ n \in Nat
    BY <1>3, <1>8
  <2>3. /\ a \in Nat /\ b \in Nat /\ 1 <= a /\ a <= b + 1 /\ b <= Len(frame)
        /\ (b - a) + 1 = n /\ (a + i) - 1 = Len(front) + i
    <3> HIDE DEF b, n
    <3>1. b = size + n
      BY <2>1
    <3>2. i \in Nat
      BY <2>2
    <3>3. a \in Nat /\ b \in Nat /\ 1 <= a /\ a <= b + 1 /\ b <= b
      BY <2>2, <3>1
    <3>4. (b - a) + 1 = n /\ (a + i) - 1 = size + i
      BY <2>2, <3>1, <3>2
    <3> QED
      BY <2>1, <3>3, <3>4
  <2> HIDE DEF a, b
  <2>4. \A k \in 1..((b - a) + 1) : SubSeq(frame, a, b)[k] = frame[(a + k) - 1]
    BY <1>7, <2>3, PartIs
  <2>5. SubSeq(frame, a, b)[i] = frame[Len(front) + i]
    BY <2>3, <2>4
  <2> QED
    BY <1>7, <2>5 DEF a, b
<1> QED
  BY <1>5, <1>7, <1>8, <1>10, <1>11, <1>12

\* What FramesAreRead says, of any length and of any message.
LEMMA LengthRead ==
    ASSUME NEW n, Size(n), NEW head, head = MakeHead(n, 2)
    PROVE  /\ ParseHead(head) = [more |-> FALSE, fin |-> TRUE, opcode |-> 2,
                                 len |-> n, masked |-> FALSE, size |-> Len(head)]
           /\ \A k \in 0..(Len(head) - 1) : ParseHead(SubSeq(head, 1, k)) = MORE
<1>1. /\ head \in Seq(Byte) /\ Len(head) = 2 + LengthBytes(head[2])
      /\ head[1] = 128 + 2
      /\ head[2] \in Nat /\ head[2] <= 127
      /\ IF head[2] < 126 THEN head[2] = n ELSE Number(SubSeq(head, 3, Len(head))) = n
  <2>1. 2 \in 0..15
    OBVIOUS
  <2>2. HeadIs(head, n, 2)
    BY <2>1, MakeHeadIs
  <2> QED
    BY <2>2 DEF HeadIs
<1>2. Extra(0) = 0 /\ Len(head) \in Nat /\ Len(head) + 0 = Len(head)
  BY <1>1 DEF Extra
<1>3. BeginsWith(head, n, 2, 0)
  <2>1. Len(head) >= Len(head) + Extra(0)
    BY <1>2
  <2>2. head[2] = head[2] + 0
    BY <1>1
  <2>3. 0 \in {0, 128} /\ 2 \in 0..15
    OBVIOUS
  <2> QED
    BY <1>1, <2>1, <2>2, <2>3 DEF BeginsWith
<1>4. ParseHead(head) = HeadOf(n, 2, 0)
  BY <1>3, HeadRead
<1>5. HeadOf(n, 2, 0) = [more |-> FALSE, fin |-> TRUE, opcode |-> 2,
                         len |-> n, masked |-> FALSE, size |-> Len(head)]
  <2>1. (0 = 128) = FALSE
    OBVIOUS
  <2>2. Len(MakeHead(n, 2)) + Extra(0) = Len(head)
    BY <1>2
  <2> QED
    BY <2>1, <2>2, Zenon DEF HeadOf
<1>6. ASSUME NEW k \in 0..(Len(head) - 1) PROVE ParseHead(SubSeq(head, 1, k)) = MORE
  <2>1. k \in Nat /\ k < Len(MakeHead(n, 2)) + Extra(0)
    BY <1>2
  <2> QED
    BY <1>3, <2>1, HeadCut
<1> QED
  BY <1>4, <1>5, <1>6

LEMMA PlainFrameRead ==
    ASSUME NEW message \in Seq(Byte), Size(Len(message)),
           NEW frame, frame = MakeFrame(message, 1)
    PROVE  /\ ParsePayload(frame).msg = message
           /\ \A k \in 0..(Len(frame) - 1) : ParsePayload(SubSeq(frame, 1, k)) = MORE
<1> DEFINE n == Len(message)
           size == SizeOf(n, 1, 0)
<1>1. /\ frame \in Seq(Byte) /\ BeginsWith(frame, n, 1, 0)
      /\ Len(frame) = size + n /\ SubSeq(frame, size + 1, Len(frame)) = message
  <2>1. 1 \in 0..15
    OBVIOUS
  <2> QED
    BY <2>1, PlainFrame
<1>2. size = SizeOf(n, 1, 0) /\ Payload(frame, size, n) = message
  BY <1>1 DEF Payload
<1> HIDE DEF size, n
<1>3. ParsePayload(frame).msg = Payload(frame, size, n)
  <2> DEFINE one == 1
             m == 0
  <2>1. /\ BeginsWith(frame, n, one, m) /\ size = SizeOf(n, one, m)
        /\ Len(frame) = size + n /\ m = 0
    BY <1>1, <1>2
  <2> HIDE DEF one, m
  <2> QED
    BY <2>1, PayloadRead
<1>4. ASSUME NEW k \in 0..(Len(frame) - 1)
      PROVE  ParsePayload(SubSeq(frame, 1, k)) = MORE
  <2>1. k \in Nat /\ k < Len(frame)
    BY <1>1
  <2> QED
    BY <1>1, <1>2, <2>1, PayloadCut
<1> QED
  BY <1>2, <1>3, <1>4

LEMMA MaskedFrameRead ==
    ASSUME NEW message \in Seq(Byte), Size(Len(message)),
           NEW frame, frame = MaskedFrame(message)
    PROVE  /\ ParsePayload(frame).msg = message
           /\ \A k \in 0..(Len(frame) - 1) : ParsePayload(SubSeq(frame, 1, k)) = MORE
<1> DEFINE n == Len(message)
           size == SizeOf(n, 1, 128)
<1>1. /\ frame \in Seq(Byte) /\ BeginsWith(frame, n, 1, 128)
      /\ Len(frame) = size + n /\ SubSeq(frame, size - 3, size) = key
      /\ \A i \in 1..n : SubSeq(frame, size + 1, Len(frame))[i] =
                             Xor(message[i], key[((i - 1) % 4) + 1])
  BY AMaskedFrame
<1> DEFINE raw == SubSeq(frame, size + 1, size + n)
<1>2. size = SizeOf(n, 1, 128) /\ n \in Nat
  OBVIOUS
<1>3. \A i \in 1..n : raw[i] = Xor(message[i], key[((i - 1) % 4) + 1])
  BY <1>1
<1> HIDE DEF size
<1>4. ParsePayload(frame).msg =
          [i \in 1..n |-> Xor(raw[i], SubSeq(frame, size - 3, size)[((i - 1) % 4) + 1])]
  <2> DEFINE one == 1
             m == 128
  <2>1. /\ BeginsWith(frame, n, one, m) /\ size = SizeOf(n, one, m)
        /\ Len(frame) = size + n /\ m = 128
    BY <1>1, <1>2
  <2> HIDE DEF one, m, n
  <2>2. ParsePayload(frame).msg = Unmasked(frame, size, n)
    BY <2>1, PayloadRead
  <2> QED
    BY <2>2 DEF Unmasked
<1> HIDE DEF raw
<1>5. ASSUME NEW i \in 1..n
      PROVE  Xor(raw[i], SubSeq(frame, size - 3, size)[((i - 1) % 4) + 1]) = message[i]
  <2> DEFINE j == ((i - 1) % 4) + 1
  <2>1. j \in 1..4 /\ raw[i] = Xor(message[i], key[j])
    BY <1>3
  <2>2. SubSeq(frame, size - 3, size)[j] = key[j]
    BY <1>1
  <2> HIDE DEF j
  <2>3. message[i] \in Byte /\ key[j] \in Byte
    BY <2>1, KeyIs
  <2>4. Xor(Xor(message[i], key[j]), key[j]) = message[i]
    BY <2>3, XorTwice
  <2> QED
    BY <2>1, <2>2, <2>4 DEF j
<1>6. ParsePayload(frame).msg = message
  <2>1. ParsePayload(frame).msg = [i \in 1..n |-> message[i]]
    BY <1>4, <1>5
  <2> QED
    BY <2>1
<1>7. ASSUME NEW k \in 0..(Len(frame) - 1)
      PROVE  ParsePayload(SubSeq(frame, 1, k)) = MORE
  <2>1. k \in Nat /\ k < Len(frame)
    BY <1>1
  <2> HIDE DEF n
  <2> QED
    BY <1>1, <1>2, <2>1, PayloadCut
<1> QED
  BY <1>6, <1>7

-----------------------------------------------------------------------------
(* Base64.  Three bytes of a string are a block, the last one filled up    *)
(* with zeros.                                                             *)

ByteAt(x, i) == IF i <= Len(x) THEN x[i] ELSE 0
Block(x, n) ==
    <<ByteAt(x, (3 * n) + 1), ByteAt(x, (3 * n) + 2), ByteAt(x, (3 * n) + 3)>>

IsBlock(a) == a[1] \in Byte /\ a[2] \in Byte /\ a[3] \in Byte

LEMMA BlockNumbers ==
    ASSUME NEW a, IsBlock(a)
    PROVE  /\ a[1] \in Nat /\ a[1] <= 255 /\ a[2] \in Nat /\ a[2] <= 255
           /\ a[3] \in Nat /\ a[3] <= 255
BY Bytes DEF IsBlock

LEMMA BlockIs ==
    ASSUME NEW x \in Seq(Byte), NEW n \in Nat
    PROVE  /\ IsBlock(Block(x, n))
           /\ \A j \in 1..3 : Block(x, n)[j] = ByteAt(x, (3 * n) + j)
<1>1. 0 \in Byte
  BY DEF Byte
<1>2. \A i \in Nat \ {0} : ByteAt(x, i) \in Byte
  BY <1>1 DEF ByteAt
<1>3. /\ (3 * n) + 1 \in Nat \ {0} /\ (3 * n) + 2 \in Nat \ {0} /\ (3 * n) + 3 \in Nat \ {0}
  OBVIOUS
<1> DEFINE a == Block(x, n)
<1>4. /\ a[1] = ByteAt(x, (3 * n) + 1) /\ a[2] = ByteAt(x, (3 * n) + 2)
      /\ a[3] = ByteAt(x, (3 * n) + 3)
  BY DEF Block
<1> HIDE DEF a
<1>5. IsBlock(a)
  BY <1>2, <1>3, <1>4 DEF IsBlock
<1>6. ASSUME NEW j \in 1..3 PROVE a[j] = ByteAt(x, (3 * n) + j)
  <2>1. j = 1 \/ j = 2 \/ j = 3
    OBVIOUS
  <2> QED
    BY <1>4, <2>1
<1> QED
  BY <1>5, <1>6 DEF a

\* The numbers of Quad and Triple.
LEMMA QuadIs ==
    ASSUME NEW a
    PROVE  /\ Quad(a)[1] = a[1] \div 4
           /\ Quad(a)[2] = ((a[1] % 4) * 16) + (a[2] \div 16)
           /\ Quad(a)[3] = ((a[2] % 16) * 4) + (a[3] \div 64)
           /\ Quad(a)[4] = a[3] % 64
BY DEF Quad

LEMMA TripleIs ==
    ASSUME NEW q
    PROVE  /\ Triple(q)[1] = ((q[1] * 4) + ((q[2] \div 16) % 4)) % 256
           /\ Triple(q)[2] = ((q[2] % 16) * 16) + ((q[3] \div 4) % 16)
           /\ Triple(q)[3] = (((q[3] % 4) * 64) + q[4]) % 256
           /\ Len(Triple(q)) = 3
BY DEF Triple

LEMMA SextetIs == \A n \in Nat : n \in Sextet <=> n <= 63
BY DEF Sextet

\* What Quad gives is in the alphabet.
LEMMA QuadOfSextets ==
    ASSUME NEW a, IsBlock(a), NEW j \in 1..4
    PROVE  Quad(a)[j] \in Sextet /\ Quad(a)[j] \in Nat
<1>1. /\ a[1] \in Nat /\ a[1] <= 255 /\ a[2] \in Nat /\ a[2] <= 255
      /\ a[3] \in Nat /\ a[3] <= 255
  BY BlockNumbers
<1> DEFINE q == Quad(a)
<1>2. /\ q[1] = a[1] \div 4 /\ q[2] = ((a[1] % 4) * 16) + (a[2] \div 16)
      /\ q[3] = ((a[2] % 16) * 4) + (a[3] \div 64) /\ q[4] = a[3] % 64
  BY QuadIs
<1> HIDE DEF q
<1>3. q[1] \in Nat /\ q[1] <= 63
  BY <1>1, <1>2
<1>4. q[2] \in Nat /\ q[2] <= 63
  BY <1>1, <1>2
<1>5. q[3] \in Nat /\ q[3] <= 63
  BY <1>1, <1>2
<1>6. q[4] \in Nat /\ q[4] <= 63
  BY <1>1, <1>2
<1>7. j = 1 \/ j = 2 \/ j = 3 \/ j = 4
  OBVIOUS
<1>8. q[j] \in Nat /\ q[j] <= 63
  BY <1>3, <1>4, <1>5, <1>6, <1>7
<1> QED
  BY <1>8, SextetIs DEF q

\* Triple undoes Quad; the first bytes need the first digits only.
LEMMA TripleOfQuad ==
    ASSUME NEW a, IsBlock(a), NEW q, q[1] = Quad(a)[1], q[2] = Quad(a)[2]
    PROVE  /\ Triple(q)[1] = a[1]
           /\ q[3] = Quad(a)[3] => Triple(q)[2] = a[2]
           /\ q[3] = Quad(a)[3] /\ q[4] = Quad(a)[4] => Triple(q)[3] = a[3]
<1> DEFINE x == a[1]
           y == a[2]
           z == a[3]
<1>1. x \in Nat /\ x <= 255 /\ y \in Nat /\ y <= 255 /\ z \in Nat /\ z <= 255
  BY BlockNumbers
<1>2. /\ q[1] = x \div 4 /\ q[2] = ((x % 4) * 16) + (y \div 16)
      /\ q[3] = Quad(a)[3] => q[3] = ((y % 16) * 4) + (z \div 64)
      /\ q[4] = Quad(a)[4] => q[4] = z % 64
  BY QuadIs
<1> DEFINE d1 == x \div 4
           d2 == ((x % 4) * 16) + (y \div 16)
           d3 == ((y % 16) * 4) + (z \div 64)
           d4 == z % 64
<1> HIDE DEF x, y, z
<1>3. ((d1 * 4) + ((d2 \div 16) % 4)) % 256 = x
  <2>1. y \div 16 \in Nat /\ y \div 16 <= 15 /\ x % 4 \in Nat /\ x % 4 <= 3
    BY <1>1
  <2>2. d2 \div 16 = x % 4
    BY <2>1
  <2>3. (x % 4) % 4 = x % 4
    BY <2>1
  <2>4. (d1 * 4) + (x % 4) = x /\ x % 256 = x
    BY <1>1
  <2> HIDE DEF d1, d2
  <2> QED
    BY <2>2, <2>3, <2>4
<1>4. ((d2 % 16) * 16) + ((d3 \div 4) % 16) = y
  <2>1. /\ y \div 16 \in Nat /\ y \div 16 <= 15 /\ x % 4 \in Nat /\ x % 4 <= 3
        /\ z \div 64 \in Nat /\ z \div 64 <= 3 /\ y % 16 \in Nat /\ y % 16 <= 15
    BY <1>1
  <2>2. d2 % 16 = y \div 16
    BY <2>1
  <2>3. d3 \div 4 = y % 16 /\ (y % 16) % 16 = y % 16
    BY <2>1
  <2>4. ((y \div 16) * 16) + (y % 16) = y
    BY <1>1
  <2> HIDE DEF d2, d3
  <2> QED
    BY <2>2, <2>3, <2>4
<1>5. (((d3 % 4) * 64) + d4) % 256 = z
  <2>1. /\ z \div 64 \in Nat /\ z \div 64 <= 3 /\ y % 16 \in Nat /\ y % 16 <= 15
    BY <1>1
  <2>2. d3 % 4 = z \div 64
    BY <2>1
  <2>3. ((z \div 64) * 64) + d4 = z /\ z % 256 = z
    BY <1>1
  <2> HIDE DEF d3, d4
  <2> QED
    BY <2>2, <2>3
<1> HIDE DEF d1, d2, d3, d4
<1>6. Triple(q)[1] = x
  <2>1. q[1] = d1 /\ q[2] = d2
    BY <1>2 DEF d1, d2
  <2> QED
    BY <1>3, <2>1, TripleIs
<1>7. q[3] = Quad(a)[3] => Triple(q)[2] = y
  <2>1. q[3] = Quad(a)[3] => q[2] = d2 /\ q[3] = d3
    BY <1>2 DEF d2, d3
  <2> QED
    BY <1>4, <2>1, TripleIs
<1>8. q[3] = Quad(a)[3] /\ q[4] = Quad(a)[4] => Triple(q)[3] = z
  <2>1. q[3] = Quad(a)[3] /\ q[4] = Quad(a)[4] => q[3] = d3 /\ q[4] = d4
    BY <1>2 DEF d3, d4
  <2> QED
    BY <1>5, <2>1, TripleIs
<1> QED
  BY <1>6, <1>7, <1>8 DEF x, y, z

\* The bits of a block are those of its digits, in their order.
LEMMA QuadBits ==
    ASSUME NEW a, IsBlock(a), NEW q, q = Quad(a)
    PROVE  /\ (q[1] \div 32) % 2 = (a[1] \div 128) % 2
           /\ (q[1] \div 16) % 2 = (a[1] \div 64) % 2
           /\ (q[1] \div 8) % 2 = (a[1] \div 32) % 2
           /\ (q[1] \div 4) % 2 = (a[1] \div 16) % 2
           /\ (q[1] \div 2) % 2 = (a[1] \div 8) % 2
           /\ (q[1] \div 1) % 2 = (a[1] \div 4) % 2
           /\ (q[2] \div 32) % 2 = (a[1] \div 2) % 2
           /\ (q[2] \div 16) % 2 = (a[1] \div 1) % 2
           /\ (q[2] \div 8) % 2 = (a[2] \div 128) % 2
           /\ (q[2] \div 4) % 2 = (a[2] \div 64) % 2
           /\ (q[2] \div 2) % 2 = (a[2] \div 32) % 2
           /\ (q[2] \div 1) % 2 = (a[2] \div 16) % 2
           /\ (q[3] \div 32) % 2 = (a[2] \div 8) % 2
           /\ (q[3] \div 16) % 2 = (a[2] \div 4) % 2
           /\ (q[3] \div 8) % 2 = (a[2] \div 2) % 2
           /\ (q[3] \div 4) % 2 = (a[2] \div 1) % 2
           /\ (q[3] \div 2) % 2 = (a[3] \div 128) % 2
           /\ (q[3] \div 1) % 2 = (a[3] \div 64) % 2
           /\ (q[4] \div 32) % 2 = (a[3] \div 32) % 2
           /\ (q[4] \div 16) % 2 = (a[3] \div 16) % 2
           /\ (q[4] \div 8) % 2 = (a[3] \div 8) % 2
           /\ (q[4] \div 4) % 2 = (a[3] \div 4) % 2
           /\ (q[4] \div 2) % 2 = (a[3] \div 2) % 2
           /\ (q[4] \div 1) % 2 = (a[3] \div 1) % 2
<1> DEFINE x == a[1]
           y == a[2]
           z == a[3]
<1>1. x \in Nat /\ x <= 255 /\ y \in Nat /\ y <= 255 /\ z \in Nat /\ z <= 255
  BY BlockNumbers
<1>2. /\ q[1] = x \div 4 /\ q[2] = ((x % 4) * 16) + (y \div 16)
      /\ q[3] = ((y % 16) * 4) + (z \div 64) /\ q[4] = z % 64
  BY QuadIs
<1> HIDE DEF x, y, z
<1>3. (q[1] \div 32) % 2 = (x \div 128) % 2
  BY <1>1, <1>2
<1>4. (q[1] \div 16) % 2 = (x \div 64) % 2
  BY <1>1, <1>2
<1>5. (q[1] \div 8) % 2 = (x \div 32) % 2
  BY <1>1, <1>2
<1>6. (q[1] \div 4) % 2 = (x \div 16) % 2
  BY <1>1, <1>2
<1>7. (q[1] \div 2) % 2 = (x \div 8) % 2
  BY <1>1, <1>2
<1>8. (q[1] \div 1) % 2 = (x \div 4) % 2
  BY <1>1, <1>2
<1>9. (q[2] \div 32) % 2 = (x \div 2) % 2
  BY <1>1, <1>2
<1>10. (q[2] \div 16) % 2 = (x \div 1) % 2
  BY <1>1, <1>2
<1>11. (q[2] \div 8) % 2 = (y \div 128) % 2
  BY <1>1, <1>2
<1>12. (q[2] \div 4) % 2 = (y \div 64) % 2
  BY <1>1, <1>2
<1>13. (q[2] \div 2) % 2 = (y \div 32) % 2
  BY <1>1, <1>2
<1>14. (q[2] \div 1) % 2 = (y \div 16) % 2
  BY <1>1, <1>2
<1>15. (q[3] \div 32) % 2 = (y \div 8) % 2
  BY <1>1, <1>2
<1>16. (q[3] \div 16) % 2 = (y \div 4) % 2
  BY <1>1, <1>2
<1>17. (q[3] \div 8) % 2 = (y \div 2) % 2
  BY <1>1, <1>2
<1>18. (q[3] \div 4) % 2 = (y \div 1) % 2
  BY <1>1, <1>2
<1>19. (q[3] \div 2) % 2 = (z \div 128) % 2
  BY <1>1, <1>2
<1>20. (q[3] \div 1) % 2 = (z \div 64) % 2
  BY <1>1, <1>2
<1>21. (q[4] \div 32) % 2 = (z \div 32) % 2
  BY <1>1, <1>2
<1>22. (q[4] \div 16) % 2 = (z \div 16) % 2
  BY <1>1, <1>2
<1>23. (q[4] \div 8) % 2 = (z \div 8) % 2
  BY <1>1, <1>2
<1>24. (q[4] \div 4) % 2 = (z \div 4) % 2
  BY <1>1, <1>2
<1>25. (q[4] \div 2) % 2 = (z \div 2) % 2
  BY <1>1, <1>2
<1>26. (q[4] \div 1) % 2 = (z \div 1) % 2
  BY <1>1, <1>2
<1> QED
  BY <1>3, <1>4, <1>5, <1>6, <1>7, <1>8, <1>9, <1>10, <1>11, <1>12, <1>13, <1>14,
     <1>15, <1>16, <1>17, <1>18, <1>19, <1>20, <1>21, <1>22, <1>23, <1>24, <1>25, <1>26
  DEF x, y, z

LEMMA Powers ==
    /\ 2 ^ 0 = 1 /\ 2 ^ 1 = 2 /\ 2 ^ 2 = 4 /\ 2 ^ 3 = 8
    /\ 2 ^ 4 = 16 /\ 2 ^ 5 = 32 /\ 2 ^ 6 = 64 /\ 2 ^ 7 = 128
OBVIOUS

\* The bits of the digits are those of the bytes, in their order.
LEMMA BitMoves ==
    ASSUME NEW a, IsBlock(a), NEW q, q = Quad(a), NEW t \in 0..23
    PROVE  (q[(t \div 6) + 1] \div (2 ^ ((6 - 1) - (t % 6)))) % 2
           = (a[(t \div 8) + 1] \div (2 ^ ((8 - 1) - (t % 8)))) % 2
<1> DEFINE Q(j, p) == (q[j] \div p) % 2
           A(j, p) == (a[j] \div p) % 2
<1>1. /\ Q(1, 32) = A(1, 128)
      /\ Q(1, 16) = A(1, 64)
      /\ Q(1, 8) = A(1, 32)
      /\ Q(1, 4) = A(1, 16)
      /\ Q(1, 2) = A(1, 8)
      /\ Q(1, 1) = A(1, 4)
      /\ Q(2, 32) = A(1, 2)
      /\ Q(2, 16) = A(1, 1)
      /\ Q(2, 8) = A(2, 128)
      /\ Q(2, 4) = A(2, 64)
      /\ Q(2, 2) = A(2, 32)
      /\ Q(2, 1) = A(2, 16)
      /\ Q(3, 32) = A(2, 8)
      /\ Q(3, 16) = A(2, 4)
      /\ Q(3, 8) = A(2, 2)
      /\ Q(3, 4) = A(2, 1)
      /\ Q(3, 2) = A(3, 128)
      /\ Q(3, 1) = A(3, 64)
      /\ Q(4, 32) = A(3, 32)
      /\ Q(4, 16) = A(3, 16)
      /\ Q(4, 8) = A(3, 8)
      /\ Q(4, 4) = A(3, 4)
      /\ Q(4, 2) = A(3, 2)
      /\ Q(4, 1) = A(3, 1)
  BY QuadBits
<1>2. CASE t = 0
  <2>1. /\ (t \div 6) + 1 = 1 /\ (6 - 1) - (t % 6) = 5
        /\ (t \div 8) + 1 = 1 /\ (8 - 1) - (t % 8) = 7
    BY <1>2
  <2>2. 2 ^ ((6 - 1) - (t % 6)) = 32 /\ 2 ^ ((8 - 1) - (t % 8)) = 128
    BY <2>1, Powers
  <2> QED
    BY <1>1, <2>1, <2>2
<1>3. CASE t = 1
  <2>1. /\ (t \div 6) + 1 = 1 /\ (6 - 1) - (t % 6) = 4
        /\ (t \div 8) + 1 = 1 /\ (8 - 1) - (t % 8) = 6
    BY <1>3
  <2>2. 2 ^ ((6 - 1) - (t % 6)) = 16 /\ 2 ^ ((8 - 1) - (t % 8)) = 64
    BY <2>1, Powers
  <2> QED
    BY <1>1, <2>1, <2>2
<1>4. CASE t = 2
  <2>1. /\ (t \div 6) + 1 = 1 /\ (6 - 1) - (t % 6) = 3
        /\ (t \div 8) + 1 = 1 /\ (8 - 1) - (t % 8) = 5
    BY <1>4
  <2>2. 2 ^ ((6 - 1) - (t % 6)) = 8 /\ 2 ^ ((8 - 1) - (t % 8)) = 32
    BY <2>1, Powers
  <2> QED
    BY <1>1, <2>1, <2>2
<1>5. CASE t = 3
  <2>1. /\ (t \div 6) + 1 = 1 /\ (6 - 1) - (t % 6) = 2
        /\ (t \div 8) + 1 = 1 /\ (8 - 1) - (t % 8) = 4
    BY <1>5
  <2>2. 2 ^ ((6 - 1) - (t % 6)) = 4 /\ 2 ^ ((8 - 1) - (t % 8)) = 16
    BY <2>1, Powers
  <2> QED
    BY <1>1, <2>1, <2>2
<1>6. CASE t = 4
  <2>1. /\ (t \div 6) + 1 = 1 /\ (6 - 1) - (t % 6) = 1
        /\ (t \div 8) + 1 = 1 /\ (8 - 1) - (t % 8) = 3
    BY <1>6
  <2>2. 2 ^ ((6 - 1) - (t % 6)) = 2 /\ 2 ^ ((8 - 1) - (t % 8)) = 8
    BY <2>1, Powers
  <2> QED
    BY <1>1, <2>1, <2>2
<1>7. CASE t = 5
  <2>1. /\ (t \div 6) + 1 = 1 /\ (6 - 1) - (t % 6) = 0
        /\ (t \div 8) + 1 = 1 /\ (8 - 1) - (t % 8) = 2
    BY <1>7
  <2>2. 2 ^ ((6 - 1) - (t % 6)) = 1 /\ 2 ^ ((8 - 1) - (t % 8)) = 4
    BY <2>1, Powers
  <2> QED
    BY <1>1, <2>1, <2>2
<1>8. CASE t = 6
  <2>1. /\ (t \div 6) + 1 = 2 /\ (6 - 1) - (t % 6) = 5
        /\ (t \div 8) + 1 = 1 /\ (8 - 1) - (t % 8) = 1
    BY <1>8
  <2>2. 2 ^ ((6 - 1) - (t % 6)) = 32 /\ 2 ^ ((8 - 1) - (t % 8)) = 2
    BY <2>1, Powers
  <2> QED
    BY <1>1, <2>1, <2>2
<1>9. CASE t = 7
  <2>1. /\ (t \div 6) + 1 = 2 /\ (6 - 1) - (t % 6) = 4
        /\ (t \div 8) + 1 = 1 /\ (8 - 1) - (t % 8) = 0
    BY <1>9
  <2>2. 2 ^ ((6 - 1) - (t % 6)) = 16 /\ 2 ^ ((8 - 1) - (t % 8)) = 1
    BY <2>1, Powers
  <2> QED
    BY <1>1, <2>1, <2>2
<1>10. CASE t = 8
  <2>1. /\ (t \div 6) + 1 = 2 /\ (6 - 1) - (t % 6) = 3
        /\ (t \div 8) + 1 = 2 /\ (8 - 1) - (t % 8) = 7
    BY <1>10
  <2>2. 2 ^ ((6 - 1) - (t % 6)) = 8 /\ 2 ^ ((8 - 1) - (t % 8)) = 128
    BY <2>1, Powers
  <2> QED
    BY <1>1, <2>1, <2>2
<1>11. CASE t = 9
  <2>1. /\ (t \div 6) + 1 = 2 /\ (6 - 1) - (t % 6) = 2
        /\ (t \div 8) + 1 = 2 /\ (8 - 1) - (t % 8) = 6
    BY <1>11
  <2>2. 2 ^ ((6 - 1) - (t % 6)) = 4 /\ 2 ^ ((8 - 1) - (t % 8)) = 64
    BY <2>1, Powers
  <2> QED
    BY <1>1, <2>1, <2>2
<1>12. CASE t = 10
  <2>1. /\ (t \div 6) + 1 = 2 /\ (6 - 1) - (t % 6) = 1
        /\ (t \div 8) + 1 = 2 /\ (8 - 1) - (t % 8) = 5
    BY <1>12
  <2>2. 2 ^ ((6 - 1) - (t % 6)) = 2 /\ 2 ^ ((8 - 1) - (t % 8)) = 32
    BY <2>1, Powers
  <2> QED
    BY <1>1, <2>1, <2>2
<1>13. CASE t = 11
  <2>1. /\ (t \div 6) + 1 = 2 /\ (6 - 1) - (t % 6) = 0
        /\ (t \div 8) + 1 = 2 /\ (8 - 1) - (t % 8) = 4
    BY <1>13
  <2>2. 2 ^ ((6 - 1) - (t % 6)) = 1 /\ 2 ^ ((8 - 1) - (t % 8)) = 16
    BY <2>1, Powers
  <2> QED
    BY <1>1, <2>1, <2>2
<1>14. CASE t = 12
  <2>1. /\ (t \div 6) + 1 = 3 /\ (6 - 1) - (t % 6) = 5
        /\ (t \div 8) + 1 = 2 /\ (8 - 1) - (t % 8) = 3
    BY <1>14
  <2>2. 2 ^ ((6 - 1) - (t % 6)) = 32 /\ 2 ^ ((8 - 1) - (t % 8)) = 8
    BY <2>1, Powers
  <2> QED
    BY <1>1, <2>1, <2>2
<1>15. CASE t = 13
  <2>1. /\ (t \div 6) + 1 = 3 /\ (6 - 1) - (t % 6) = 4
        /\ (t \div 8) + 1 = 2 /\ (8 - 1) - (t % 8) = 2
    BY <1>15
  <2>2. 2 ^ ((6 - 1) - (t % 6)) = 16 /\ 2 ^ ((8 - 1) - (t % 8)) = 4
    BY <2>1, Powers
  <2> QED
    BY <1>1, <2>1, <2>2
<1>16. CASE t = 14
  <2>1. /\ (t \div 6) + 1 = 3 /\ (6 - 1) - (t % 6) = 3
        /\ (t \div 8) + 1 = 2 /\ (8 - 1) - (t % 8) = 1
    BY <1>16
  <2>2. 2 ^ ((6 - 1) - (t % 6)) = 8 /\ 2 ^ ((8 - 1) - (t % 8)) = 2
    BY <2>1, Powers
  <2> QED
    BY <1>1, <2>1, <2>2
<1>17. CASE t = 15
  <2>1. /\ (t \div 6) + 1 = 3 /\ (6 - 1) - (t % 6) = 2
        /\ (t \div 8) + 1 = 2 /\ (8 - 1) - (t % 8) = 0
    BY <1>17
  <2>2. 2 ^ ((6 - 1) - (t % 6)) = 4 /\ 2 ^ ((8 - 1) - (t % 8)) = 1
    BY <2>1, Powers
  <2> QED
    BY <1>1, <2>1, <2>2
<1>18. CASE t = 16
  <2>1. /\ (t \div 6) + 1 = 3 /\ (6 - 1) - (t % 6) = 1
        /\ (t \div 8) + 1 = 3 /\ (8 - 1) - (t % 8) = 7
    BY <1>18
  <2>2. 2 ^ ((6 - 1) - (t % 6)) = 2 /\ 2 ^ ((8 - 1) - (t % 8)) = 128
    BY <2>1, Powers
  <2> QED
    BY <1>1, <2>1, <2>2
<1>19. CASE t = 17
  <2>1. /\ (t \div 6) + 1 = 3 /\ (6 - 1) - (t % 6) = 0
        /\ (t \div 8) + 1 = 3 /\ (8 - 1) - (t % 8) = 6
    BY <1>19
  <2>2. 2 ^ ((6 - 1) - (t % 6)) = 1 /\ 2 ^ ((8 - 1) - (t % 8)) = 64
    BY <2>1, Powers
  <2> QED
    BY <1>1, <2>1, <2>2
<1>20. CASE t = 18
  <2>1. /\ (t \div 6) + 1 = 4 /\ (6 - 1) - (t % 6) = 5
        /\ (t \div 8) + 1 = 3 /\ (8 - 1) - (t % 8) = 5
    BY <1>20
  <2>2. 2 ^ ((6 - 1) - (t % 6)) = 32 /\ 2 ^ ((8 - 1) - (t % 8)) = 32
    BY <2>1, Powers
  <2> QED
    BY <1>1, <2>1, <2>2
<1>21. CASE t = 19
  <2>1. /\ (t \div 6) + 1 = 4 /\ (6 - 1) - (t % 6) = 4
        /\ (t \div 8) + 1 = 3 /\ (8 - 1) - (t % 8) = 4
    BY <1>21
  <2>2. 2 ^ ((6 - 1) - (t % 6)) = 16 /\ 2 ^ ((8 - 1) - (t % 8)) = 16
    BY <2>1, Powers
  <2> QED
    BY <1>1, <2>1, <2>2
<1>22. CASE t = 20
  <2>1. /\ (t \div 6) + 1 = 4 /\ (6 - 1) - (t % 6) = 3
        /\ (t \div 8) + 1 = 3 /\ (8 - 1) - (t % 8) = 3
    BY <1>22
  <2>2. 2 ^ ((6 - 1) - (t % 6)) = 8 /\ 2 ^ ((8 - 1) - (t % 8)) = 8
    BY <2>1, Powers
  <2> QED
    BY <1>1, <2>1, <2>2
<1>23. CASE t = 21
  <2>1. /\ (t \div 6) + 1 = 4 /\ (6 - 1) - (t % 6) = 2
        /\ (t \div 8) + 1 = 3 /\ (8 - 1) - (t % 8) = 2
    BY <1>23
  <2>2. 2 ^ ((6 - 1) - (t % 6)) = 4 /\ 2 ^ ((8 - 1) - (t % 8)) = 4
    BY <2>1, Powers
  <2> QED
    BY <1>1, <2>1, <2>2
<1>24. CASE t = 22
  <2>1. /\ (t \div 6) + 1 = 4 /\ (6 - 1) - (t % 6) = 1
        /\ (t \div 8) + 1 = 3 /\ (8 - 1) - (t % 8) = 1
    BY <1>24
  <2>2. 2 ^ ((6 - 1) - (t % 6)) = 2 /\ 2 ^ ((8 - 1) - (t % 8)) = 2
    BY <2>1, Powers
  <2> QED
    BY <1>1, <2>1, <2>2
<1>25. CASE t = 23
  <2>1. /\ (t \div 6) + 1 = 4 /\ (6 - 1) - (t % 6) = 0
        /\ (t \div 8) + 1 = 3 /\ (8 - 1) - (t % 8) = 0
    BY <1>25
  <2>2. 2 ^ ((6 - 1) - (t % 6)) = 1 /\ 2 ^ ((8 - 1) - (t % 8)) = 1
    BY <2>1, Powers
  <2> QED
    BY <1>1, <2>1, <2>2
<1> HIDE DEF Q, A
<1>26. t = 0 \/ t = 1 \/ t = 2 \/ t = 3 \/ t = 4 \/ t = 5 \/ t = 6 \/ t = 7
       \/ t = 8 \/ t = 9 \/ t = 10 \/ t = 11 \/ t = 12 \/ t = 13 \/ t = 14 \/ t = 15
       \/ t = 16 \/ t = 17 \/ t = 18 \/ t = 19 \/ t = 20 \/ t = 21 \/ t = 22 \/ t = 23
  OBVIOUS
<1> QED
  BY <1>2, <1>3, <1>4, <1>5, <1>6, <1>7, <1>8, <1>9, <1>10, <1>11, <1>12, <1>13,
     <1>14, <1>15, <1>16, <1>17, <1>18, <1>19, <1>20, <1>21, <1>22, <1>23, <1>24,
     <1>25, <1>26

\* How many whole blocks there are, what is left, and the digits.
Parted(N, G, r) == G = N \div 3 /\ r = N % 3

LEMMA Counts ==
    ASSUME NEW N \in Nat, NEW G, NEW r, Parted(N, G, r)
    PROVE  /\ G \in Nat /\ r \in Nat /\ N = (3 * G) + r
           /\ r = 0 \/ r = 1 \/ r = 2
           /\ r = 0 => /\ ((8 * N) + 5) \div 6 = 4 * G /\ (N + 2) \div 3 = G
           /\ r = 1 => /\ ((8 * N) + 5) \div 6 = (4 * G) + 2 /\ (N + 2) \div 3 = G + 1
           /\ r = 2 => /\ ((8 * N) + 5) \div 6 = (4 * G) + 3 /\ (N + 2) \div 3 = G + 1
<1>1. G \in Nat /\ r \in Nat /\ N = (3 * G) + r /\ r <= 2
  BY DEF Parted
<1>2. r = 0 \/ r = 1 \/ r = 2
  BY <1>1
<1>3. CASE r = 0
  <2>1. (8 * N) + 5 = (6 * (4 * G)) + 5 /\ N + 2 = (3 * G) + 2
    BY <1>1, <1>3
  <2>2. ((8 * N) + 5) \div 6 = 4 * G /\ (N + 2) \div 3 = G
    BY <1>1, <2>1
  <2> QED
    BY <1>1, <1>3, <2>2
<1>4. CASE r = 1
  <2>1. (8 * N) + 5 = (6 * ((4 * G) + 2)) + 1 /\ N + 2 = 3 * (G + 1)
    BY <1>1, <1>4
  <2>2. ((8 * N) + 5) \div 6 = (4 * G) + 2 /\ (N + 2) \div 3 = G + 1
    BY <1>1, <2>1
  <2> QED
    BY <1>1, <1>4, <2>2
<1>5. CASE r = 2
  <2>1. (8 * N) + 5 = (6 * ((4 * G) + 3)) + 3 /\ N + 2 = (3 * (G + 1)) + 1
    BY <1>1, <1>5
  <2>2. ((8 * N) + 5) \div 6 = (4 * G) + 3 /\ (N + 2) \div 3 = G + 1
    BY <1>1, <2>1
  <2> QED
    BY <1>1, <1>5, <2>2
<1> QED
  BY <1>2, <1>3, <1>4, <1>5

LEMMA SameQuad ==
    ASSUME NEW a, NEW b, a[1] = b[1], a[2] = b[2], a[3] = b[3]
    PROVE  Quad(a) = Quad(b)
BY DEF Quad

\* The groups of three that Base64Encode takes are the blocks.
LEMMA GroupIs ==
    ASSUME NEW x \in Seq(Byte), NEW k \in Nat, (3 * k) + 3 <= Len(x)
    PROVE  Quad(Group(x, k + 1, 3)) = Quad(Block(x, k))
<1> DEFINE a == Group(x, k + 1, 3)
           b == Block(x, k)
           from == (3 * k) + 1
           to == (3 * k) + 3
<1>1. ((k + 1) - 1) * 3 + 1 = from /\ (k + 1) * 3 = to
  OBVIOUS
<1>2. a = SubSeq(x, from, to)
  BY <1>1 DEF Group
<1>3. /\ from \in Nat /\ to \in Nat /\ 1 <= from /\ from <= to + 1 /\ to <= Len(x)
      /\ (to - from) + 1 = 3
      /\ (from + 1) - 1 = (3 * k) + 1 /\ (from + 2) - 1 = (3 * k) + 2
      /\ (from + 3) - 1 = (3 * k) + 3
  OBVIOUS
<1>4. b[1] = ByteAt(x, (3 * k) + 1) /\ b[2] = ByteAt(x, (3 * k) + 2)
      /\ b[3] = ByteAt(x, (3 * k) + 3)
  BY DEF Block
<1>5. (3 * k) + 1 <= Len(x) /\ (3 * k) + 2 <= Len(x)
  OBVIOUS
<1>6. b[1] = x[(3 * k) + 1] /\ b[2] = x[(3 * k) + 2] /\ b[3] = x[(3 * k) + 3]
  BY <1>4, <1>5 DEF ByteAt
<1> HIDE DEF a, b, from, to
<1>7. \A i \in 1..3 : a[i] = x[(from + i) - 1]
  <2>1. \A i \in 1..((to - from) + 1) : SubSeq(x, from, to)[i] = x[(from + i) - 1]
    BY <1>3, PartIs
  <2> QED
    BY <1>2, <1>3, <2>1
<1>8. a[1] = b[1] /\ a[2] = b[2] /\ a[3] = b[3]
  BY <1>3, <1>6, <1>7
<1>9. Quad(a) = Quad(b)
  BY <1>8, SameQuad
<1> QED
  BY <1>9 DEF a, b

\* The tail is the last block.
LEMMA TailIs ==
    ASSUME NEW x \in Seq(Byte), NEW G, NEW r, Parted(Len(x), G, r),
           NEW tail, tail = Remainder(x, 3)
    PROVE  /\ tail \in Seq(Byte) /\ Len(tail) = r
           /\ r # 0 => Quad(tail \o <<0, 0>>) = Quad(Block(x, G))
<1>1. /\ Len(x) \in Nat /\ G \in Nat /\ r \in Nat /\ Len(x) = (3 * G) + r
      /\ r = 0 \/ r = 1 \/ r = 2
  <2>1. Len(x) \in Nat
    OBVIOUS
  <2> QED
    BY <2>1, Counts
<1> DEFINE n == Len(x)
           from == (3 * G) + 1
           b == Block(x, G)
           z == tail \o <<0, 0>>
<1>2. tail = SubSeq(x, from, n)
  <2>1. Groups(x, 3) * 3 + 1 = from
    BY <1>1 DEF Groups, Parted
  <2> QED
    BY <2>1 DEF Remainder
<1>3. b[1] = ByteAt(x, (3 * G) + 1) /\ b[2] = ByteAt(x, (3 * G) + 2)
      /\ b[3] = ByteAt(x, (3 * G) + 3)
  BY DEF Block
<1>4. n \in Nat /\ from \in Nat /\ 1 <= from /\ from <= n + 1 /\ n <= Len(x)
      /\ (n - from) + 1 = r
      /\ (from + 1) - 1 = (3 * G) + 1 /\ (from + 2) - 1 = (3 * G) + 2
  BY <1>1
<1>5. /\ (3 * G) + 1 <= n <=> r # 0
      /\ (3 * G) + 2 <= n <=> r = 2
      /\ ~((3 * G) + 3 <= n)
  BY <1>1
<1> HIDE DEF n, b, from
<1>6. tail \in Seq(Byte) /\ Len(tail) = r /\ \A i \in 1..r : tail[i] = x[(from + i) - 1]
  <2>1. /\ SubSeq(x, from, n) \in Seq(Byte) /\ Len(SubSeq(x, from, n)) = (n - from) + 1
        /\ \A i \in 1..((n - from) + 1) : SubSeq(x, from, n)[i] = x[(from + i) - 1]
    BY <1>4, PartIs
  <2> QED
    BY <1>2, <1>4, <2>1
<1>7. 0 \in Byte
  BY DEF Byte
<1>8. CASE r = 1
  <2>1. b[1] = x[(3 * G) + 1] /\ b[2] = 0 /\ b[3] = 0
    BY <1>3, <1>5, <1>8 DEF ByteAt, n
  <2>2. tail[1] = x[(3 * G) + 1]
    BY <1>4, <1>6, <1>8
  <2>3. z[1] = tail[1] /\ z[2] = 0 /\ z[3] = 0
    BY <1>6, <1>7, <1>8
  <2> HIDE DEF z
  <2>4. Quad(z) = Quad(b)
    BY <2>1, <2>2, <2>3, SameQuad
  <2> QED
    BY <1>6, <2>4 DEF z, b
<1>9. CASE r = 2
  <2>1. b[1] = x[(3 * G) + 1] /\ b[2] = x[(3 * G) + 2] /\ b[3] = 0
    BY <1>3, <1>5, <1>9 DEF ByteAt, n
  <2>2. tail[1] = x[(3 * G) + 1] /\ tail[2] = x[(3 * G) + 2]
    BY <1>4, <1>6, <1>9
  <2>3. z[1] = tail[1] /\ z[2] = tail[2] /\ z[3] = 0
    BY <1>6, <1>7, <1>9
  <2> HIDE DEF z
  <2>4. Quad(z) = Quad(b)
    BY <2>1, <2>2, <2>3, SameQuad
  <2> QED
    BY <1>6, <2>4 DEF z, b
<1> QED
  BY <1>1, <1>6, <1>8, <1>9

\* The i-th digit of x.
Digit(x, i) == Quad(Block(x, (i - 1) \div 4))[((i - 1) % 4) + 1]

LEMMA DigitIs ==
    ASSUME NEW x \in Seq(Byte), NEW i \in Nat \ {0}
    PROVE  Digit(x, i) \in Sextet /\ Digit(x, i) \in Byte
<1>1. (i - 1) \div 4 \in Nat /\ ((i - 1) % 4) + 1 \in 1..4
  OBVIOUS
<1>2. IsBlock(Block(x, (i - 1) \div 4))
  BY <1>1, BlockIs
<1>3. Digit(x, i) \in Sextet /\ Digit(x, i) \in Nat
  BY <1>1, <1>2, QuadOfSextets DEF Digit
<1> DEFINE d == Digit(x, i)
<1> HIDE DEF d
<1>4. d \in Nat /\ d <= 63
  BY <1>3, SextetIs DEF d
<1>5. d <= 255
  BY <1>4
<1>6. d \in Byte
  BY <1>4, <1>5, Bytes
<1> QED
  BY <1>3, <1>6 DEF d

LEMMA DigitAt ==
    ASSUME NEW x, NEW k \in Nat, NEW j \in 1..4
    PROVE  Digit(x, (4 * k) + j) = Quad(Block(x, k))[j]
<1>1. (((4 * k) + j) - 1) \div 4 = k /\ ((((4 * k) + j) - 1) % 4) + 1 = j
  OBVIOUS
<1> QED
  BY <1>1 DEF Digit

LEMMA Nothing == <<>> \in Seq(Byte) /\ Len(<<>>) = 0
OBVIOUS

\* e is what encoding the tail of x gives.
EndOf(e, x) == e = EncodeTail(Remainder(x, 3))

LEMMA WholeDigits ==
    ASSUME NEW x \in Seq(Byte), NEW G, NEW h, G = Len(x) \div 3,
           h = [i \in 1..(4 * Groups(x, 3)) |->
                   Quad(Group(x, ((i - 1) \div 4) + 1, 3))[((i - 1) % 4) + 1]]
    PROVE  h \in Seq(Byte) /\ Len(h) = 4 * G /\ \A i \in 1..(4 * G) : h[i] = Digit(x, i)
<1>1. G \in Nat /\ 3 * G <= Len(x)
  <2>1. Len(x) \in Nat
    OBVIOUS
  <2> QED
    BY <2>1
<1> DEFINE n == 4 * G
<1>2. n \in Nat /\ n = 4 * Groups(x, 3)
  BY <1>1 DEF Groups
<1>3. ASSUME NEW i \in 1..n PROVE h[i] = Digit(x, i) /\ h[i] \in Byte
  <2>1. (i - 1) \div 4 \in Nat /\ (3 * ((i - 1) \div 4)) + 3 <= Len(x) /\ i \in Nat \ {0}
    <3>1. (i - 1) \div 4 < G /\ (i - 1) \div 4 \in Nat
      BY <1>1
    <3>2. Len(x) \in Nat
      OBVIOUS
    <3> QED
      BY <1>1, <3>1, <3>2
  <2>2. Quad(Group(x, ((i - 1) \div 4) + 1, 3)) = Quad(Block(x, (i - 1) \div 4))
    BY <2>1, GroupIs
  <2>3. h[i] = Quad(Group(x, ((i - 1) \div 4) + 1, 3))[((i - 1) % 4) + 1]
    BY <1>2
  <2>4. h[i] = Digit(x, i)
    BY <2>2, <2>3 DEF Digit
  <2> QED
    BY <2>1, <2>4, DigitIs
<1>4. h = [i \in 1..n |-> h[i]]
  BY <1>2
<1> HIDE DEF n
<1>5. h \in Seq(Byte) /\ Len(h) = n
  BY <1>2, <1>3, <1>4, StringOf
<1> QED
  BY <1>3, <1>5 DEF n

LEMMA LastDigits ==
    ASSUME NEW x \in Seq(Byte), NEW G, NEW r, Parted(Len(x), G, r), NEW e, EndOf(e, x)
    PROVE  /\ e \in Seq(Byte) /\ Len(e) = IF r = 0 THEN 0 ELSE 4
           /\ r # 0 => \A j \in 1..4 : e[j] = IF j <= r + 1 THEN Digit(x, (4 * G) + j)
                                              ELSE PAD
<1> DEFINE tail == Remainder(x, 3)
           q == Quad(tail \o <<0, 0>>)
<1>1. /\ tail \in Seq(Byte) /\ Len(tail) = r
      /\ r # 0 => q = Quad(Block(x, G))
  BY TailIs
<1>2. Len(x) \in Nat /\ G \in Nat /\ r \in Nat
  <2>1. Len(x) \in Nat
    OBVIOUS
  <2> QED
    BY <2>1, Counts
<1>3. e = IF tail = <<>> THEN <<>>
          ELSE [j \in 1..4 |-> IF j <= Len(tail) + 1 THEN q[j] ELSE PAD]
  BY DEF EncodeTail, EndOf
<1> HIDE DEF tail, q
<1>4. CASE r = 0
  <2>1. tail = <<>>
    BY <1>1, <1>4
  <2>2. e = <<>>
    BY <1>3, <2>1
  <2>3. e \in Seq(Byte) /\ Len(e) = 0
    BY <2>2, Nothing
  <2> QED
    BY <1>4, <2>3
<1>5. CASE r # 0
  <2>1. e = [j \in 1..4 |-> IF j <= r + 1 THEN q[j] ELSE PAD]
    BY <1>1, <1>3, <1>5
  <2>2. ASSUME NEW j \in 1..4
        PROVE  /\ e[j] = IF j <= r + 1 THEN Digit(x, (4 * G) + j) ELSE PAD
               /\ e[j] \in Byte
    <3>1. q[j] = Digit(x, (4 * G) + j)
      BY <1>1, <1>2, <1>5, DigitAt
    <3>2. (4 * G) + j \in Nat \ {0} /\ PAD \in Byte
      BY <1>2 DEF PAD, Byte
    <3>3. Digit(x, (4 * G) + j) \in Byte
      BY <3>2, DigitIs
    <3> QED
      BY <2>1, <3>1, <3>2, <3>3
  <2>3. e = [j \in 1..4 |-> e[j]]
    BY <2>1
  <2> DEFINE four == 4
  <2>4. four \in Nat /\ e = [j \in 1..four |-> e[j]] /\ \A j \in 1..four : e[j] \in Byte
    BY <2>2, <2>3
  <2> HIDE DEF four
  <2>5. e \in Seq(Byte) /\ Len(e) = four
    BY <2>4, StringOf
  <2> QED
    BY <1>5, <2>2, <2>5 DEF four
<1> QED
  BY <1>4, <1>5

\* The whole text: the digits, then the padding.
LEMMA TextIs ==
    ASSUME NEW x \in Seq(Byte), NEW text, text = Base64Encode(x),
           NEW digits, digits = ((8 * Len(x)) + 5) \div 6
    PROVE  /\ text \in Seq(Byte) /\ Len(text) = 4 * ((Len(x) + 2) \div 3)
           /\ digits \in Nat /\ digits <= Len(text)
           /\ \A i \in 1..Len(text) :
                  text[i] = IF i <= digits THEN Digit(x, i) ELSE PAD
<1> DEFINE G == Len(x) \div 3
           r == Len(x) % 3
           N == Len(x)
           L == (N + 2) \div 3
           h == [i \in 1..(4 * Groups(x, 3)) |->
                    Quad(Group(x, ((i - 1) \div 4) + 1, 3))[((i - 1) % 4) + 1]]
           e == EncodeTail(Remainder(x, 3))
<1>1. h \in Seq(Byte) /\ Len(h) = 4 * G /\ \A i \in 1..(4 * G) : h[i] = Digit(x, i)
  BY WholeDigits
<1>2. /\ Parted(N, G, r) /\ N = Len(x) /\ EndOf(e, x)
      /\ digits = ((8 * N) + 5) \div 6 /\ L = (N + 2) \div 3
  BY DEF Parted, EndOf
<1>3. Joined(text, h, e)
  BY DEF Joined, Base64Encode
<1>4. /\ G \in Nat /\ r \in Nat /\ N = (3 * G) + r
      /\ r = 0 \/ r = 1 \/ r = 2
      /\ r = 0 => digits = 4 * G /\ L = G
      /\ r = 1 => digits = (4 * G) + 2 /\ L = G + 1
      /\ r = 2 => digits = (4 * G) + 3 /\ L = G + 1
  <2>1. N \in Nat
    OBVIOUS
  <2> HIDE DEF N, G, r, L
  <2>2. /\ G \in Nat /\ r \in Nat /\ N = (3 * G) + r
        /\ r = 0 \/ r = 1 \/ r = 2
        /\ r = 0 => /\ ((8 * N) + 5) \div 6 = 4 * G /\ (N + 2) \div 3 = G
        /\ r = 1 => /\ ((8 * N) + 5) \div 6 = (4 * G) + 2 /\ (N + 2) \div 3 = G + 1
        /\ r = 2 => /\ ((8 * N) + 5) \div 6 = (4 * G) + 3 /\ (N + 2) \div 3 = G + 1
    BY <1>2, <2>1, Counts
  <2> QED
    BY <1>2, <2>2
<1> HIDE DEF h, e, G, r, L, N
<1>5. /\ e \in Seq(Byte) /\ Len(e) = IF r = 0 THEN 0 ELSE 4
      /\ r # 0 => \A j \in 1..4 : e[j] = IF j <= r + 1 THEN Digit(x, (4 * G) + j)
                                         ELSE PAD
  BY <1>2, LastDigits
<1>6. /\ text \in Seq(Byte) /\ Len(text) = Len(h) + Len(e)
      /\ \A i \in 1..Len(h) : text[i] = h[i]
      /\ \A i \in 1..Len(e) : text[Len(h) + i] = e[i]
  <2>1. h \in Seq(Byte) /\ e \in Seq(Byte)
    BY <1>1, <1>5
  <2> QED
    BY <2>1, <1>3, JoinedIs
<1>7. Len(text) = 4 * L /\ digits \in Nat /\ digits <= 4 * L
  <2>1. r = 0 => Len(text) = 4 * L /\ digits \in Nat /\ digits <= 4 * L
    BY <1>1, <1>5, <1>4, <1>6
  <2>2. r = 1 => Len(text) = 4 * L /\ digits \in Nat /\ digits <= 4 * L
    BY <1>1, <1>5, <1>4, <1>6
  <2>3. r = 2 => Len(text) = 4 * L /\ digits \in Nat /\ digits <= 4 * L
    BY <1>1, <1>5, <1>4, <1>6
  <2> QED
    BY <1>4, <2>1, <2>2, <2>3
<1>8. ASSUME NEW i \in 1..Len(text)
      PROVE  text[i] = IF i <= digits THEN Digit(x, i) ELSE PAD
  <2>1. CASE i <= 4 * G
    <3>1. i \in 1..Len(h) /\ i \in 1..(4 * G) /\ i <= digits
      BY <1>1, <1>4, <2>1
    <3> QED
      BY <1>1, <1>6, <3>1
  <2>2. CASE ~(i <= 4 * G)
    <3> DEFINE j == i - (4 * G)
    <3>1. r # 0 /\ j \in 1..4 /\ i = (4 * G) + j
      BY <1>1, <1>5, <1>4, <1>6, <1>7, <2>2
    <3>2. j <= r + 1 <=> i <= digits
      BY <1>4, <3>1
    <3> HIDE DEF j
    <3>3. text[i] = e[j]
      <4>1. Len(h) = 4 * G /\ j \in 1..Len(e)
        BY <1>1, <1>5, <3>1
      <4> QED
        BY <1>6, <3>1, <4>1
    <3> QED
      BY <1>5, <3>1, <3>2, <3>3
  <2> QED
    BY <2>1, <2>2, <1>4
<1> QED
  BY <1>6, <1>7, <1>8 DEF L, N

\* s is the digits of x, and what decoding makes of digits.
DigitsOf(s, x) ==
    /\ s \in Seq(Byte) /\ Len(s) = ((8 * Len(x)) + 5) \div 6
    /\ \A i \in 1..Len(s) : s[i] = Digit(x, i)

WholeOf(s) ==
    [i \in 1..(3 * Groups(s, 4)) |->
        Triple(Group(s, ((i - 1) \div 3) + 1, 4))[((i - 1) % 3) + 1]]

LEMMA PadIs == PAD \notin Sextet
BY DEF PAD, Sextet

\* Decoding stops at the padding.
LEMMA DigitsTaken ==
    ASSUME NEW x \in Seq(Byte), NEW text, text = Base64Encode(x)
    PROVE  \E s : /\ DigitsOf(s, x)
                  /\ Base64Decode(text) = WholeOf(s) \o DecodeTail(Remainder(s, 4))
<1> DEFINE digits == ((8 * Len(x)) + 5) \div 6
           I == {i \in 1..Len(text) : text[i] \notin Sextet}
           stop == IF I # {} THEN Min(I) ELSE 0
           s == IF stop = 0 THEN text ELSE SubSeq(text, 1, stop - 1)
<1>1. /\ text \in Seq(Byte) /\ digits \in Nat /\ digits <= Len(text)
      /\ \A i \in 1..Len(text) : text[i] = IF i <= digits THEN Digit(x, i) ELSE PAD
  BY TextIs
<1>2. Base64Decode(text) = WholeOf(s) \o DecodeTail(Remainder(s, 4))
  BY DEF Base64Decode, SelectInSeq, WholeOf
<1> HIDE DEF digits
<1>3. \A i \in 1..Len(text) : text[i] \in Sextet <=> i <= digits
  <2>1. ASSUME NEW i \in 1..Len(text) PROVE text[i] \in Sextet <=> i <= digits
    <3>1. i \in Nat \ {0}
      OBVIOUS
    <3>2. Digit(x, i) \in Sextet /\ PAD \notin Sextet
      BY <3>1, DigitIs, PadIs
    <3> QED
      BY <1>1, <3>2
  <2> QED
    BY <2>1
<1>4. Len(text) \in Nat
  BY <1>1
<1>5. s \in Seq(Byte) /\ Len(s) = digits /\ \A i \in 1..digits : s[i] = text[i]
  <2>1. CASE digits = Len(text)
    <3>1. I = {}
      BY <1>3, <1>4, <2>1
    <3> HIDE DEF I
    <3>2. s = text
      BY <3>1
    <3> QED
      BY <1>1, <2>1, <3>2
  <2>2. CASE digits # Len(text)
    <3> DEFINE k == digits + 1
    <3>1. k \in 1..Len(text)
      BY <1>1, <1>4, <2>2
    <3>2. k \in I /\ \A i \in I : k <= i
      BY <1>1, <1>3, <3>1
    <3>3. I # {} /\ k # 0 /\ k - 1 = digits
      BY <1>1, <3>2
    <3> HIDE DEF k
    <3>4. Min(I) = k
      BY <3>1, <3>2 DEF Min
    <3> HIDE DEF I
    <3>5. s = SubSeq(text, 1, digits)
      BY <3>3, <3>4
    <3> HIDE DEF s
    <3>6. /\ SubSeq(text, 1, digits) \in Seq(Byte)
          /\ Len(SubSeq(text, 1, digits)) = (digits - 1) + 1
          /\ \A i \in 1..((digits - 1) + 1) : SubSeq(text, 1, digits)[i] = text[(1 + i) - 1]
      BY <1>1, <1>4, PartIs
    <3>7. /\ (digits - 1) + 1 = digits
          /\ \A i \in 1..digits : (1 + i) - 1 = i
      BY <1>1
    <3> QED
      BY <3>5, <3>6, <3>7
  <2> QED
    BY <2>1, <2>2
<1> HIDE DEF s
<1>6. DigitsOf(s, x)
  <2>1. ASSUME NEW i \in 1..digits PROVE s[i] = Digit(x, i)
    <3>1. i \in 1..Len(text) /\ i <= digits
      BY <1>1, <1>4
    <3> QED
      BY <1>1, <1>5, <3>1
  <2> QED
    BY <1>5, <2>1 DEF DigitsOf, digits
<1> QED
  BY <1>2, <1>6

\* A group of four digits is a block of three bytes.
LEMMA GroupRead ==
    ASSUME NEW x \in Seq(Byte), NEW s, DigitsOf(s, x), NEW k \in Nat, (4 * k) + 4 <= Len(s),
           NEW j \in 1..3
    PROVE  Triple(Group(s, k + 1, 4))[j] = ByteAt(x, (3 * k) + j)
<1> DEFINE q == Group(s, k + 1, 4)
           b == Block(x, k)
           from == (4 * k) + 1
           to == (4 * k) + 4
<1>1. ((k + 1) - 1) * 4 + 1 = from /\ (k + 1) * 4 = to
  OBVIOUS
<1>2. q = SubSeq(s, from, to)
  BY <1>1 DEF Group
<1>3. s \in Seq(Byte) /\ \A i \in 1..Len(s) : s[i] = Digit(x, i)
  BY DEF DigitsOf
<1>4. /\ from \in Nat /\ to \in Nat /\ 1 <= from /\ from <= to + 1 /\ to <= Len(s)
      /\ (to - from) + 1 = 4
  OBVIOUS
<1>5. \A i \in 1..4 : (from + i) - 1 = (4 * k) + i /\ (4 * k) + i \in 1..Len(s)
  <2>1. Len(s) \in Nat
    BY <1>3
  <2> QED
    BY <2>1
<1>6. IsBlock(b) /\ b[j] = ByteAt(x, (3 * k) + j)
  BY BlockIs
<1> HIDE DEF q, b, from, to
<1>7. ASSUME NEW i \in 1..4 PROVE q[i] = Quad(b)[i]
  <2>1. \A n \in 1..((to - from) + 1) : SubSeq(s, from, to)[n] = s[(from + n) - 1]
    BY <1>3, <1>4, PartIs
  <2>2. q[i] = s[(4 * k) + i]
    BY <1>2, <1>4, <1>5, <2>1
  <2>3. s[(4 * k) + i] = Digit(x, (4 * k) + i)
    BY <1>3, <1>5
  <2> QED
    BY <2>2, <2>3, DigitAt DEF b
<1>8. q[1] = Quad(b)[1] /\ q[2] = Quad(b)[2] /\ q[3] = Quad(b)[3] /\ q[4] = Quad(b)[4]
  BY <1>7
<1>9. Triple(q)[1] = b[1] /\ Triple(q)[2] = b[2] /\ Triple(q)[3] = b[3]
  BY <1>6, <1>8, TripleOfQuad
<1>10. j = 1 \/ j = 2 \/ j = 3
  OBVIOUS
<1> QED
  BY <1>6, <1>9, <1>10 DEF q

LEMMA TripleOfBytes ==
    ASSUME NEW q, q[1] \in Byte, q[2] \in Byte, q[3] \in Byte, q[4] \in Byte
    PROVE  Triple(q) \in Seq(Byte) /\ Len(Triple(q)) = 3
<1> DEFINE a == ((q[1] * 4) + ((q[2] \div 16) % 4)) % 256
           b == ((q[2] % 16) * 16) + ((q[3] \div 4) % 16)
           c == (((q[3] % 4) * 64) + q[4]) % 256
<1>1. q[1] \in Nat /\ q[2] \in Nat /\ q[3] \in Nat /\ q[4] \in Nat
  BY Bytes
<1>2. a \in Nat /\ a <= 255
  BY <1>1
<1>3. b \in Nat /\ b <= 255
  BY <1>1
<1>4. c \in Nat /\ c <= 255
  BY <1>1
<1>5. Triple(q) = <<a, b, c>>
  BY DEF Triple
<1> HIDE DEF a, b, c
<1>6. a \in Byte /\ b \in Byte /\ c \in Byte
  BY <1>2, <1>3, <1>4, Bytes
<1> QED
  BY <1>5, <1>6

\* How many digits there are.
LEMMA DigitCount ==
    ASSUME NEW x \in Seq(Byte), NEW s, DigitsOf(s, x), NEW G, NEW r, Parted(Len(x), G, r)
    PROVE  /\ Len(s) \in Nat /\ Groups(s, 4) = G /\ G \in Nat /\ r \in Nat
           /\ Len(x) = (3 * G) + r
           /\ r = 0 \/ r = 1 \/ r = 2
           /\ Len(s) = (4 * G) + (IF r = 0 THEN 0 ELSE r + 1)
<1> DEFINE N == Len(x)
           n == Len(s)
<1>1. N \in Nat /\ Parted(N, G, r) /\ n = ((8 * N) + 5) \div 6
  BY DEF DigitsOf
<1> HIDE DEF N, n
<1>2. /\ G \in Nat /\ r \in Nat /\ N = (3 * G) + r
      /\ r = 0 \/ r = 1 \/ r = 2
      /\ r = 0 => /\ ((8 * N) + 5) \div 6 = 4 * G /\ (N + 2) \div 3 = G
      /\ r = 1 => /\ ((8 * N) + 5) \div 6 = (4 * G) + 2 /\ (N + 2) \div 3 = G + 1
      /\ r = 2 => /\ ((8 * N) + 5) \div 6 = (4 * G) + 3 /\ (N + 2) \div 3 = G + 1
  BY <1>1, Counts
<1>3. n = (4 * G) + (IF r = 0 THEN 0 ELSE r + 1)
  BY <1>1, <1>2
<1>4. n \in Nat /\ n \div 4 = G
  <2>1. r = 0 => n = 4 * G
    BY <1>2, <1>3
  <2>2. r = 1 => n = (4 * G) + 2
    BY <1>2, <1>3
  <2>3. r = 2 => n = (4 * G) + 3
    BY <1>2, <1>3
  <2>4. r = 0 => n \in Nat /\ n \div 4 = G
    BY <1>2, <2>1
  <2>5. r = 1 => n \in Nat /\ n \div 4 = G
    BY <1>2, <2>2
  <2>6. r = 2 => n \in Nat /\ n \div 4 = G
    BY <1>2, <2>3
  <2> QED
    BY <1>2, <2>4, <2>5, <2>6
<1>5. Groups(s, 4) = n \div 4
  BY DEF Groups, n
<1> QED
  BY <1>2, <1>3, <1>4, <1>5 DEF N, n

\* The bytes of the whole groups, and of what is left.
LEMMA WholeRead ==
    ASSUME NEW x \in Seq(Byte), NEW s, DigitsOf(s, x), NEW G, NEW r, Parted(Len(x), G, r)
    PROVE  /\ WholeOf(s) \in Seq(Byte) /\ Len(WholeOf(s)) = 3 * G
           /\ \A i \in 1..(3 * G) : WholeOf(s)[i] = x[i]
<1> DEFINE w == WholeOf(s)
           n == 3 * G
<1>1. /\ Len(s) \in Nat /\ Groups(s, 4) = G /\ G \in Nat /\ r \in Nat
      /\ Len(x) = (3 * G) + r /\ 4 * G <= Len(s)
  <2>1. /\ Len(s) \in Nat /\ Groups(s, 4) = G /\ G \in Nat /\ r \in Nat
        /\ Len(x) = (3 * G) + r
        /\ r = 0 \/ r = 1 \/ r = 2
        /\ Len(s) = (4 * G) + (IF r = 0 THEN 0 ELSE r + 1)
    BY DigitCount
  <2>2. 4 * G <= Len(s)
    BY <2>1
  <2> QED
    BY <2>1, <2>2
<1>2. w = [i \in 1..n |-> Triple(Group(s, ((i - 1) \div 3) + 1, 4))[((i - 1) % 3) + 1]]
  BY <1>1 DEF WholeOf
<1> HIDE DEF w
<1>3. ASSUME NEW i \in 1..n PROVE w[i] = x[i] /\ w[i] \in Byte
  <2> DEFINE k == (i - 1) \div 3
             j == ((i - 1) % 3) + 1
  <2>1. k \in Nat /\ j \in 1..3 /\ k < G /\ (3 * k) + j = i
    BY <1>1
  <2>2. w[i] = Triple(Group(s, k + 1, 4))[j]
    BY <1>2
  <2> HIDE DEF k, j
  <2>3. (4 * k) + 4 <= Len(s)
    BY <1>1, <2>1
  <2>4. w[i] = ByteAt(x, (3 * k) + j)
    BY <2>1, <2>2, <2>3, GroupRead
  <2>5. i \in 1..Len(x)
    BY <1>1
  <2>6. ByteAt(x, i) = x[i]
    BY <2>5 DEF ByteAt
  <2>7. w[i] = x[i]
    BY <2>1, <2>4, <2>6
  <2> QED
    BY <2>5, <2>7
<1>4. w = [i \in 1..n |-> w[i]] /\ n \in Nat
  BY <1>1, <1>2
<1> HIDE DEF n
<1>5. w \in Seq(Byte) /\ Len(w) = n
  BY <1>3, <1>4, StringOf
<1> QED
  BY <1>3, <1>5 DEF w, n

LEMMA TailRead ==
    ASSUME NEW x \in Seq(Byte), NEW s, DigitsOf(s, x), NEW G, NEW r, Parted(Len(x), G, r),
           NEW e, e = DecodeTail(Remainder(s, 4))
    PROVE  e \in Seq(Byte) /\ Len(e) = r /\ \A i \in 1..r : e[i] = x[(3 * G) + i]
<1> DEFINE tail == Remainder(s, 4)
           n == Len(s)
           from == (4 * G) + 1
           b == Block(x, G)
           z == tail \o <<NPOS, NPOS, NPOS>>
           t == Triple(z)
<1>1. /\ n \in Nat /\ Groups(s, 4) = G /\ G \in Nat /\ r \in Nat
      /\ Len(x) = (3 * G) + r
      /\ r = 0 \/ r = 1 \/ r = 2
      /\ n = (4 * G) + (IF r = 0 THEN 0 ELSE r + 1)
  BY DigitCount
<1>2. tail = SubSeq(s, from, n)
  BY <1>1 DEF Remainder
<1>3. s \in Seq(Byte) /\ \A i \in 1..n : s[i] = Digit(x, i)
  BY DEF DigitsOf
<1>4. e = IF tail = <<>> THEN <<>> ELSE SubSeq(t, 1, Len(tail) - 1)
  BY DEF DecodeTail
<1>5. /\ from \in Nat /\ 1 <= from /\ from <= n + 1 /\ n <= Len(s)
      /\ (n - from) + 1 = IF r = 0 THEN 0 ELSE r + 1
      /\ \A i \in 1..4 : (from + i) - 1 = (4 * G) + i
  BY <1>1
<1>6. NPOS \in Byte
  BY DEF NPOS, Byte
<1>7. IsBlock(b) /\ \A j \in 1..3 : b[j] = ByteAt(x, (3 * G) + j)
  BY <1>1, BlockIs
<1>8. \A j \in 1..r : j \in 1..3 /\ ByteAt(x, (3 * G) + j) = x[(3 * G) + j]
  <2>1. ASSUME NEW j \in 1..r PROVE j \in 1..3 /\ (3 * G) + j <= Len(x)
    BY <1>1
  <2> QED
    BY <2>1 DEF ByteAt
<1> HIDE DEF tail, n, from, b, z, t
<1>9. /\ tail \in Seq(Byte) /\ Len(tail) = (n - from) + 1
      /\ \A i \in 1..((n - from) + 1) : tail[i] = s[(from + i) - 1]
  <2>1. /\ SubSeq(s, from, n) \in Seq(Byte) /\ Len(SubSeq(s, from, n)) = (n - from) + 1
        /\ \A i \in 1..((n - from) + 1) : SubSeq(s, from, n)[i] = s[(from + i) - 1]
    BY <1>1, <1>3, <1>5, PartIs
  <2> QED
    BY <1>2, <2>1
<1>10. CASE r = 0
  <2>1. tail = <<>>
    BY <1>5, <1>9, <1>10
  <2>2. e = <<>>
    BY <1>4, <2>1
  <2>3. e \in Seq(Byte) /\ Len(e) = 0
    BY <2>2, Nothing
  <2>4. 1..r = {}
    BY <1>10
  <2> QED
    BY <1>10, <2>3, <2>4
<1>11. CASE r # 0
  <2>1. Len(tail) = r + 1 /\ tail # <<>>
    BY <1>1, <1>5, <1>9, <1>11
  <2>2. ASSUME NEW i \in 1..(r + 1) PROVE tail[i] = Quad(b)[i] /\ tail[i] \in Byte
    <3>1. i \in 1..4 /\ i \in 1..((n - from) + 1) /\ (4 * G) + i \in 1..n
      BY <1>1, <1>5, <1>11
    <3>2. tail[i] = s[(4 * G) + i]
      BY <1>5, <1>9, <3>1
    <3>3. s[(4 * G) + i] = Digit(x, (4 * G) + i)
      BY <1>3, <3>1
    <3>4. tail[i] \in Byte
      BY <1>9, <3>1
    <3> QED
      BY <1>1, <3>1, <3>2, <3>3, <3>4, DigitAt DEF b
  <2>3. 1 \in 1..(r + 1) /\ 2 \in 1..(r + 1) /\ (r = 2 => 3 \in 1..(r + 1))
    BY <1>1, <1>11
  <2>4. /\ z[1] = tail[1] /\ z[2] = tail[2]
        /\ r = 1 => z[3] = NPOS /\ z[4] = NPOS
        /\ r = 2 => z[3] = tail[3] /\ z[4] = NPOS
    <3> DEFINE y == <<NPOS, NPOS, NPOS>>
    <3>1. /\ y \in Seq(Byte) /\ Len(y) = 3 /\ y[1] = NPOS /\ y[2] = NPOS /\ y[3] = NPOS
          /\ Joined(z, tail, y)
      BY <1>6 DEF Joined, z
    <3> HIDE DEF y
    <3>2. /\ \A i \in 1..Len(tail) : z[i] = tail[i]
          /\ \A i \in 1..Len(y) : z[Len(tail) + i] = y[i]
      <4>1. tail \in Seq(Byte) /\ y \in Seq(Byte) /\ Joined(z, tail, y)
        BY <1>9, <3>1
      <4> QED
        BY <4>1, JoinedIs
    <3>3. /\ 1 \in 1..Len(tail) /\ 2 \in 1..Len(tail)
          /\ r = 1 => Len(tail) + 1 = 3 /\ Len(tail) + 2 = 4
          /\ r = 2 => 3 \in 1..Len(tail) /\ Len(tail) + 1 = 4
          /\ 1 \in 1..Len(y) /\ 2 \in 1..Len(y)
      BY <1>1, <1>11, <2>1, <3>1
    <3> QED
      BY <3>1, <3>2, <3>3
  <2>5. /\ z[1] = Quad(b)[1] /\ z[2] = Quad(b)[2] /\ (r = 2 => z[3] = Quad(b)[3])
        /\ z[1] \in Byte /\ z[2] \in Byte /\ z[3] \in Byte /\ z[4] \in Byte
    BY <1>1, <1>6, <1>11, <2>2, <2>3, <2>4
  <2>6. t \in Seq(Byte) /\ Len(t) = 3
    BY <2>5, TripleOfBytes DEF t
  <2>7. t[1] = b[1] /\ (r = 2 => t[2] = b[2])
    <3>1. t[1] = b[1] /\ (z[3] = Quad(b)[3] => t[2] = b[2])
      BY <1>7, <2>5, TripleOfQuad DEF t
    <3> QED
      BY <2>5, <3>1
  <2>8. e = SubSeq(t, 1, r)
    <3>1. Len(tail) - 1 = r
      BY <1>1, <2>1
    <3> QED
      BY <1>4, <2>1, <3>1
  <2>9. /\ e \in Seq(Byte) /\ Len(e) = (r - 1) + 1
        /\ \A i \in 1..((r - 1) + 1) : e[i] = t[(1 + i) - 1]
    <3>1. 1 \in Nat /\ r \in Nat /\ 1 <= 1 /\ 1 <= r + 1 /\ r <= Len(t)
      BY <1>1, <2>6
    <3> QED
      BY <2>6, <2>8, <3>1, PartIs
  <2>10. (r - 1) + 1 = r /\ \A i \in 1..r : (1 + i) - 1 = i
    BY <1>1
  <2>11. ASSUME NEW i \in 1..r PROVE e[i] = x[(3 * G) + i]
    <3>1. e[i] = t[i]
      BY <2>9, <2>10
    <3>2. i = 1 \/ (i = 2 /\ r = 2)
      BY <1>1
    <3>3. t[i] = b[i]
      BY <2>7, <3>2
    <3> QED
      BY <1>7, <1>8, <3>1, <3>3
  <2> QED
    BY <2>9, <2>10, <2>11
<1> QED
  BY <1>10, <1>11

\* Decoding undoes encoding, for any string.
LEMMA DecodedBack ==
    ASSUME NEW x \in Seq(Byte), NEW text, text = Base64Encode(x)
    PROVE  Base64Decode(text) = x
<1> DEFINE G == Len(x) \div 3
           r == Len(x) % 3
           y == Base64Decode(text)
<1>1. PICK s : DigitsOf(s, x) /\ y = WholeOf(s) \o DecodeTail(Remainder(s, 4))
  BY DigitsTaken
<1>2. Parted(Len(x), G, r)
  BY DEF Parted
<1> DEFINE w == WholeOf(s)
           e == DecodeTail(Remainder(s, 4))
<1>3. Joined(y, w, e) /\ e = DecodeTail(Remainder(s, 4))
  BY <1>1 DEF Joined
<1> HIDE DEF G, r, y, e
<1>4. w \in Seq(Byte) /\ Len(w) = 3 * G /\ \A i \in 1..(3 * G) : w[i] = x[i]
  BY <1>1, <1>2, WholeRead
<1>5. e \in Seq(Byte) /\ Len(e) = r /\ \A i \in 1..r : e[i] = x[(3 * G) + i]
  BY <1>1, <1>2, <1>3, TailRead
<1>6. Len(x) = (3 * G) + r /\ G \in Nat /\ r \in Nat
  BY <1>1, <1>2, DigitCount
<1> HIDE DEF w
<1>7. /\ y \in Seq(Byte) /\ Len(y) = Len(w) + Len(e)
      /\ \A i \in 1..Len(w) : y[i] = w[i]
      /\ \A i \in 1..Len(e) : y[Len(w) + i] = e[i]
  BY <1>3, <1>4, <1>5, JoinedIs
<1>8. Len(y) = Len(x)
  BY <1>4, <1>5, <1>6, <1>7
<1>9. ASSUME NEW i \in 1..Len(y) PROVE y[i] = x[i]
  <2>1. CASE i <= 3 * G
    <3>1. i \in 1..(3 * G) /\ i \in 1..Len(w)
      BY <1>4, <1>6, <2>1
    <3> QED
      BY <1>4, <1>7, <3>1
  <2>2. CASE ~(i <= 3 * G)
    <3> DEFINE j == i - (3 * G)
    <3>1. j \in 1..r /\ i = (3 * G) + j
      BY <1>6, <1>8, <2>2
    <3> HIDE DEF j
    <3> QED
      BY <1>4, <1>5, <1>7, <3>1
  <2> QED
    BY <2>1, <2>2
<1>10. y = x
  BY <1>7, <1>8, <1>9, SameString
<1> QED
  BY <1>10 DEF y

\* Where bit i is: in which block, digit and byte, and where in them.
LEMMA Places ==
    ASSUME NEW i \in Nat, NEW k, NEW t, k = i \div 24, t = i % 24
    PROVE  /\ k \in Nat /\ t \in 0..23
           /\ i \div 6 = (4 * k) + (t \div 6) /\ i % 6 = t % 6
           /\ i \div 8 = (3 * k) + (t \div 8) /\ i % 8 = t % 8
           /\ (t \div 6) + 1 \in 1..4 /\ (t \div 8) + 1 \in 1..3
<1>1. k \in Nat /\ t \in 0..23 /\ i = (24 * k) + t
  OBVIOUS
<1> DEFINE a == t \div 6
           b == t % 6
           c == t \div 8
           d == t % 8
<1>2. a \in 0..3 /\ b \in 0..5 /\ t = (6 * a) + b
  BY <1>1
<1>3. c \in 0..2 /\ d \in 0..7 /\ t = (8 * c) + d
  BY <1>1
<1> HIDE DEF a, b, c, d
<1>4. i = (6 * ((4 * k) + a)) + b
  BY <1>1, <1>2
<1>5. i = (8 * ((3 * k) + c)) + d
  BY <1>1, <1>3
<1>6. i \div 6 = (4 * k) + a /\ i % 6 = b
  BY <1>1, <1>2, <1>4
<1>7. i \div 8 = (3 * k) + c /\ i % 8 = d
  BY <1>1, <1>3, <1>5
<1>8. a + 1 \in 1..4 /\ c + 1 \in 1..3
  BY <1>2, <1>3
<1> QED
  BY <1>1, <1>6, <1>7, <1>8 DEF a, b, c, d

LEMMA NoBits == \A p \in Nat \ {0} : (0 \div p) % 2 = 0
OBVIOUS

\* The bits of the text are those of x, then zeros.
LEMMA BitsKept ==
    ASSUME NEW x \in Seq(Byte), NEW text, text = Base64Encode(x),
           NEW i \in Nat, i <= (6 * (((8 * Len(x)) + 5) \div 6)) - 1
    PROVE  Bit(text, 6, i) = IF i < 8 * Len(x) THEN Bit(x, 8, i) ELSE 0
<1> DEFINE k == i \div 24
           t == i % 24
           N == Len(x)
           digits == ((8 * N) + 5) \div 6
           b == Block(x, k)
           q == Quad(b)
           m == (t \div 6) + 1
           n == (t \div 8) + 1
           p == 2 ^ ((8 - 1) - (t % 8))
<1>1. /\ k \in Nat /\ t \in 0..23
      /\ i \div 6 = (4 * k) + (t \div 6) /\ i % 6 = t % 6
      /\ i \div 8 = (3 * k) + (t \div 8) /\ i % 8 = t % 8
      /\ (t \div 6) + 1 \in 1..4 /\ (t \div 8) + 1 \in 1..3
  BY Places
<1>2. /\ digits <= Len(text) /\ digits \in Nat
      /\ \A j \in 1..Len(text) : text[j] = IF j <= digits THEN Digit(x, j) ELSE PAD
      /\ text \in Seq(Byte)
  BY TextIs
<1>3. N \in Nat /\ i <= (6 * digits) - 1
  OBVIOUS
<1> HIDE DEF k, t, N, digits
<1>4. (i \div 6) + 1 \in 1..Len(text) /\ (i \div 6) + 1 <= digits
  <2>1. Len(text) \in Nat
    BY <1>2
  <2>2. i \div 6 \in Nat /\ (i \div 6) + 1 <= digits
    BY <1>2, <1>3
  <2> QED
    BY <1>2, <2>1, <2>2
<1>5. (i \div 6) + 1 = (4 * k) + m /\ (i \div 8) + 1 = (3 * k) + n /\ m \in 1..4 /\ n \in 1..3
  <2>1. t \div 6 \in Int /\ t \div 8 \in Int
    BY <1>1
  <2> QED
    BY <1>1, <2>1
<1>6. text[(i \div 6) + 1] = q[m]
  <2>1. text[(i \div 6) + 1] = Digit(x, (i \div 6) + 1)
    BY <1>2, <1>4
  <2> HIDE DEF m
  <2>2. Digit(x, (4 * k) + m) = Quad(Block(x, k))[m]
    BY <1>1, <1>5, DigitAt
  <2> QED
    BY <1>5, <2>1, <2>2
<1>7. IsBlock(b) /\ b[n] = ByteAt(x, (3 * k) + n)
  <2> HIDE DEF n
  <2> QED
    BY <1>1, <1>5, BlockIs
<1>8. (q[m] \div (2 ^ ((6 - 1) - (t % 6)))) % 2 = (b[n] \div p) % 2
  <2> HIDE DEF b
  <2> QED
    BY <1>1, <1>7, BitMoves
<1>9. Bit(text, 6, i) = (b[n] \div p) % 2
  <2>1. Bit(text, 6, i) = (text[(i \div 6) + 1] \div (2 ^ ((6 - 1) - (i % 6)))) % 2
    BY DEF Bit
  <2> HIDE DEF b, n, p, q, m
  <2> QED
    BY <1>1, <1>6, <1>8, <2>1
<1>10. i < 8 * N <=> (i \div 8) + 1 <= N
  BY <1>3
<1>11. CASE i < 8 * N
  <2>1. b[n] = x[(i \div 8) + 1]
    BY <1>5, <1>7, <1>10, <1>11 DEF ByteAt, N
  <2>2. Bit(x, 8, i) = (x[(i \div 8) + 1] \div (2 ^ ((8 - 1) - (i % 8)))) % 2
    BY DEF Bit
  <2>3. Bit(x, 8, i) = (b[n] \div p) % 2
    <3> HIDE DEF b, n
    <3> QED
      BY <1>1, <2>1, <2>2
  <2> QED
    BY <1>9, <1>11, <2>3 DEF N
<1>12. CASE ~(i < 8 * N)
  <2>1. b[n] = 0
    BY <1>5, <1>7, <1>10, <1>12 DEF ByteAt, N
  <2>2. p \in Nat \ {0}
    <3> DEFINE e == (8 - 1) - (t % 8)
    <3>1. e = 0 \/ e = 1 \/ e = 2 \/ e = 3 \/ e = 4 \/ e = 5 \/ e = 6 \/ e = 7
      BY <1>1
    <3> HIDE DEF e
    <3>2. 2 ^ e \in Nat \ {0}
      <4>1. CASE e = 0
        BY <4>1, Powers
      <4>2. CASE e = 1
        BY <4>2, Powers
      <4>3. CASE e = 2
        BY <4>3, Powers
      <4>4. CASE e = 3
        BY <4>4, Powers
      <4>5. CASE e = 4
        BY <4>5, Powers
      <4>6. CASE e = 5
        BY <4>6, Powers
      <4>7. CASE e = 6
        BY <4>7, Powers
      <4>8. CASE e = 7
        BY <4>8, Powers
      <4> QED
        BY <3>1, <4>1, <4>2, <4>3, <4>4, <4>5, <4>6, <4>7, <4>8
    <3> QED
      BY <3>2 DEF e
  <2> HIDE DEF p, b, n
  <2>3. (b[n] \div p) % 2 = 0
    BY <2>1, <2>2, NoBits
  <2> QED
    BY <1>9, <1>12, <2>3 DEF N
<1> QED
  BY <1>11, <1>12

\* What Base64IsBits says, of any string.
LEMMA EncodedRight ==
    ASSUME NEW x \in Seq(Byte), NEW text, text = Base64Encode(x), NEW digits,
           digits = ((8 * Len(x)) + 5) \div 6
    PROVE  /\ Base64Decode(text) = x
           /\ Len(text) = 4 * ((Len(x) + 2) \div 3)
           /\ \A i \in DOMAIN text : IF i <= digits THEN text[i] \in Sextet ELSE text[i] = PAD
           /\ \A i \in 0..((6 * digits) - 1) :
                  Bit(text, 6, i) = IF i < 8 * Len(x) THEN Bit(x, 8, i) ELSE 0
<1>1. Base64Decode(text) = x
  BY DecodedBack
<1>2. /\ text \in Seq(Byte) /\ Len(text) = 4 * ((Len(x) + 2) \div 3)
      /\ digits \in Nat /\ digits <= Len(text)
      /\ \A i \in 1..Len(text) : text[i] = IF i <= digits THEN Digit(x, i) ELSE PAD
  BY TextIs
<1>3. ASSUME NEW i \in DOMAIN text
      PROVE  IF i <= digits THEN text[i] \in Sextet ELSE text[i] = PAD
  <2>1. i \in 1..Len(text) /\ i \in Nat \ {0}
    BY <1>2
  <2> QED
    BY <1>2, <2>1, DigitIs
<1>4. ASSUME NEW i \in 0..((6 * digits) - 1)
      PROVE  Bit(text, 6, i) = IF i < 8 * Len(x) THEN Bit(x, 8, i) ELSE 0
  <2>1. i \in Nat /\ i <= (6 * (((8 * Len(x)) + 5) \div 6)) - 1
    BY <1>2
  <2> QED
    BY <2>1, BitsKept
<1> QED
  BY <1>1, <1>2, <1>3, <1>4

-----------------------------------------------------------------------------
(* The specification.                                                      *)

\* What has been typed is a string of one line, not longer than MaxLen.
Typed == OfLine(input) /\ Size(Len(input))

LEMMA TypedChars == \A c \in Char : c \in Byte /\ c \notin {CR, LF}
BY CodecAssumption

LEMMA SizeIs == \A n \in 0..MaxLen : Size(n)
<1>1. MaxLen \in Nat /\ MaxLen <= 2 ^ 30
  BY CodecAssumption
<1> QED
  BY <1>1 DEF Size

TypeInv == OfLine(input) /\ Len(input) <= MaxLen

LEMMA TypeInvIsTyped == TypeInv => Typed
<1> SUFFICES ASSUME TypeInv PROVE Typed
  OBVIOUS
<1>1. OfLine(input) /\ Len(input) <= MaxLen /\ MaxLen \in Nat
  BY CodecAssumption DEF TypeInv
<1>2. Len(input) \in Nat
  BY <1>1 DEF OfLine
<1>3. Len(input) \in 0..MaxLen
  BY <1>1, <1>2
<1> QED
  BY <1>1, <1>3, SizeIs DEF Typed

LEMMA InitTyped == Init => TypeInv
<1> SUFFICES ASSUME Init PROVE TypeInv
  OBVIOUS
<1>1. input = <<>> /\ MaxLen \in Nat
  BY CodecAssumption DEF Init
<1> QED
  BY <1>1 DEF TypeInv, OfLine

\* Typing keeps the string one of a line, and within the bound.
LEMMA NextTyped == TypeInv /\ [Next]_vars => TypeInv'
<1> SUFFICES ASSUME TypeInv, [Next]_vars PROVE TypeInv'
  OBVIOUS
<1>1. CASE UNCHANGED input
  BY <1>1 DEF TypeInv, OfLine
<1>2. ASSUME NEW c \in Char, Type(c) PROVE TypeInv'
  <2>1. input' = Append(input, c) /\ Len(input) < MaxLen
    BY <1>2 DEF Type
  <2>2. c \in Byte /\ c \notin {CR, LF}
    BY TypedChars
  <2>3. /\ input \in Seq(Byte) /\ MaxLen \in Nat
        /\ \A i \in 1..Len(input) : input[i] \notin {CR, LF}
    BY CodecAssumption DEF TypeInv, OfLine
  <2>4. input' \in Seq(Byte) /\ Len(input') = Len(input) + 1 /\ Len(input) \in Nat
    BY <2>1, <2>2, <2>3
  <2>5. ASSUME NEW i \in 1..Len(input') PROVE input'[i] \notin {CR, LF}
    <3>1. CASE i = Len(input) + 1
      BY <2>1, <2>2, <2>3, <3>1
    <3>2. CASE i # Len(input) + 1
      <4>1. i \in 1..Len(input)
        BY <2>4, <3>2
      <4>2. input'[i] = input[i]
        BY <2>1, <2>2, <2>3, <4>1
      <4> QED
        BY <2>3, <4>1, <4>2
    <3> QED
      BY <3>1, <3>2
  <2>6. Len(input') <= MaxLen
    BY <2>1, <2>3, <2>4
  <2> QED
    BY <2>4, <2>5, <2>6 DEF TypeInv, OfLine
<1>3. CASE Answer
  BY <1>1, <1>3 DEF Answer
<1> QED
  BY <1>1, <1>2, <1>3 DEF Next, vars

LEMMA AlwaysTyped == Spec => []TypeInv
BY InitTyped, NextTyped, PTL DEF Spec

\* Both parts of what has been typed are strings of one line.
LEMMA PartsTyped ==
    ASSUME Typed, NEW i \in 0..Len(input)
    PROVE  OfLine(SubSeq(input, 1, i)) /\ OfLine(SubSeq(input, i + 1, Len(input)))
<1>1. input \in Seq(Byte) /\ \A j \in 1..Len(input) : input[j] \notin {CR, LF}
  BY DEF Typed, OfLine
<1>2. Len(input) \in Nat
  BY <1>1
<1> DEFINE n == Len(input)
           u == SubSeq(input, 1, i)
           v == SubSeq(input, i + 1, n)
<1> HIDE DEF n
<1>3. n \in Nat /\ i \in Nat /\ i <= n /\ n = Len(input)
  BY <1>2 DEF n
<1>4. u \in Seq(Byte) /\ Len(u) = (i - 1) + 1
      /\ \A j \in 1..((i - 1) + 1) : u[j] = input[(1 + j) - 1]
  BY <1>1, <1>3, PartIs
<1>5. v \in Seq(Byte) /\ Len(v) = (n - (i + 1)) + 1
      /\ \A j \in 1..((n - (i + 1)) + 1) : v[j] = input[((i + 1) + j) - 1]
  <2>1. i + 1 \in Nat /\ 1 <= i + 1 /\ i + 1 <= n + 1 /\ n <= Len(input)
    BY <1>3
  <2> QED
    BY <1>1, <1>3, <2>1, PartIs
<1> HIDE DEF u, v
<1>6. ASSUME NEW j \in 1..Len(u) PROVE u[j] \notin {CR, LF}
  <2>1. j \in 1..((i - 1) + 1) /\ (1 + j) - 1 \in 1..n
    BY <1>3, <1>4
  <2> QED
    BY <1>1, <1>3, <1>4, <2>1
<1>7. ASSUME NEW j \in 1..Len(v) PROVE v[j] \notin {CR, LF}
  <2>1. j \in 1..((n - (i + 1)) + 1) /\ ((i + 1) + j) - 1 \in 1..n
    BY <1>3, <1>5
  <2> QED
    BY <1>1, <1>3, <1>5, <2>1
<1> QED
  BY <1>4, <1>5, <1>6, <1>7 DEF OfLine, u, v, n

(***************************************************************************)
(* The header a handler reads is the header that was sent: whatever two    *)
(* strings without a line feed are sent, on the request line and as the    *)
(* values of two fields, ParseHeader gives each value without the spaces   *)
(* before it, and takes nothing from the request line or from a body of    *)
(* one line.                                                               *)
(***************************************************************************)
THEOREM HeadersRead == Spec => []HeadersAreRead
<1>1. Typed => HeadersAreRead
  <2> SUFFICES ASSUME Typed, NEW i \in 0..Len(input)
               PROVE  LET u == SubSeq(input, 1, i)
                          v == SubSeq(input, i + 1, Len(input))
                          rbuf == Line(u, v) \o Line(f1, u) \o Line(f2, v) \o <<CR, LF>>
                                  \o f1 \o <<COLON>> \o v
                      IN  /\ HeaderValue(rbuf, f1) = Trimmed(u)
                          /\ HeaderValue(rbuf, f2) = Trimmed(v)
    BY DEF HeadersAreRead
  <2> DEFINE u == SubSeq(input, 1, i)
             v == SubSeq(input, i + 1, Len(input))
             rbuf == Line(u, v) \o Line(f1, u) \o Line(f2, v) \o <<CR, LF>>
                     \o f1 \o <<COLON>> \o v
  <2>1. OfLine(u) /\ OfLine(v)
    BY PartsTyped
  <2> HIDE DEF u, v
  <2>2. HeaderValue(rbuf, f1) = Trimmed(u) /\ HeaderValue(rbuf, f2) = Trimmed(v)
    BY <2>1, HeaderRead
  <2> QED
    BY <2>2 DEF u, v
<1> QED
  BY <1>1, AlwaysTyped, TypeInvIsTyped, PTL

(***************************************************************************)
(* The values a handler reads are those that were entered: whatever two    *)
(* strings are sent as a form, ParseFormUrlencoded splits it where the     *)
(* browser joined it, and URLDecode undoes the browser's escapes.          *)
(***************************************************************************)
THEOREM FormsRead == Spec => []FormsAreRead
<1>1. Typed => FormsAreRead
  <2> SUFFICES ASSUME Typed, NEW i \in 0..Len(input), NEW letter \in {65, 97}
               PROVE  LET u == SubSeq(input, 1, i)
                          v == SubSeq(input, i + 1, Len(input))
                          form == f1 \o <<EQUALS>> \o Escaped(u, letter) \o <<AMPERSAND>>
                                  \o f2 \o <<EQUALS>> \o Escaped(v, letter)
                      IN  FormValue(form, f1) = u /\ FormValue(form, f2) = v
    BY DEF FormsAreRead
  <2> DEFINE u == SubSeq(input, 1, i)
             v == SubSeq(input, i + 1, Len(input))
             form == f1 \o <<EQUALS>> \o Escaped(u, letter) \o <<AMPERSAND>>
                     \o f2 \o <<EQUALS>> \o Escaped(v, letter)
  <2>1. u \in Seq(Byte) /\ v \in Seq(Byte)
    BY PartsTyped DEF OfLine
  <2> HIDE DEF u, v
  <2>2. form = FormOf(u, v, letter)
    BY DEF FormOf
  <2> HIDE DEF form
  <2>3. FormValue(form, f1) = u /\ FormValue(form, f2) = v
    BY <2>1, <2>2, FormRead
  <2> QED
    BY <2>3 DEF form, u, v
<1> QED
  BY <1>1, AlwaysTyped, TypeInvIsTyped, PTL

(***************************************************************************)
(* What one side of a WebSocket sends the other one reads: ParseHead gives *)
(* the length that MakeFrame wrote, for every length up to 2^30, the       *)
(* message comes out of the frame of a server and of the masked frame of a *)
(* client, and of no proper beginning of a frame anything is taken.        *)
(***************************************************************************)
THEOREM FramesRead == Spec => []FramesAreRead
<1>1. ASSUME NEW len \in Length
      PROVE  LET head == MakeHead(len, 2)
             IN  /\ ParseHead(head) = [more |-> FALSE, fin |-> TRUE, opcode |-> 2,
                                       len |-> len, masked |-> FALSE, size |-> Len(head)]
                 /\ \A n \in 0..(Len(head) - 1) : ParseHead(SubSeq(head, 1, n)) = MORE
  <2>1. len \in Nat /\ len <= 2 ^ 30
    BY CodecAssumption
  <2>2. Size(len)
    BY <2>1 DEF Size
  <2> QED
    BY <2>2, LengthRead
<1>2. ASSUME Typed, NEW frame \in {MakeFrame(input, 1), MaskedFrame(input)}
      PROVE  /\ ParsePayload(frame).msg = input
             /\ \A n \in 0..(Len(frame) - 1) : ParsePayload(SubSeq(frame, 1, n)) = MORE
  <2>1. input \in Seq(Byte) /\ Size(Len(input))
    BY <1>2 DEF Typed, OfLine
  <2>2. frame = MakeFrame(input, 1) \/ frame = MaskedFrame(input)
    BY <1>2
  <2> QED
    BY <2>1, <2>2, PlainFrameRead, MaskedFrameRead
<1>3. Typed => FramesAreRead
  BY <1>1, <1>2 DEF FramesAreRead
<1> QED
  BY <1>3, AlwaysTyped, TypeInvIsTyped, PTL

(***************************************************************************)
(* Base64Encode regroups the bits of any string by six, fills up the last  *)
(* group with zeros and the text with '=', and Base64Decode gives the      *)
(* string back.                                                            *)
(***************************************************************************)
THEOREM Base64Regroups == Spec => []Base64IsBits
<1>1. ASSUME Typed PROVE Base64IsBits
  <2> DEFINE text == Base64Encode(input)
             digits == ((8 * Len(input)) + 5) \div 6
  <2>1. input \in Seq(Byte)
    BY <1>1 DEF Typed, OfLine
  <2>2. /\ Base64Decode(text) = input
        /\ Len(text) = 4 * ((Len(input) + 2) \div 3)
        /\ \A i \in DOMAIN text : IF i <= digits THEN text[i] \in Sextet ELSE text[i] = PAD
        /\ \A i \in 0..((6 * digits) - 1) :
               Bit(text, 6, i) = IF i < 8 * Len(input) THEN Bit(input, 8, i) ELSE 0
    <3>1. text = Base64Encode(input) /\ digits = ((8 * Len(input)) + 5) \div 6
      OBVIOUS
    <3> HIDE DEF text, digits
    <3> QED
      BY <2>1, <3>1, EncodedRight
  <2> QED
    BY <2>2 DEF Base64IsBits
<1> QED
  BY <1>1, AlwaysTyped, TypeInvIsTyped, PTL

(***************************************************************************)
(* Every response announces the length of its body once and the close that *)
(* follows it, whatever a handler sets, writes and flushes: what           *)
(* ResponsesAreFramed says, of the specification that the run checks.      *)
(***************************************************************************)
THEOREM AnswersAreFramed == Spec => []ResponseIsFramed
<1>1. Init => FramedInv
  BY InitFramed DEF Init
<1>2. FramedInv /\ [Next]_vars => FramedInv'
  <2> SUFFICES ASSUME FramedInv, [Next]_vars PROVE FramedInv'
    OBVIOUS
  <2>1. [RespNext]_respVars
    BY DEF Next, Answer, Type, vars
  <2> QED
    BY <2>1, NextFramed
<1>3. FramedInv => ResponseIsFramed
  BY DEF FramedInv
<1> QED
  BY <1>1, <1>2, <1>3, PTL DEF Spec
=============================================================================
