------------------------- MODULE RequestParserProofs -------------------------
(***************************************************************************)
(* Proofs about RequestParser.  IInv adds to the properties how the lines  *)
(* lie in the stream (Layout), what each place of ReadData knows (Stage),  *)
(* and what Parse has seen of the header (Header).  LInv adds that         *)
(* content_length is what the lines that Parse has gone over tell          *)
(* (LengthSoFar), that inside a line Parse knows whether it is taken for a *)
(* Content-Length (Inside), and where the reads have cut the stream        *)
(* (Cuts), on which the look-ahead depends.                                *)
(***************************************************************************)
EXTENDS RequestParser, WellFoundedInduction, TLAPS

Layout ==
    /\ \A i \in 1..Len(sent) : End(i) <= Bytes
    /\ \A i, j \in 1..Len(sent) : i < j => End(i) <= start[j]

\* Nothing is left on the socket without an edge.
Announced == insock > 0 \/ gone => edge

Stage ==
    /\ pc = "idle" /\ status # "BODY_RECEIVED" => Announced
    /\ pc = "parse" /\ ~full => Announced
    /\ pc \in {"read", "parse"} => status = "HEADER_RECEIVING"
    /\ pc \in {"check", "read_body"} => status = "BODY_RECEIVING"
    /\ status = "HEADER_RECEIVING" /\ pc \in {"idle", "read"} => parse_offset = rbuf
    /\ status = "HEADER_RECEIVING" /\ pc # "closed" => rbuf <= MaxHeader
    /\ pc = "read_body" \/ (pc = "idle" /\ status = "BODY_RECEIVING") =>
           rbuf - header_len < content_length /\ content_length <= MaxPost

\* The header, all of it accepted, ends at byte n.
HeaderEnds(n) ==
    \E i \in 1..Len(sent) : /\ sent[i].kind = "end"
                            /\ End(i) = n
                            /\ \A j \in 1..i : sent[j].bad # "byte"

Header ==
    /\ status = "HEADER_RECEIVING" =>
           \A i \in 1..Len(sent) :
               End(i) <= parse_offset => sent[i].bad # "byte" /\ sent[i].kind # "end"
    /\ status # "HEADER_RECEIVING" => HeaderEnds(header_len) /\ header_len <= MaxHeader
    /\ tasks = 1 <=> status = "BODY_RECEIVED"
    /\ status = "BODY_RECEIVED" =>
           rbuf >= header_len + content_length /\ content_length <= MaxPost

IInv == TypeOK /\ Layout /\ Stage /\ Header /\ BufferIsBounded

-----------------------------------------------------------------------------

LEMMA Limits ==
    /\ CHUNK \in Nat /\ CHUNK > 0 /\ WIDTH \in Nat /\ WIDTH > 0
    /\ MaxHeader \in Nat /\ MaxPost \in Nat
  <1>1. CHUNK \in Nat \ {0} /\ WIDTH \in Nat \ {0}
    BY LimitAssumption
  <1>2. MaxHeader \in Nat /\ MaxPost \in Nat
    BY LimitAssumption
  <1> QED
    BY <1>1, <1>2

LEMMA InitIInv == Init => IInv
  <1> SUFFICES ASSUME Init PROVE IInv
    OBVIOUS
  <1>1. <<>> \in Seq(Line) /\ <<>> \in Seq(Nat)
    OBVIOUS
  <1>2. TypeOK
    <2>1. content_length \in 0..(WIDTH - 1)
      BY Limits DEF Init
    <2>2. parse_offset \in 0..rbuf /\ header_len \in 0..rbuf /\ tasks \in 0..1
      BY DEF Init
    <2>3. sent \in Seq(Line) /\ start \in Seq(Nat) /\ Len(start) = Len(sent)
      BY <1>1 DEF Init
    <2> QED
      BY <2>1, <2>2, <2>3 DEF Init, TypeOK, Kind
  <1>3. Layout
    BY DEF Init, Layout
  <1>4. Stage
    BY Limits DEF Init, Stage, Announced
  <1>5. Header
    BY DEF Init, Header
  <1>6. BufferIsBounded
    BY Limits DEF Init, BufferIsBounded
  <1> QED
    BY <1>2, <1>3, <1>4, <1>5, <1>6 DEF IInv

LEMMA Lines ==
    ASSUME TypeOK
    PROVE  /\ Len(sent) \in Nat /\ DOMAIN sent = 1..Len(sent)
           /\ \A i \in 1..Len(sent) :
                  /\ sent[i] \in Line /\ start[i] \in Nat /\ sent[i].size \in Nat
                  /\ sent[i].size > 1 /\ End(i) \in Nat /\ End(i) = start[i] + sent[i].size
                  /\ sent[i].kind \in Kind /\ sent[i].value \in Nat /\ sent[i].scale \in Nat
  <1>1. Len(sent) \in Nat /\ DOMAIN sent = 1..Len(sent)
    BY DEF TypeOK
  <1> SUFFICES ASSUME NEW i \in 1..Len(sent)
               PROVE  /\ sent[i] \in Line /\ start[i] \in Nat /\ sent[i].size \in Nat
                      /\ sent[i].size > 1 /\ End(i) \in Nat
                      /\ End(i) = start[i] + sent[i].size
                      /\ sent[i].kind \in Kind /\ sent[i].value \in Nat
                      /\ sent[i].scale \in Nat
    BY <1>1
  <1>2. sent[i] \in Line /\ start[i] \in Nat
    BY DEF TypeOK
  <1>3. /\ sent[i].size \in Nat \ {0, 1} /\ sent[i].value \in Nat
        /\ sent[i].scale \in Nat /\ sent[i].kind \in Kind
    BY <1>2, LineAssumption
  <1> QED
    BY <1>2, <1>3 DEF End

\* Where the lines lie does not change when bytes only move.
LEMMA LayoutStays ==
    ASSUME TypeOK, Layout, Bytes' = Bytes, UNCHANGED <<sent, start>>
    PROVE  Layout'
  BY DEF Layout, End

-----------------------------------------------------------------------------
(* The client and the network.                                             *)

LEMMA SendLineStep ==
    ASSUME IInv, NEW l \in Line, SendLine(l)
    PROVE  IInv'
  <1> DEFINE L == Len(sent)
  <1>1. /\ sent' = Append(sent, l) /\ start' = Append(start, Bytes)
        /\ flight' = flight + l.size
        /\ UNCHANGED <<insock, gone, edge, pc, full, status, rbuf, cuts,
                       parse_status, parse_offset, content_length, header_len, tasks>>
        /\ ~gone
    BY DEF SendLine, parseVars
  <1>2. l.size \in Nat /\ l.size > 1
    BY LineAssumption
  <1>3. /\ L \in Nat /\ Len(sent') = L + 1
        /\ \A i \in 1..L : sent'[i] = sent[i] /\ start'[i] = start[i]
        /\ sent'[L + 1] = l /\ start'[L + 1] = Bytes
    BY <1>1 DEF IInv, TypeOK
  <1>4. /\ \A i \in 1..L : End(i)' = End(i) /\ End(i) \in Nat
        /\ \A i \in 1..(L + 1) : i = L + 1 => End(i)' = Bytes + l.size
    <2>1. \A i \in 1..L : End(i) \in Nat
      BY Lines DEF IInv
    <2>2. \A i \in 1..L : End(i)' = End(i)
      BY <1>3 DEF End
    <2>3. \A i \in 1..(L + 1) : i = L + 1 => End(i)' = Bytes + l.size
      BY <1>3 DEF End
    <2> QED
      BY <2>1, <2>2, <2>3
  <1>5. Bytes \in Nat /\ Bytes' = Bytes + l.size /\ parse_offset \in Nat /\ parse_offset <= Bytes
    BY <1>1, <1>2 DEF Bytes, IInv, TypeOK
  <1>6. TypeOK'
    BY <1>1, <1>2, <1>5 DEF IInv, TypeOK
  <1>7. Layout'
    <2>1. \A i \in 1..L : End(i) <= Bytes
      BY DEF IInv, Layout
    <2>2. ASSUME NEW i \in 1..(L + 1)
          PROVE  End(i)' <= Bytes'
      <3>1. CASE i = L + 1
        BY <3>1, <1>2, <1>4, <1>5
      <3>2. CASE i # L + 1
        BY <3>2, <2>1, <1>2, <1>3, <1>4, <1>5
      <3> QED
        BY <3>1, <3>2
    <2>3. ASSUME NEW i \in 1..(L + 1), NEW j \in 1..(L + 1), i < j
          PROVE  End(i)' <= start'[j]
      <3>1. CASE j = L + 1
        BY <3>1, <2>1, <2>3, <1>3, <1>4
      <3>2. CASE j # L + 1
        <4>1. i \in 1..L /\ j \in 1..L
          BY <3>2, <2>3, <1>3
        <4>2. End(i) <= start[j]
          BY <4>1, <2>3 DEF IInv, Layout
        <4> QED
          BY <4>1, <4>2, <1>3, <1>4
      <3> QED
        BY <3>1, <3>2
    <2> QED
      BY <2>2, <2>3, <1>3 DEF Layout
  <1>8. Stage'
    BY <1>1 DEF IInv, Stage, Announced
  <1>9. Header'
    <2>1. ASSUME status = "HEADER_RECEIVING", NEW i \in 1..(L + 1),
                 End(i)' <= parse_offset
          PROVE  sent'[i].bad # "byte" /\ sent'[i].kind # "end"
      <3>1. i # L + 1
        BY <2>1, <1>2, <1>4, <1>5
      <3>2. i \in 1..L
        BY <3>1, <1>3
      <3> QED
        BY <3>2, <2>1, <1>3, <1>4 DEF IInv, Header
    <2>2. ASSUME HeaderEnds(header_len)
          PROVE  HeaderEnds(header_len)'
      <3>1. PICK i \in 1..L : /\ sent[i].kind = "end" /\ End(i) = header_len
                              /\ \A j \in 1..i : sent[j].bad # "byte"
        BY <2>2 DEF HeaderEnds
      <3>2. i \in 1..(L + 1) /\ \A j \in 1..i : j \in 1..L
        BY <1>3, <3>1
      <3>3. /\ sent'[i].kind = "end" /\ End(i)' = header_len'
            /\ \A j \in 1..i : sent'[j].bad # "byte"
        BY <3>1, <3>2, <1>1, <1>3, <1>4
      <3> QED
        BY <3>2, <3>3, <1>3 DEF HeaderEnds
    <2> QED
      BY <2>1, <2>2, <1>1, <1>3 DEF IInv, Header
  <1>10. BufferIsBounded'
    BY <1>1 DEF IInv, BufferIsBounded
  <1> QED
    BY <1>6, <1>7, <1>8, <1>9, <1>10 DEF IInv

LEMMA ArriveStep ==
    ASSUME IInv, NEW n \in 1..flight, Arrive(n)
    PROVE  IInv'
  <1>1. /\ flight' = flight - n /\ insock' = insock + n /\ edge' = TRUE
        /\ UNCHANGED <<sent, start, gone, pc, full, status, rbuf, cuts, parse_status,
                       parse_offset, content_length, header_len, tasks>>
    BY DEF Arrive, parseVars
  <1>2. TypeOK'
    BY <1>1 DEF IInv, TypeOK
  <1>3. Bytes' = Bytes
    BY <1>1 DEF IInv, TypeOK, Bytes
  <1>4. Stage'
    BY <1>1 DEF IInv, Stage, Announced
  <1>5. Header' /\ BufferIsBounded'
    BY <1>1 DEF IInv, Header, HeaderEnds, End, BufferIsBounded
  <1> QED
    BY <1>1, <1>2, <1>3, <1>4, <1>5, LayoutStays DEF IInv

LEMMA LeaveStep ==
    ASSUME IInv, Leave
    PROVE  IInv'
  <1>1. /\ gone' = TRUE /\ edge' = TRUE
        /\ UNCHANGED <<sent, start, flight, insock, pc, full, status, rbuf, cuts,
                       parse_status, parse_offset, content_length, header_len, tasks>>
    BY DEF Leave, parseVars
  <1>2. TypeOK'
    BY <1>1 DEF IInv, TypeOK
  <1>3. Bytes' = Bytes
    BY <1>1 DEF Bytes
  <1>4. Stage'
    BY <1>1 DEF IInv, Stage, Announced
  <1>5. Header' /\ BufferIsBounded'
    BY <1>1 DEF IInv, Header, HeaderEnds, End, BufferIsBounded
  <1> QED
    BY <1>1, <1>2, <1>3, <1>4, <1>5, LayoutStays DEF IInv

-----------------------------------------------------------------------------
(* ReadData.                                                               *)

LEMMA OnReadStep ==
    ASSUME IInv, OnRead
    PROVE  IInv'
  <1>1. /\ pc = "idle" /\ edge' = FALSE
        /\ pc' = CASE status = "HEADER_RECEIVING" -> "read"
                   [] status = "BODY_RECEIVING" -> "check"
                   [] status = "BODY_RECEIVED" -> "closed"
        /\ UNCHANGED <<sent, start, flight, gone, insock, full, status, rbuf, cuts,
                       parse_status, parse_offset, content_length, header_len, tasks>>
    BY DEF OnRead, clientVars, parseVars
  <1>2. \/ status = "HEADER_RECEIVING" /\ pc' = "read"
        \/ status = "BODY_RECEIVING" /\ pc' = "check"
        \/ status = "BODY_RECEIVED" /\ pc' = "closed"
    BY <1>1 DEF IInv, TypeOK
  <1>3. TypeOK'
    BY <1>1, <1>2 DEF IInv, TypeOK
  <1>4. Bytes' = Bytes
    BY <1>1 DEF Bytes
  <1>5. Stage'
    BY <1>1, <1>2 DEF IInv, Stage
  <1>6. Header'
    BY <1>1 DEF IInv, Header, HeaderEnds, End
  <1>7. BufferIsBounded'
    BY <1>1, <1>2 DEF IInv, BufferIsBounded
  <1> QED
    BY <1>1, <1>3, <1>4, <1>5, <1>6, <1>7, LayoutStays DEF IInv

\* The connection is closed and nothing else changes.
LEMMA ClosingStep ==
    ASSUME IInv, pc' = "closed",
           UNCHANGED <<clientVars, insock, edge, full, status, rbuf, cuts,
                       parseVars, tasks>>
    PROVE  IInv'
  <1>1. UNCHANGED <<sent, start, flight, gone, insock, edge, full, status, rbuf, cuts,
                    parse_status, parse_offset, content_length, header_len, tasks>>
    BY DEF clientVars, parseVars
  <1>2. TypeOK'
    BY <1>1 DEF IInv, TypeOK
  <1>3. Bytes' = Bytes
    BY <1>1 DEF Bytes
  <1>4. Stage'
    BY <1>1 DEF Stage
  <1>5. Header'
    BY <1>1 DEF IInv, Header, HeaderEnds, End
  <1>6. BufferIsBounded'
    BY <1>1 DEF IInv, BufferIsBounded
  <1> QED
    BY <1>1, <1>2, <1>3, <1>4, <1>5, <1>6, LayoutStays DEF IInv

LEMMA ReadnFailsStep == ASSUME IInv, ReadnFails PROVE IInv'
  BY ClosingStep DEF ReadnFails

LEMMA BodyTooLongStep == ASSUME IInv, BodyTooLong PROVE IInv'
  BY ClosingStep DEF BodyTooLong

LEMMA ParseErrorStep ==
    ASSUME IInv, NEW i \in DOMAIN sent, ParseError(i) PROVE IInv'
  BY ClosingStep DEF ParseError

\* What a read does, wherever it happens.
LEMMA ReadnFacts ==
    ASSUME TypeOK, NEW n \in 0..CHUNK, Readn(n)
    PROVE  /\ n \in Nat /\ n <= CHUNK
           /\ insock' \in Nat /\ rbuf' = rbuf + n /\ rbuf' \in Nat
           /\ full' = (n = CHUNK) /\ cuts' \in SUBSET Nat
           /\ n # CHUNK => insock' = 0 /\ ~gone
           /\ Bytes' = Bytes
           /\ UNCHANGED <<sent, start, flight, gone, edge>>
  <1>1. n \in Nat /\ n <= CHUNK
    BY Limits
  <1>2. /\ insock' = insock - n /\ rbuf' = rbuf + n /\ full' = (n = CHUNK)
        /\ cuts' = IF n = 0 THEN cuts ELSE cuts \cup {rbuf + n}
        /\ insock < CHUNK => ~gone /\ n = insock
        /\ insock >= CHUNK => n = CHUNK
        /\ UNCHANGED <<sent, start, flight, gone, edge>>
    BY DEF Readn, clientVars
  <1>3. insock' \in Nat /\ (n # CHUNK => insock' = 0 /\ ~gone)
    BY <1>1, <1>2, Limits DEF TypeOK
  <1>4. rbuf' \in Nat /\ cuts' \in SUBSET Nat
    BY <1>1, <1>2 DEF TypeOK
  <1>5. Bytes' = Bytes
    BY <1>1, <1>2 DEF TypeOK, Bytes
  <1> QED
    BY <1>1, <1>2, <1>3, <1>4, <1>5

LEMMA ReadHeaderStep ==
    ASSUME IInv, NEW n \in 0..CHUNK, ReadHeader(n)
    PROVE  IInv'
  <1>1. /\ pc = "read" /\ Readn(n)
        /\ pc' = IF n = 0 THEN "idle"
                 ELSE IF rbuf + n > MaxHeader THEN "closed" ELSE "parse"
        /\ UNCHANGED <<status, parse_status, parse_offset, content_length,
                       header_len, tasks>>
    BY DEF ReadHeader, HeaderTooLong, parseVars
  <1>2. /\ n \in Nat /\ n <= CHUNK
        /\ insock' \in Nat /\ rbuf' = rbuf + n /\ rbuf' \in Nat
        /\ full' = (n = CHUNK) /\ cuts' \in SUBSET Nat
        /\ n # CHUNK => insock' = 0 /\ ~gone
        /\ Bytes' = Bytes
        /\ UNCHANGED <<sent, start, flight, gone, edge>>
    BY <1>1, ReadnFacts DEF IInv
  <1>3. status = "HEADER_RECEIVING" /\ parse_offset = rbuf /\ rbuf <= MaxHeader
    BY <1>1 DEF IInv, Stage
  <1>4. TypeOK'
    BY <1>1, <1>2 DEF IInv, TypeOK
  <1>5. Stage'
    <2>1. CASE n = 0
      BY <2>1, <1>1, <1>2, <1>3, Limits DEF Stage, Announced, IInv, TypeOK
    <2>2. CASE n # 0 /\ rbuf + n > MaxHeader
      BY <2>2, <1>1, <1>2, <1>3 DEF Stage
    <2>3. CASE n # 0 /\ ~(rbuf + n > MaxHeader)
      <3>1. pc' = "parse" /\ status' = "HEADER_RECEIVING"
        BY <2>3, <1>1, <1>3
      <3>2. rbuf' <= MaxHeader
        BY <2>3, <1>2, Limits DEF IInv, TypeOK
      <3>3. ~full' => Announced'
        <4>1. CASE n = CHUNK
          BY <4>1, <1>2
        <4>2. CASE n # CHUNK
          <5>1. ~(insock' > 0) /\ ~gone'
            BY <4>2, <1>2
          <5> QED
            BY <5>1 DEF Announced
        <4> QED
          BY <4>1, <4>2
      <3> QED
        BY <3>1, <3>2, <3>3 DEF Stage
    <2> QED
      BY <2>1, <2>2, <2>3
  <1>6. Header'
    BY <1>1, <1>2, <1>3 DEF IInv, Header, End
  <1>7. BufferIsBounded'
    BY <1>1, <1>2, <1>3, Limits DEF IInv, TypeOK, BufferIsBounded
  <1> QED
    BY <1>2, <1>4, <1>5, <1>6, <1>7, LayoutStays DEF IInv

LEMMA ParseNothingStep ==
    ASSUME IInv, ParseNothing
    PROVE  IInv'
  <1>1. /\ pc = "parse" /\ parse_offset = rbuf
        /\ pc' = IF full THEN "read" ELSE "idle"
        /\ UNCHANGED <<sent, start, flight, gone, insock, edge, full, status, rbuf,
                       cuts, parse_status, parse_offset, content_length,
                       header_len, tasks>>
    BY DEF ParseNothing, ReadOn, clientVars, parseVars
  <1>2. status = "HEADER_RECEIVING" /\ rbuf <= MaxHeader /\ (~full => Announced)
    BY <1>1 DEF IInv, Stage
  <1>3. TypeOK'
    BY <1>1 DEF IInv, TypeOK
  <1>4. Bytes' = Bytes
    BY <1>1 DEF Bytes
  <1>5. Stage'
    BY <1>1, <1>2 DEF Stage, Announced
  <1>6. Header'
    BY <1>1 DEF IInv, Header, HeaderEnds, End
  <1>7. BufferIsBounded'
    BY <1>1, <1>2 DEF BufferIsBounded
  <1> QED
    BY <1>1, <1>3, <1>4, <1>5, <1>6, <1>7, LayoutStays DEF IInv

-----------------------------------------------------------------------------
(* Parse.                                                                  *)

\* Of the lines that end where the i-th one does or before, the others were
\* taken before.
LEMMA Earlier ==
    ASSUME IInv, NEW i \in 1..Len(sent), InLine(i),
           NEW j \in 1..Len(sent), End(j) <= End(i), j # i
    PROVE  End(j) <= parse_offset /\ j < i
  <1>1. /\ i \in Nat /\ j \in Nat /\ start[i] \in Nat /\ start[j] \in Nat
        /\ End(i) \in Nat /\ End(j) \in Nat /\ parse_offset \in Nat
        /\ End(j) > start[j]
    <2>1. Len(sent) \in Nat /\ parse_offset \in Nat
      BY Lines DEF IInv, TypeOK
    <2>2. \A k \in 1..Len(sent) :
              start[k] \in Nat /\ End(k) \in Nat /\ End(k) > start[k]
      <3> SUFFICES ASSUME NEW k \in 1..Len(sent)
                   PROVE  start[k] \in Nat /\ End(k) \in Nat /\ End(k) > start[k]
        OBVIOUS
      <3>1. /\ start[k] \in Nat /\ sent[k].size \in Nat /\ sent[k].size > 1
            /\ End(k) \in Nat /\ End(k) = start[k] + sent[k].size
        BY Lines DEF IInv
      <3> QED
        BY <3>1
    <2> QED
      BY <2>1, <2>2
  <1>2. ~(i < j)
    BY <1>1 DEF IInv, Layout
  <1>3. j < i
    BY <1>1, <1>2
  <1>4. End(j) <= start[i]
    BY <1>3 DEF IInv, Layout
  <1> QED
    BY <1>1, <1>3, <1>4 DEF InLine

LEMMA ParsePartStep ==
    ASSUME IInv, NEW i \in DOMAIN sent, ParsePart(i)
    PROVE  IInv'
  <1>1. i \in 1..Len(sent)
    BY Lines DEF IInv
  <1>2. /\ pc = "parse" /\ InLine(i) /\ rbuf < End(i)
        /\ parse_status' = TakenFor(i) /\ parse_offset' = rbuf
        /\ UNCHANGED <<sent, start, flight, gone, insock, edge, pc, full, status,
                       rbuf, cuts, content_length, header_len, tasks>>
    BY DEF ParsePart, clientVars
  <1>3. status = "HEADER_RECEIVING"
    BY <1>2 DEF IInv, Stage
  <1>4. TypeOK'
    <2>1. TakenFor(i) \in Kind
      BY <1>1, Lines DEF TakenFor, Looked, IInv, TypeOK, Kind
    <2> QED
      BY <2>1, <1>2 DEF IInv, TypeOK
  <1>5. Bytes' = Bytes
    BY <1>2 DEF Bytes
  <1>6. Stage'
    BY <1>2 DEF IInv, Stage, Announced
  <1>7. Header'
    <2>1. ASSUME NEW j \in 1..Len(sent), End(j) <= rbuf
          PROVE  sent[j].bad # "byte" /\ sent[j].kind # "end"
      <3>1. End(j) <= End(i) /\ j # i
        BY <2>1, <1>1, <1>2, Lines DEF IInv, TypeOK
      <3>2. End(j) <= parse_offset
        BY <3>1, <1>1, <1>2, Earlier
      <3> QED
        BY <3>2, <1>3 DEF IInv, Header
    <2> QED
      BY <2>1, <1>2, <1>3 DEF IInv, Header, End
  <1>8. BufferIsBounded'
    BY <1>2 DEF IInv, BufferIsBounded
  <1> QED
    BY <1>2, <1>4, <1>5, <1>6, <1>7, <1>8, LayoutStays DEF IInv

\* content_length_ stays within its width.
LEMMA Wraps ==
    ASSUME NEW a \in Nat, NEW b \in Nat, NEW c \in Nat
    PROVE  (a * b + c) % WIDTH \in 0..(WIDTH - 1)
  <1>1. a * b \in Nat
    OBVIOUS
  <1>2. \A d \in Nat : (d + c) % WIDTH \in 0..(WIDTH - 1)
    BY Limits
  <1> QED
    BY <1>1, <1>2

LEMMA ParseLineStep ==
    ASSUME IInv, NEW i \in DOMAIN sent, ParseLine(i)
    PROVE  IInv'
  <1>1. i \in 1..Len(sent)
    BY Lines DEF IInv
  <1>2. /\ pc = "parse" /\ InLine(i) /\ End(i) <= rbuf
        /\ sent[i].bad # "byte" /\ sent[i].kind # "end"
        /\ parse_status' = TakenFor(i) /\ parse_offset' = End(i)
        /\ IF TakenFor(i) = "content_length"
           THEN content_length' =
                    (content_length * sent[i].scale + sent[i].value) % WIDTH
           ELSE content_length' = content_length
        /\ UNCHANGED <<sent, start, flight, gone, insock, edge, pc, full, status,
                       rbuf, cuts, header_len, tasks>>
    BY DEF ParseLine, Refused, AddLength, clientVars
  <1>3. status = "HEADER_RECEIVING" /\ rbuf <= MaxHeader
    BY <1>2 DEF IInv, Stage
  <1>4. TypeOK'
    <2>1. TakenFor(i) \in Kind
      BY <1>1, Lines DEF TakenFor, Looked, IInv, TypeOK, Kind
    <2>2. content_length' \in 0..(WIDTH - 1)
      <3>1. content_length \in Nat
        BY DEF IInv, TypeOK
      <3>2. sent[i].scale \in Nat /\ sent[i].value \in Nat
        BY <1>1, Lines DEF IInv
      <3>3. (content_length * sent[i].scale + sent[i].value) % WIDTH \in 0..(WIDTH - 1)
        BY <3>1, <3>2, Wraps
      <3> QED
        BY <3>3, <1>2 DEF IInv, TypeOK
    <2>3. End(i) \in 0..rbuf
      BY <1>1, <1>2, Lines DEF IInv, TypeOK
    <2> QED
      BY <2>1, <2>2, <2>3, <1>2 DEF IInv, TypeOK
  <1>5. Bytes' = Bytes
    BY <1>2 DEF Bytes
  <1>6. Stage'
    BY <1>2 DEF IInv, Stage, Announced
  <1>7. Header'
    <2>1. ASSUME NEW j \in 1..Len(sent), End(j) <= End(i)
          PROVE  sent[j].bad # "byte" /\ sent[j].kind # "end"
      <3>1. CASE j = i
        BY <3>1, <1>2
      <3>2. CASE j # i
        <4>1. End(j) <= parse_offset
          BY <3>2, <2>1, <1>1, <1>2, Earlier
        <4> QED
          BY <4>1, <1>3 DEF IInv, Header
      <3> QED
        BY <3>1, <3>2
    <2> QED
      BY <2>1, <1>2, <1>3 DEF IInv, Header, End
  <1>8. BufferIsBounded'
    BY <1>2, <1>3 DEF BufferIsBounded
  <1> QED
    BY <1>2, <1>4, <1>5, <1>6, <1>7, <1>8, LayoutStays DEF IInv

LEMMA ParseEndStep ==
    ASSUME IInv, NEW i \in DOMAIN sent, ParseEnd(i)
    PROVE  IInv'
  <1>1. i \in 1..Len(sent)
    BY Lines DEF IInv
  <1>2. /\ pc = "parse" /\ InLine(i) /\ End(i) <= rbuf
        /\ sent[i].bad # "byte" /\ sent[i].kind = "end"
        /\ parse_status' = "end" /\ parse_offset' = End(i) /\ header_len' = End(i)
        /\ status' = "BODY_RECEIVING" /\ pc' = "check"
        /\ UNCHANGED <<sent, start, flight, gone, insock, edge, full, rbuf, cuts,
                       content_length, tasks>>
    BY DEF ParseEnd, Refused, clientVars
  <1>3. status = "HEADER_RECEIVING" /\ rbuf <= MaxHeader
    BY <1>2 DEF IInv, Stage
  <1>4. End(i) \in 0..rbuf /\ End(i) <= MaxHeader
    BY <1>1, <1>2, <1>3, Lines, Limits DEF IInv, TypeOK
  <1>5. TypeOK'
    BY <1>2, <1>4 DEF IInv, TypeOK, Kind
  <1>6. Bytes' = Bytes
    BY <1>2 DEF Bytes
  <1>7. Stage'
    BY <1>2 DEF Stage
  <1>8. Header'
    <2>1. ASSUME NEW j \in 1..i
          PROVE  sent[j].bad # "byte"
      <3>1. CASE j = i
        BY <3>1, <1>2
      <3>2. CASE j # i
        <4>1. j \in 1..Len(sent) /\ j < i
          BY <3>2, <1>1, Lines DEF IInv
        <4>2. End(j) <= start[i]
          BY <4>1, <1>1 DEF IInv, Layout
        <4>3. End(j) <= parse_offset
          BY <4>1, <4>2, <1>1, <1>2, Lines DEF IInv, TypeOK, InLine
        <4> QED
          BY <4>1, <4>3, <1>3 DEF IInv, Header
      <3> QED
        BY <3>1, <3>2
    <2>2. HeaderEnds(header_len)'
      BY <2>1, <1>1, <1>2 DEF HeaderEnds, End
    <2>3. tasks' = tasks /\ tasks # 1 /\ status' # "BODY_RECEIVED" /\ header_len' <= MaxHeader
      BY <1>2, <1>3, <1>4 DEF IInv, Header
    <2> QED
      BY <2>2, <2>3, <1>2 DEF Header
  <1>9. BufferIsBounded'
    BY <1>2, <1>3 DEF BufferIsBounded
  <1> QED
    BY <1>2, <1>5, <1>6, <1>7, <1>8, <1>9, LayoutStays DEF IInv

-----------------------------------------------------------------------------
(* The body.                                                               *)

LEMMA CheckBodyStep ==
    ASSUME IInv, CheckBody
    PROVE  IInv'
  <1>1. /\ pc = "check" /\ content_length <= MaxPost
        /\ IF rbuf - header_len >= content_length
           THEN status' = "BODY_RECEIVED" /\ tasks' = tasks + 1 /\ pc' = "idle"
           ELSE pc' = "read_body" /\ status' = status /\ tasks' = tasks
        /\ UNCHANGED <<sent, start, flight, gone, insock, edge, full, rbuf, cuts,
                       parse_status, parse_offset, content_length, header_len>>
    BY DEF CheckBody, Whole, TaskPush, clientVars, parseVars
  <1>2. /\ status = "BODY_RECEIVING" /\ tasks = 0
        /\ rbuf \in Nat /\ header_len \in Nat /\ content_length \in Nat
        /\ HeaderEnds(header_len) /\ header_len <= MaxHeader
    BY <1>1, Limits DEF IInv, Stage, Header, TypeOK
  <1>3. TypeOK'
    BY <1>1, <1>2 DEF IInv, TypeOK
  <1>4. Bytes' = Bytes
    BY <1>1 DEF Bytes
  <1>5. Stage'
    BY <1>1, <1>2 DEF Stage
  <1>6. HeaderEnds(header_len)'
    BY <1>1, <1>2 DEF HeaderEnds, End
  <1>7. Header'
    BY <1>1, <1>2, <1>6 DEF Header
  <1>8. BufferIsBounded'
    BY <1>1, <1>2 DEF IInv, BufferIsBounded
  <1> QED
    BY <1>1, <1>3, <1>4, <1>5, <1>7, <1>8, LayoutStays DEF IInv

LEMMA ReadBodyStep ==
    ASSUME IInv, NEW n \in 0..CHUNK, ReadBody(n)
    PROVE  IInv'
  <1>1. /\ pc = "read_body" /\ Readn(n)
        /\ IF n > 0 /\ (rbuf + n) - header_len >= content_length
           THEN status' = "BODY_RECEIVED" /\ tasks' = tasks + 1 /\ pc' = "idle"
           ELSE /\ pc' = IF n = CHUNK THEN "read_body" ELSE "idle"
                /\ status' = status /\ tasks' = tasks
        /\ UNCHANGED <<parse_status, parse_offset, content_length, header_len>>
    BY DEF ReadBody, Whole, TaskPush, parseVars
  <1>2. /\ n \in Nat /\ n <= CHUNK
        /\ insock' \in Nat /\ rbuf' = rbuf + n /\ rbuf' \in Nat
        /\ full' = (n = CHUNK) /\ cuts' \in SUBSET Nat
        /\ n # CHUNK => insock' = 0 /\ ~gone
        /\ Bytes' = Bytes
        /\ UNCHANGED <<sent, start, flight, gone, edge>>
    BY <1>1, ReadnFacts DEF IInv
  <1>3. /\ status = "BODY_RECEIVING" /\ tasks = 0
        /\ rbuf \in Nat /\ header_len \in Nat /\ content_length \in Nat
        /\ HeaderEnds(header_len) /\ header_len <= MaxHeader
        /\ rbuf - header_len < content_length /\ content_length <= MaxPost
    BY <1>1, Limits DEF IInv, Stage, Header, TypeOK
  <1>4. TypeOK'
    <2>1. status' \in {"BODY_RECEIVING", "BODY_RECEIVED"} /\ tasks' \in 0..1
          /\ pc' \in {"idle", "read_body"}
      BY <1>1, <1>3
    <2>2. parse_offset' \in 0..rbuf' /\ header_len' \in 0..rbuf'
      BY <1>1, <1>2, <1>3 DEF IInv, TypeOK
    <2> QED
      BY <2>1, <2>2, <1>1, <1>2 DEF IInv, TypeOK
  <1>5. Stage'
    <2>1. CASE status' = "BODY_RECEIVED"
      BY <2>1, <1>1, <1>3 DEF Stage
    <2>2. CASE status' # "BODY_RECEIVED"
      <3>1. /\ ~(n > 0 /\ (rbuf + n) - header_len >= content_length)
            /\ pc' = IF n = CHUNK THEN "read_body" ELSE "idle"
            /\ status' = "BODY_RECEIVING"
        BY <2>2, <1>1, <1>3
      <3>2. rbuf' - header_len' < content_length' /\ content_length' <= MaxPost
        BY <3>1, <1>1, <1>2, <1>3
      <3>3. pc' = "idle" => Announced'
        BY <3>1, <1>2 DEF Announced
      <3> QED
        BY <3>1, <3>2, <3>3 DEF Stage
    <2> QED
      BY <2>1, <2>2
  <1>6. HeaderEnds(header_len)'
    BY <1>1, <1>2, <1>3 DEF HeaderEnds, End
  <1>7. Header'
    <2>1. CASE n > 0 /\ (rbuf + n) - header_len >= content_length
      BY <2>1, <1>1, <1>2, <1>3, <1>6 DEF Header
    <2>2. CASE ~(n > 0 /\ (rbuf + n) - header_len >= content_length)
      BY <2>2, <1>1, <1>2, <1>3, <1>6 DEF Header
    <2> QED
      BY <2>1, <2>2
  <1>8. BufferIsBounded'
    <2>1. rbuf' < header_len' + MaxPost + CHUNK
      BY <1>1, <1>2, <1>3, Limits
    <2>2. status' # "HEADER_RECEIVING"
      BY <1>1, <1>3
    <2> QED
      BY <2>1, <2>2 DEF BufferIsBounded
  <1> QED
    BY <1>2, <1>4, <1>5, <1>7, <1>8, LayoutStays DEF IInv

LEMMA StutterStep ==
    ASSUME IInv, UNCHANGED vars
    PROVE  IInv'
  <1>1. UNCHANGED <<sent, start, flight, gone, insock, edge, pc, full, status, rbuf,
                    cuts, parse_status, parse_offset, content_length, header_len,
                    tasks>>
    BY DEF vars
  <1>2. TypeOK'
    BY <1>1 DEF IInv, TypeOK
  <1>3. Bytes' = Bytes
    BY <1>1 DEF Bytes
  <1>4. Stage'
    BY <1>1 DEF IInv, Stage, Announced
  <1>5. Header' /\ BufferIsBounded'
    BY <1>1 DEF IInv, Header, HeaderEnds, End, BufferIsBounded
  <1> QED
    BY <1>1, <1>2, <1>3, <1>4, <1>5, LayoutStays DEF IInv

LEMMA NextIInv ==
    ASSUME IInv, [Next]_vars
    PROVE  IInv'
  <1>1. CASE \E l \in Line : SendLine(l)
    BY <1>1, SendLineStep
  <1>2. CASE \E n \in 1..flight : Arrive(n)
    BY <1>2, ArriveStep
  <1>3. CASE Leave
    BY <1>3, LeaveStep
  <1>4. CASE OnRead \/ ReadnFails \/ ParseNothing \/ BodyTooLong \/ CheckBody
    BY <1>4, OnReadStep, ReadnFailsStep, ParseNothingStep, BodyTooLongStep,
       CheckBodyStep
  <1>5. CASE \E n \in 0..CHUNK : ReadHeader(n) \/ ReadBody(n)
    BY <1>5, ReadHeaderStep, ReadBodyStep
  <1>6. CASE \E i \in DOMAIN sent :
                 ParseError(i) \/ ParsePart(i) \/ ParseLine(i) \/ ParseEnd(i)
    BY <1>6, ParseErrorStep, ParsePartStep, ParseLineStep, ParseEndStep
  <1>7. CASE UNCHANGED vars
    BY <1>7, StutterStep
  <1> QED
    BY <1>1, <1>2, <1>3, <1>4, <1>5, <1>6, <1>7 DEF Next, ServerNext, ClientNext

-----------------------------------------------------------------------------

\* The inductive invariant holds in every state, whatever the client sends and
\* however it arrives: the base of the theorems below.
THEOREM RequestInvariant == Spec => []IInv
  BY InitIInv, NextIInv, PTL DEF Spec

\* The session keeps its types; content_length_ its width among them.
THEOREM RequestTypeCorrect == Spec => []TypeOK
  <1>1. IInv => TypeOK
    BY DEF IInv
  <1> QED
    BY <1>1, RequestInvariant, PTL

\* ReadData is left only with an edge for what is on the socket and with a
\* request that is incomplete (Request::ReadData).
THEOREM RequestsNotStranded == Spec => []RequestNotStranded
  <1>1. IInv => RequestNotStranded
    BY DEF IInv, Stage, Announced, RequestNotStranded, TypeOK
  <1> QED
    BY <1>1, RequestInvariant, PTL

\* The worker gets whole requests, within the limits, once (TaskPush in
\* Request::ReadData).
THEOREM RequestsWhole == Spec => []HandedOverWhole
  <1>1. ASSUME IInv PROVE HandedOverWhole
    <2>1. DOMAIN sent = 1..Len(sent)
      BY <1>1, Lines DEF IInv
    <2> QED
      BY <1>1, <2>1 DEF IInv, Header, HeaderEnds, HandedOverWhole
  <1> QED
    BY <1>1, RequestInvariant, PTL

\* rbuf_ is bounded by the limits and a chunk, for every value of them.
THEOREM BufferBounded == Spec => []BufferIsBounded
  <1>1. IInv => BufferIsBounded
    BY DEF IInv
  <1> QED
    BY <1>1, RequestInvariant, PTL
-----------------------------------------------------------------------------
(* The length of the body.  LInv says when a line was recognised (Inside), *)
(* and that what content_length_ holds is what the lines parsed so far     *)
(* tell (LengthSoFar).  A read can change neither: what it cuts lies       *)
(* beyond what Parse has looked at (Cuts).                                 *)

Cuts ==
    /\ \A n \in cuts : 0 < n /\ n <= rbuf
    /\ rbuf > 0 => rbuf \in cuts
    /\ status = "HEADER_RECEIVING" => \A n \in cuts : n <= parse_offset \/ n = rbuf

Inside ==
    status = "HEADER_RECEIVING" =>
        \A i \in 1..Len(sent) :
            start[i] < parse_offset /\ parse_offset < End(i) =>
                (parse_status = "content_length" <=> Recognised(i))

\* The first k lines are those which Parse has gone over.
Parsed(k) == \A j \in 1..Len(sent) : j <= k <=> End(j) <= parse_offset

LengthSoFar ==
    status = "HEADER_RECEIVING" =>
        \E k \in 0..Len(sent) : Parsed(k) /\ content_length = Told[k] % WIDTH

LInv == Cuts /\ Inside /\ LengthSoFar /\ LengthAsAnnounced

\* A set of numbers that is not empty has a least one.
LEMMA Least ==
    ASSUME NEW T, T \subseteq Nat, T # {}
    PROVE  \E x \in T : \A y \in T : x <= y
  <1>1. PICK x \in T : \A y \in T : <<y, x>> \notin OpToRel(<, Nat)
    BY NatLessThanWellFounded, WFMin, Zenon
  <1>2. \A y \in T : y < x => <<y, x>> \in OpToRel(<, Nat)
    BY Zenon DEF OpToRel
  <1>3. \A y \in T : ~(y < x)
    BY <1>1, <1>2, Zenon
  <1> QED
    BY <1>3

LEMMA Sums ==
    ASSUME NEW a \in Nat, NEW b \in Nat, NEW c \in Nat
    PROVE  a * b + c \in Nat
  <1>1. a * b \in Nat
    OBVIOUS
  <1> QED
    BY <1>1

LineByLine ==
    /\ Told[0] = 0
    /\ \A k \in 1..Len(sent) :
           Told[k] = IF Recognised(k)
                     THEN Told[k - 1] * sent[k].scale + sent[k].value
                     ELSE Told[k - 1]
    /\ \A k \in 0..Len(sent) : Told[k] \in Nat

\* What the lines tell is defined, one line after the other.
LEMMA ToldByLine ==
    ASSUME TypeOK
    PROVE  LineByLine
  <1> DEFINE L == Len(sent)
             With(k, a) == IF Recognised(k) THEN a * sent[k].scale + sent[k].value
                           ELSE a
             IsTold(n, f) == /\ f[0] = 0
                             /\ \A k \in 1..n : f[k] = With(k, f[k - 1])
             Lines1(f) == [k \in 0..L |->
                             IF k = 0 THEN 0
                             ELSE IF Recognised(k)
                             THEN f[k - 1] * sent[k].scale + sent[k].value
                             ELSE f[k - 1]]
             T == {n \in 0..L : ~\E f : IsTold(n, f)}
  <1>1. L \in Nat
    BY Lines
  <1>2. T = {}
    <2> SUFFICES ASSUME T # {} PROVE FALSE
      OBVIOUS
    <2>1. PICK n \in T : \A m \in T : n <= m
      <3>1. T \subseteq Nat
        OBVIOUS
      <3> QED
        BY <3>1, Least
    <2>2. n # 0
      <3>1. IsTold(0, [k \in 0..0 |-> 0])
        OBVIOUS
      <3> QED
        BY <3>1
    <2>3. n \in 1..L /\ n - 1 \in 0..L /\ n - 1 \notin T
      <3>1. n \in 0..L
        BY <2>1
      <3>2. n \in 1..L /\ n - 1 \in 0..L /\ ~(n <= n - 1)
        BY <1>1, <2>2, <3>1
      <3> HIDE DEF T
      <3> QED
        BY <2>1, <3>2
    <2>4. PICK f : IsTold(n - 1, f)
      BY <2>3
    <2> DEFINE g == [k \in 0..n |-> IF k = n THEN With(n, f[n - 1]) ELSE f[k]]
    <2>5. g[0] = 0
      BY <2>3, <2>4
    <2>6. ASSUME NEW k \in 1..n PROVE g[k] = With(k, g[k - 1])
      <3>1. k - 1 \in 0..n /\ k - 1 # n /\ k \in 0..n
        BY <2>3
      <3>2. g[k - 1] = f[k - 1]
        BY <3>1
      <3>3. CASE k = n
        BY <3>1, <3>2, <3>3
      <3>4. CASE k # n
        <4>1. k \in 1..(n - 1)
          BY <2>3, <3>4
        <4>2. f[k] = With(k, f[k - 1])
          BY <2>4, <4>1
        <4>3. g[k] = f[k]
          BY <3>1, <3>4
        <4> QED
          BY <3>2, <4>2, <4>3
      <3> QED
        BY <3>3, <3>4
    <2>7. IsTold(n, g)
      BY <2>5, <2>6
    <2> HIDE DEF g, IsTold
    <2> QED
      BY <2>1, <2>7
  <1>3. PICK f : IsTold(L, f)
    BY <1>1, <1>2
  <1>4. \E h : h = Lines1(h)
    <2> DEFINE h == [k \in 0..L |-> f[k]]
    <2>1. h[0] = 0
      BY <1>1, <1>3
    <2>2. ASSUME NEW k \in 1..L PROVE h[k] = With(k, h[k - 1])
      <3>1. k \in 0..L /\ k - 1 \in 0..L
        BY <1>1
      <3>2. h[k] = f[k] /\ h[k - 1] = f[k - 1]
        BY <3>1
      <3> HIDE DEF h
      <3> QED
        BY <1>3, <3>2
    <2>3. ASSUME NEW k \in 0..L PROVE h[k] = Lines1(h)[k]
      <3>1. CASE k = 0
        BY <2>1, <3>1
      <3>2. CASE k # 0
        <4>1. k \in 1..L
          BY <1>1, <3>2
        <4>2. h[k] = With(k, h[k - 1])
          BY <2>2, <4>1
        <4> HIDE DEF h
        <4> QED
          BY <3>2, <4>2
      <3> QED
        BY <3>1, <3>2
    <2>4. h = [k \in 0..L |-> h[k]]
      OBVIOUS
    <2> HIDE DEF h
    <2>5. h = Lines1(h)
      BY <2>3, <2>4
    <2> QED
      BY <2>5
  <1>5. Told = Lines1(Told)
    BY <1>4 DEF Told
  <1>6. Told[0] = 0
    <2>1. Lines1(Told)[0] = 0
      BY <1>1
    <2> QED
      BY <1>5, <2>1
  <1>7. ASSUME NEW k \in 1..L PROVE Told[k] = With(k, Told[k - 1])
    <2>1. k \in 0..L /\ k # 0
      BY <1>1
    <2>2. Lines1(Told)[k] = With(k, Told[k - 1])
      BY <2>1
    <2> QED
      BY <1>5, <2>2
  <1>8. \A k \in 0..L : Told[k] \in Nat
    <2> DEFINE U == {k \in 0..L : Told[k] \notin Nat}
    <2> SUFFICES ASSUME U # {} PROVE FALSE
      OBVIOUS
    <2>1. PICK k \in U : \A m \in U : k <= m
      <3>1. U \subseteq Nat
        OBVIOUS
      <3> QED
        BY <3>1, Least
    <2>2. k \in 1..L /\ k - 1 \in 0..L /\ k - 1 \notin U
      BY <1>1, <1>6, <2>1
    <2>3. Told[k - 1] \in Nat
      BY <2>2
    <2>4. sent[k].scale \in Nat /\ sent[k].value \in Nat
      BY <2>2, Lines
    <2>5. Told[k - 1] * sent[k].scale + sent[k].value \in Nat
      BY <2>3, <2>4, Sums
    <2>6. Told[k] \in Nat
      BY <1>7, <2>2, <2>3, <2>5
    <2> QED
      BY <2>1, <2>6
  <1> QED
    BY <1>6, <1>7, <1>8 DEF LineByLine

LEMMA ToldByLineNext == TypeOK' => LineByLine'
  <1>1. TypeOK => LineByLine
    BY ToldByLine
  <1> QED
    BY <1>1, PTL

\* What the first lines tell depends on those lines only.
LEMMA SameTold ==
    ASSUME TypeOK, TypeOK', NEW K \in Nat, K <= Len(sent), K <= Len(sent'),
           \A j \in 1..K : sent'[j] = sent[j] /\ (Recognised(j)' <=> Recognised(j))
    PROVE  \A k \in 0..K : Told'[k] = Told[k]
  <1> DEFINE T == {k \in 0..K : Told'[k] # Told[k]}
  <1> SUFFICES ASSUME T # {} PROVE FALSE
    OBVIOUS
  <1>1. PICK k \in T : \A m \in T : k <= m
    <2>1. T \subseteq Nat
      OBVIOUS
    <2> QED
      BY <2>1, Least
  <1>2. Len(sent) \in Nat /\ Len(sent') \in Nat
    BY DEF TypeOK
  <1>3. Told[0] = 0 /\ Told'[0] = 0
    BY ToldByLine, ToldByLineNext DEF LineByLine
  <1>4. k \in 1..K /\ k - 1 \in 0..K /\ k - 1 \notin T
    BY <1>1, <1>3
  <1>5. Told'[k - 1] = Told[k - 1]
    BY <1>4
  <1>6. /\ k \in 1..Len(sent) /\ k \in 1..Len(sent')
        /\ sent'[k] = sent[k] /\ (Recognised(k)' <=> Recognised(k))
    BY <1>2, <1>4
  <1>7. Told[k] = IF Recognised(k) THEN Told[k - 1] * sent[k].scale + sent[k].value
                  ELSE Told[k - 1]
    BY <1>6, ToldByLine DEF LineByLine
  <1>8. Told'[k] = IF Recognised(k)'
                   THEN Told'[k - 1] * sent'[k].scale + sent'[k].value
                   ELSE Told'[k - 1]
    BY <1>6, ToldByLineNext DEF LineByLine
  <1>9. Told'[k] = Told[k]
    BY <1>5, <1>6, <1>7, <1>8
  <1> QED
    BY <1>1, <1>9
LEMMA InitLInv == Init => LInv
  <1> SUFFICES ASSUME Init PROVE LInv
    OBVIOUS
  <1>1. TypeOK /\ Len(sent) = 0
    BY InitIInv DEF Init, IInv
  <1>2. Told[0] = 0
    BY <1>1, ToldByLine DEF LineByLine
  <1>3. 0 = 0 % WIDTH
    BY Limits
  <1>4. 0 \in 0..Len(sent) /\ Parsed(0)
    BY <1>1 DEF Parsed
  <1>5. LengthSoFar
    BY <1>2, <1>3, <1>4 DEF Init, LengthSoFar
  <1>6. Cuts /\ Inside /\ LengthAsAnnounced
    BY <1>1 DEF Init, Cuts, Inside, LengthAsAnnounced
  <1> QED
    BY <1>5, <1>6 DEF LInv

\* More lines are sent, or more bytes are read, and Parse stays where it is.
LEMMA MoreInput ==
    ASSUME IInv, IInv', LInv,
           UNCHANGED <<parse_status, parse_offset, content_length, header_len>>,
           status' = "HEADER_RECEIVING" <=> status = "HEADER_RECEIVING",
           Len(sent) <= Len(sent'),
           \A i \in 1..Len(sent) : sent'[i] = sent[i] /\ start'[i] = start[i],
           \A i \in 1..Len(sent') : i > Len(sent) => start'[i] >= parse_offset,
           \/ rbuf' = rbuf /\ cuts' = cuts
           \/ /\ rbuf' > rbuf /\ cuts' = cuts \cup {rbuf'}
              /\ status = "HEADER_RECEIVING" => parse_offset = rbuf
    PROVE  LInv'
  <1>1. /\ rbuf \in Nat /\ rbuf' \in Nat /\ parse_offset \in Nat
        /\ parse_offset <= rbuf /\ header_len \in Nat /\ header_len <= rbuf
        /\ LOOKAHEAD \in Nat /\ LOOKAHEAD > 0
        /\ Len(sent) \in Nat /\ Len(sent') \in Nat /\ cuts \in SUBSET Nat
    <2>1. LOOKAHEAD \in Nat \ {0}
      BY LimitAssumption
    <2>2. parse_offset \in 0..rbuf /\ header_len \in 0..rbuf
      BY DEF IInv, TypeOK
    <2> QED
      BY <2>1, <2>2 DEF IInv, TypeOK
  <1>2. \A i \in 1..Len(sent) : /\ start[i] \in Nat /\ End(i) \in Nat
                                /\ start[i] < End(i) /\ End(i)' = End(i)
    <2> SUFFICES ASSUME NEW i \in 1..Len(sent)
                 PROVE  /\ start[i] \in Nat /\ End(i) \in Nat
                        /\ start[i] < End(i) /\ End(i)' = End(i)
      OBVIOUS
    <2>1. /\ start[i] \in Nat /\ sent[i].size \in Nat /\ sent[i].size > 1
          /\ End(i) \in Nat /\ End(i) = start[i] + sent[i].size
      BY Lines DEF IInv
    <2>2. End(i)' = End(i)
      BY DEF End
    <2> QED
      BY <2>1, <2>2
  <1>3. \A i \in 1..Len(sent') : i > Len(sent) => End(i)' > parse_offset
    <2> SUFFICES ASSUME NEW i \in 1..Len(sent'), i > Len(sent)
                 PROVE  End(i)' > parse_offset
      OBVIOUS
    <2>1. sent'[i] \in Line /\ start'[i] \in Nat
      BY DEF IInv, TypeOK
    <2>2. sent'[i].size \in Nat \ {0, 1}
      BY <2>1, LineAssumption
    <2>3. start'[i] >= parse_offset
      OBVIOUS
    <2> QED
      BY <2>1, <2>2, <2>3, <1>1 DEF End
  <1>4. Cuts'
    <2>1. CASE rbuf' = rbuf /\ cuts' = cuts
      BY <2>1 DEF LInv, Cuts
    <2>2. CASE /\ rbuf' > rbuf /\ cuts' = cuts \cup {rbuf'}
               /\ status = "HEADER_RECEIVING" => parse_offset = rbuf
      <3>1. \A n \in cuts' : 0 < n /\ n <= rbuf'
        <4>1. \A n \in cuts : 0 < n /\ n <= rbuf'
          BY <1>1, <2>2 DEF LInv, Cuts
        <4>2. 0 < rbuf' /\ rbuf' <= rbuf'
          BY <1>1, <2>2
        <4> QED
          BY <2>2, <4>1, <4>2
      <3>2. status' = "HEADER_RECEIVING" =>
                \A n \in cuts' : n <= parse_offset' \/ n = rbuf'
        <4>1. status' = "HEADER_RECEIVING" => \A n \in cuts : n <= parse_offset
          BY <1>1, <2>2 DEF LInv, Cuts
        <4> QED
          BY <2>2, <4>1
      <3> QED
        BY <2>2, <3>1, <3>2 DEF Cuts
    <2> QED
      BY <2>1, <2>2
  <1>5. ASSUME NEW i \in 1..Len(sent), start[i] < rbuf
        PROVE  Recognised(i)' <=> Recognised(i)
    <2>1. /\ Recognised(i) <=>
                 /\ sent[i].kind = "content_length"
                 /\ \A n \in cuts : n - start[i] <= 0 \/ n - start[i] >= LOOKAHEAD
          /\ Recognised(i)' <=>
                 /\ sent[i].kind = "content_length"
                 /\ \A n \in cuts' : n - start[i] <= 0 \/ n - start[i] >= LOOKAHEAD
      BY DEF Recognised
    <2>2. rbuf \in cuts /\ rbuf - start[i] > 0
      BY <1>1, <1>2, <1>5 DEF LInv, Cuts
    <2>3. CASE cuts' = cuts
      BY <2>1, <2>3
    <2>4. CASE rbuf' > rbuf /\ cuts' = cuts \cup {rbuf'}
      <3>1. rbuf' - start[i] > rbuf - start[i]
        BY <1>1, <1>2, <1>5, <2>4
      <3>2. rbuf - start[i] >= LOOKAHEAD => rbuf' - start[i] >= LOOKAHEAD
        BY <1>1, <1>2, <1>5, <3>1
      <3>3. ~(rbuf - start[i] <= 0)
        BY <1>1, <1>2, <1>5
      <3> QED
        BY <2>1, <2>2, <2>4, <3>2, <3>3
    <2> QED
      BY <2>3, <2>4
  <1>6. Inside'
    <2> SUFFICES ASSUME status = "HEADER_RECEIVING", NEW i \in 1..Len(sent'),
                        start'[i] < parse_offset, parse_offset < End(i)'
                 PROVE  parse_status = "content_length" <=> Recognised(i)'
      BY DEF Inside
    <2>1. i \in 1..Len(sent) /\ start[i] < parse_offset
      <3>1. start'[i] \in Nat
        BY DEF IInv, TypeOK
      <3>2. ~(i > Len(sent))
        BY <1>1, <3>1
      <3>3. i \in 1..Len(sent)
        BY <1>1, <3>2
      <3> QED
        BY <3>3
    <2>2. parse_offset < End(i) /\ start[i] < rbuf
      BY <1>1, <1>2, <2>1
    <2> QED
      BY <1>5, <2>1, <2>2 DEF LInv, Inside
  <1>7. ASSUME NEW K \in 0..Len(sent), \A j \in 1..K : End(j) <= rbuf
        PROVE  Told'[K] = Told[K]
    <2>1. \A j \in 1..K : j \in 1..Len(sent)
      BY <1>1
    <2>2. \A j \in 1..K : start[j] < rbuf
      BY <1>1, <1>2, <1>7, <2>1
    <2>3. \A j \in 1..K : sent'[j] = sent[j] /\ (Recognised(j)' <=> Recognised(j))
      BY <1>5, <2>1, <2>2
    <2>4. K \in Nat /\ K <= Len(sent) /\ K <= Len(sent') /\ K \in 0..K
      BY <1>1
    <2> QED
      BY <2>3, <2>4, SameTold DEF IInv
  <1>8. LengthSoFar'
    <2> SUFFICES ASSUME status = "HEADER_RECEIVING"
                 PROVE  \E k \in 0..Len(sent') :
                            Parsed(k)' /\ content_length' = Told'[k] % WIDTH
      BY DEF LengthSoFar
    <2>1. PICK k \in 0..Len(sent) : Parsed(k) /\ content_length = Told[k] % WIDTH
      BY DEF LInv, LengthSoFar
    <2>2. k \in 0..Len(sent')
      BY <1>1
    <2>3. Parsed(k)'
      <3> SUFFICES ASSUME NEW j \in 1..Len(sent')
                   PROVE  j <= k <=> End(j)' <= parse_offset
        BY DEF Parsed
      <3>1. CASE j > Len(sent)
        <4>1. End(j)' > parse_offset /\ ~(j <= k)
          BY <1>1, <1>3, <3>1
        <4>2. End(j)' \in Nat
          <5>1. sent'[j] \in Line /\ start'[j] \in Nat
            BY DEF IInv, TypeOK
          <5>2. sent'[j].size \in Nat \ {0, 1}
            BY <5>1, LineAssumption
          <5> QED
            BY <5>1, <5>2 DEF End
        <4> QED
          BY <1>1, <4>1, <4>2
      <3>2. CASE ~(j > Len(sent))
        <4>1. j \in 1..Len(sent)
          BY <1>1, <3>2
        <4> QED
          BY <1>2, <2>1, <4>1 DEF Parsed
      <3> QED
        BY <3>1, <3>2
    <2>4. \A j \in 1..k : End(j) <= rbuf
      <3>1. \A j \in 1..k : j \in 1..Len(sent) /\ End(j) <= parse_offset
        BY <1>1, <2>1 DEF Parsed
      <3> QED
        BY <1>1, <1>2, <3>1
    <2> QED
      BY <1>7, <2>1, <2>2, <2>3, <2>4
  <1>9. LengthAsAnnounced'
    <2> SUFFICES ASSUME status # "HEADER_RECEIVING" PROVE LengthAsAnnounced'
      BY DEF LengthAsAnnounced
    <2>1. DOMAIN sent = 1..Len(sent) /\ DOMAIN sent' = 1..Len(sent')
      BY DEF IInv, TypeOK
    <2>2. PICK i \in 1..Len(sent) : /\ sent[i].kind = "end" /\ End(i) = header_len
                                    /\ content_length = Told[i] % WIDTH
      BY <2>1 DEF LInv, LengthAsAnnounced
    <2>3. \A j \in 1..i : j \in 1..Len(sent) /\ End(j) <= End(i)
      <3> SUFFICES ASSUME NEW j \in 1..i
                   PROVE  j \in 1..Len(sent) /\ End(j) <= End(i)
        OBVIOUS
      <3>1. j \in 1..Len(sent)
        BY <1>1
      <3>2. j < i => End(j) <= start[i]
        BY <3>1 DEF IInv, Layout
      <3> QED
        BY <1>1, <1>2, <3>1, <3>2
    <2>4. i \in 0..Len(sent) /\ \A j \in 1..i : End(j) <= rbuf
      BY <1>1, <1>2, <2>2, <2>3
    <2>5. Told'[i] = Told[i]
      BY <1>7, <2>4
    <2>6. i \in 1..Len(sent') /\ sent'[i] = sent[i] /\ End(i)' = End(i)
      BY <1>1, <1>2
    <2> QED
      BY <2>1, <2>2, <2>5, <2>6 DEF LengthAsAnnounced
  <1> QED
    BY <1>4, <1>6, <1>8, <1>9 DEF LInv
\* Nothing is sent, read or parsed.
LEMMA QuietStep ==
    ASSUME IInv, IInv', LInv,
           UNCHANGED <<sent, start, rbuf, cuts, parse_status, parse_offset,
                       content_length, header_len>>,
           status' = "HEADER_RECEIVING" <=> status = "HEADER_RECEIVING"
    PROVE  LInv'
  <1>1. Len(sent) \in Nat
    BY DEF IInv, TypeOK
  <1>2. /\ Len(sent) <= Len(sent')
        /\ \A i \in 1..Len(sent) : sent'[i] = sent[i] /\ start'[i] = start[i]
        /\ \A i \in 1..Len(sent') : i > Len(sent) => start'[i] >= parse_offset
    BY <1>1
  <1> QED
    BY <1>2, MoreInput

LEMMA SendLineLength ==
    ASSUME IInv, IInv', LInv, NEW l \in Line, SendLine(l)
    PROVE  LInv'
  <1>1. /\ sent' = Append(sent, l) /\ start' = Append(start, Bytes)
        /\ UNCHANGED <<insock, status, rbuf, cuts, parse_status, parse_offset,
                       content_length, header_len>>
    BY DEF SendLine, parseVars
  <1>2. /\ Len(sent) \in Nat /\ Len(sent') = Len(sent) + 1
        /\ \A i \in 1..Len(sent) : sent'[i] = sent[i] /\ start'[i] = start[i]
        /\ start'[Len(sent) + 1] = Bytes
    BY <1>1 DEF IInv, TypeOK
  <1>3. Bytes \in Nat /\ parse_offset \in Nat /\ Bytes >= parse_offset
    BY DEF IInv, TypeOK, Bytes
  <1>4. /\ Len(sent) <= Len(sent')
        /\ \A i \in 1..Len(sent') : i > Len(sent) => start'[i] >= parse_offset
    <2>1. \A i \in 1..(Len(sent) + 1) : i > Len(sent) => i = Len(sent) + 1
      BY <1>2
    <2> QED
      BY <1>2, <1>3, <2>1
  <1>5. status' = "HEADER_RECEIVING" <=> status = "HEADER_RECEIVING"
    BY <1>1
  <1> QED
    BY <1>1, <1>2, <1>4, <1>5, MoreInput

LEMMA ReadLength ==
    ASSUME IInv, IInv', LInv, NEW n \in 0..CHUNK, ReadHeader(n) \/ ReadBody(n)
    PROVE  LInv'
  <1>1. /\ Readn(n)
        /\ UNCHANGED <<parse_status, parse_offset, content_length, header_len>>
        /\ status' = "HEADER_RECEIVING" <=> status = "HEADER_RECEIVING"
        /\ status = "HEADER_RECEIVING" => parse_offset = rbuf
    <2>1. CASE ReadHeader(n)
      BY <2>1 DEF ReadHeader, parseVars, IInv, Stage
    <2>2. CASE ReadBody(n)
      BY <2>2 DEF ReadBody, TaskPush, parseVars, IInv, Stage
    <2> QED
      BY <2>1, <2>2
  <1>2. /\ n \in Nat /\ rbuf \in Nat /\ rbuf' = rbuf + n
        /\ cuts' = IF n = 0 THEN cuts ELSE cuts \cup {rbuf + n}
        /\ UNCHANGED <<sent, start>>
    BY <1>1, ReadnFacts DEF IInv, TypeOK, Readn
  <1>3. /\ Len(sent) <= Len(sent')
        /\ \A i \in 1..Len(sent) : sent'[i] = sent[i] /\ start'[i] = start[i]
        /\ \A i \in 1..Len(sent') : i > Len(sent) => start'[i] >= parse_offset
    <2>1. Len(sent) \in Nat
      BY DEF IInv, TypeOK
    <2> QED
      BY <1>2, <2>1
  <1>4. \/ rbuf' = rbuf /\ cuts' = cuts
        \/ /\ rbuf' > rbuf /\ cuts' = cuts \cup {rbuf'}
           /\ status = "HEADER_RECEIVING" => parse_offset = rbuf
    BY <1>1, <1>2
  <1> QED
    BY <1>1, <1>3, <1>4, MoreInput

\* Parse takes a line for a Content-Length if it sees enough of it when it
\* begins it, and then remembers.
LEMMA Takes ==
    ASSUME IInv, LInv, status = "HEADER_RECEIVING", NEW i \in 1..Len(sent),
           InLine(i), parse_offset < rbuf
    PROVE  TakenFor(i) = "content_length" <=> Recognised(i)
  <1>1. /\ rbuf \in Nat /\ parse_offset \in Nat /\ start[i] \in Nat /\ End(i) \in Nat
        /\ start[i] <= parse_offset /\ parse_offset < End(i)
        /\ LOOKAHEAD \in Nat /\ LOOKAHEAD > 0 /\ cuts \in SUBSET Nat
    <2>1. LOOKAHEAD \in Nat \ {0}
      BY LimitAssumption
    <2>2. start[i] \in Nat /\ End(i) \in Nat
      BY Lines DEF IInv
    <2> QED
      BY <2>1, <2>2 DEF InLine, IInv, TypeOK
  <1>2. CASE parse_offset = start[i]
    <2>1. TakenFor(i) = "content_length" <=>
              sent[i].kind = "content_length" /\ rbuf - start[i] >= LOOKAHEAD
      BY <1>1, <1>2 DEF TakenFor, Looked
    <2>2. rbuf \in cuts /\ ~(rbuf - start[i] <= 0)
      BY <1>1, <1>2 DEF LInv, Cuts
    <2>3. \A n \in cuts : n - start[i] <= 0 \/ n = rbuf
      BY <1>1, <1>2 DEF LInv, Cuts
    <2>4. rbuf - start[i] >= LOOKAHEAD <=>
              \A n \in cuts : n - start[i] <= 0 \/ n - start[i] >= LOOKAHEAD
      BY <2>2, <2>3
    <2> QED
      BY <2>1, <2>4 DEF Recognised
  <1>3. CASE parse_offset # start[i]
    <2>1. start[i] < parse_offset
      BY <1>1, <1>3
    <2> QED
      BY <1>1, <1>3, <2>1 DEF LInv, Inside, TakenFor
  <1> QED
    BY <1>2, <1>3

\* Parse goes on, and nothing else happens.
LEMMA SameLines ==
    ASSUME TypeOK, TypeOK', UNCHANGED <<sent, start, cuts>>
    PROVE  \A k \in 0..Len(sent) : Told'[k] = Told[k]
  <1>1. Len(sent) \in Nat /\ Len(sent) <= Len(sent')
    BY DEF TypeOK
  <1>2. \A j \in 1..Len(sent) :
            sent'[j] = sent[j] /\ (Recognised(j)' <=> Recognised(j))
    BY DEF Recognised
  <1>3. Len(sent) <= Len(sent)
    BY <1>1
  <1> QED
    BY <1>1, <1>2, <1>3, SameTold

\* Where a line lies between the others.
LEMMA Apart ==
    ASSUME IInv, NEW i \in 1..Len(sent), NEW j \in 1..Len(sent)
    PROVE  /\ i \in Nat /\ j \in Nat /\ start[i] \in Nat /\ start[j] \in Nat
           /\ End(i) \in Nat /\ End(j) \in Nat
           /\ start[i] < End(i) /\ start[j] < End(j)
           /\ i < j => End(i) <= start[j]
           /\ j < i => End(j) <= start[i]
           /\ i < j \/ i = j \/ j < i
  <1>1. Len(sent) \in Nat
    BY Lines DEF IInv
  <1>2. \A k \in 1..Len(sent) :
            k \in Nat /\ start[k] \in Nat /\ End(k) \in Nat /\ start[k] < End(k)
    <2> SUFFICES ASSUME NEW k \in 1..Len(sent)
                 PROVE  k \in Nat /\ start[k] \in Nat /\ End(k) \in Nat /\ start[k] < End(k)
      OBVIOUS
    <2>1. /\ start[k] \in Nat /\ sent[k].size \in Nat /\ sent[k].size > 1
          /\ End(k) \in Nat /\ End(k) = start[k] + sent[k].size
      BY Lines DEF IInv
    <2> QED
      BY <1>1, <2>1
  <1>3. (i < j => End(i) <= start[j]) /\ (j < i => End(j) <= start[i])
    BY DEF IInv, Layout
  <1> QED
    BY <1>2, <1>3
LEMMA ParsePartLength ==
    ASSUME IInv, IInv', LInv, NEW i \in DOMAIN sent, ParsePart(i)
    PROVE  LInv'
  <1>1. i \in 1..Len(sent)
    BY Lines DEF IInv
  <1>2. /\ pc = "parse" /\ InLine(i) /\ parse_offset < rbuf /\ rbuf < End(i)
        /\ parse_status' = TakenFor(i) /\ parse_offset' = rbuf
        /\ UNCHANGED <<sent, start, status, rbuf, cuts, content_length, header_len>>
    BY DEF ParsePart, clientVars
  <1>3. status = "HEADER_RECEIVING"
    BY <1>2 DEF IInv, Stage
  <1>4. rbuf \in Nat /\ parse_offset \in Nat /\ start[i] <= parse_offset
    BY <1>2 DEF IInv, TypeOK, InLine
  <1>5. Cuts'
    BY <1>2 DEF LInv, Cuts
  <1>6. \A j \in 1..Len(sent) : End(j)' = End(j) /\ (Recognised(j)' <=> Recognised(j))
    BY <1>2 DEF End, Recognised
  <1>7. Inside'
    <2> SUFFICES ASSUME NEW j \in 1..Len(sent), start[j] < rbuf, rbuf < End(j)
                 PROVE  TakenFor(i) = "content_length" <=> Recognised(j)
      BY <1>2, <1>6 DEF Inside
    <2>1. j = i
      BY <1>1, <1>2, <1>4, Apart
    <2> QED
      BY <1>1, <1>2, <1>3, <2>1, Takes
  <1>8. LengthSoFar'
    <2>1. PICK k \in 0..Len(sent) : Parsed(k) /\ content_length = Told[k] % WIDTH
      BY <1>3 DEF LInv, LengthSoFar
    <2>2. Parsed(k)'
      <3> SUFFICES ASSUME NEW j \in 1..Len(sent)
                   PROVE  End(j) <= rbuf <=> End(j) <= parse_offset
        BY <1>2, <1>6, <2>1 DEF Parsed
      <3>1. End(j) <= rbuf => End(j) <= End(i) /\ j # i
        BY <1>1, <1>2, <1>4, Apart
      <3>2. End(j) <= rbuf => End(j) <= parse_offset
        BY <1>1, <1>2, <3>1, Earlier
      <3>3. End(j) <= parse_offset => End(j) <= rbuf
        BY <1>1, <1>2, <1>4, Apart
      <3> QED
        BY <3>2, <3>3
    <2>3. Told'[k] = Told[k]
      BY <1>2, SameLines DEF IInv
    <2> QED
      BY <1>2, <2>1, <2>2, <2>3 DEF LengthSoFar
  <1>9. LengthAsAnnounced'
    BY <1>2, <1>3 DEF LengthAsAnnounced
  <1> QED
    BY <1>5, <1>7, <1>8, <1>9 DEF LInv

\* In the line that Parse is in, the lines before it have been gone over.
LEMMA ParsedBefore ==
    ASSUME IInv, NEW i \in 1..Len(sent), InLine(i),
           NEW k \in 0..Len(sent), Parsed(k)
    PROVE  k = i - 1
  <1>1. /\ Len(sent) \in Nat /\ parse_offset \in Nat
        /\ start[i] <= parse_offset /\ parse_offset < End(i)
    BY DEF IInv, TypeOK, InLine
  <1>2. ~(i <= k)
    BY <1>1, Apart DEF Parsed
  <1>3. i > 1 => i - 1 <= k
    <2> SUFFICES ASSUME i > 1 PROVE i - 1 <= k
      OBVIOUS
    <2>1. i - 1 \in 1..Len(sent) /\ i - 1 < i
      BY <1>1
    <2>2. End(i - 1) <= parse_offset
      <3>1. End(i - 1) <= start[i] /\ End(i - 1) \in Nat /\ start[i] \in Nat
        BY <2>1, Apart
      <3> QED
        BY <1>1, <3>1
    <2> QED
      BY <2>1, <2>2 DEF Parsed
  <1> QED
    BY <1>1, <1>2, <1>3

\* The remainder of a sum of which one part is a multiple.
LEMMA Multiple ==
    ASSUME NEW q \in Nat, NEW b \in Nat
    PROVE  (WIDTH * q + b) % WIDTH = b % WIDTH
  <1> DEFINE x == WIDTH * q + b
             d == x \div WIDTH
             m == x % WIDTH
             p == b \div WIDTH
             r == b % WIDTH
  <1>1. WIDTH \in Nat /\ WIDTH > 0
    BY Limits
  <1>2. x \in Nat
    <2>1. WIDTH * q \in Nat
      BY <1>1
    <2> QED
      BY <2>1
  <1>3. /\ p \in Int /\ r \in Int /\ b = WIDTH * p + r /\ 0 <= r /\ r < WIDTH
    BY <1>1
  <1> HIDE DEF x
  <1>4. /\ d \in Int /\ m \in Int /\ x = WIDTH * d + m /\ 0 <= m /\ m < WIDTH
    BY <1>1, <1>2
  <1> HIDE DEF d, m, p, r
  <1>5. WIDTH * q + b = WIDTH * d + m
    BY <1>4 DEF x
  <1>6. WIDTH * (q + p - d) = m - r
    <2>1. WIDTH * (q + p - d) = WIDTH * q + WIDTH * p - WIDTH * d
      BY <1>1, <1>3, <1>4
    <2>2. WIDTH * q \in Int /\ WIDTH * p \in Int /\ WIDTH * d \in Int
      BY <1>1, <1>3, <1>4
    <2>3. \A u, v, w \in Int : u + (v + r) = w + m => u + v - w = m - r
      BY <1>3, <1>4
    <2>4. WIDTH * q + (WIDTH * p + r) = WIDTH * d + m
      BY <1>3, <1>5
    <2>5. WIDTH * q + WIDTH * p - WIDTH * d = m - r
      BY <2>2, <2>3, <2>4, Zenon
    <2> QED
      BY <2>1, <2>5
  <1>7. q + p - d = 0
    <2> DEFINE y == q + p - d
    <2>1. y \in Int /\ WIDTH * y = m - r
      BY <1>3, <1>4, <1>6
    <2> HIDE DEF y
    <2>2. ~(y >= 1)
      <3>1. y >= 1 => WIDTH * y >= WIDTH
        BY <1>1, <2>1
      <3> QED
        BY <1>1, <1>3, <1>4, <2>1, <3>1
    <2>3. ~(y <= -1)
      <3>1. y <= -1 => WIDTH * y <= -WIDTH
        BY <1>1, <2>1
      <3> QED
        BY <1>1, <1>3, <1>4, <2>1, <3>1
    <2>4. y = 0
      BY <2>1, <2>2, <2>3
    <2> QED
      BY <2>4 DEF y
  <1>8. m = r
    <2>1. WIDTH * 0 = 0
      BY <1>1
    <2> QED
      BY <1>3, <1>4, <1>6, <1>7, <2>1
  <1> QED
    BY <1>8 DEF m, r, x

\* It does not matter whether the number wraps at each line or once.
LEMMA Digits ==
    ASSUME NEW a \in Nat, NEW s \in Nat, NEW v \in Nat
    PROVE  ((a % WIDTH) * s + v) % WIDTH = (a * s + v) % WIDTH
  <1> DEFINE p == a \div WIDTH
             r == a % WIDTH
  <1>1. WIDTH \in Nat /\ WIDTH > 0
    BY Limits
  <1>2. p \in Nat /\ r \in Nat /\ a = WIDTH * p + r
    BY <1>1
  <1> HIDE DEF p, r
  <1>3. p * s \in Nat /\ r * s + v \in Nat
    BY <1>2, Sums
  <1>4. a * s + v = WIDTH * (p * s) + (r * s + v)
    <2>1. a * s = WIDTH * (p * s) + r * s
      BY <1>1, <1>2
    <2>2. WIDTH * (p * s) \in Nat /\ r * s \in Nat
      BY <1>1, <1>2, <1>3
    <2> QED
      BY <2>1, <2>2
  <1>5. (WIDTH * (p * s) + (r * s + v)) % WIDTH = (r * s + v) % WIDTH
    BY <1>3, Multiple
  <1> QED
    BY <1>4, <1>5 DEF r
LEMMA ParseLineLength ==
    ASSUME IInv, IInv', LInv, NEW i \in DOMAIN sent, ParseLine(i)
    PROVE  LInv'
  <1>1. i \in 1..Len(sent) /\ Len(sent) \in Nat
    BY Lines DEF IInv
  <1>2. /\ pc = "parse" /\ InLine(i) /\ End(i) <= rbuf
        /\ parse_status' = TakenFor(i) /\ parse_offset' = End(i)
        /\ IF TakenFor(i) = "content_length"
           THEN content_length' =
                    (content_length * sent[i].scale + sent[i].value) % WIDTH
           ELSE content_length' = content_length
        /\ UNCHANGED <<sent, start, status, rbuf, cuts, header_len>>
    BY DEF ParseLine, AddLength, clientVars
  <1>3. status = "HEADER_RECEIVING"
    BY <1>2 DEF IInv, Stage
  <1>4. /\ rbuf \in Nat /\ parse_offset \in Nat /\ End(i) \in Nat
        /\ start[i] <= parse_offset /\ parse_offset < End(i) /\ parse_offset < rbuf
    <2>1. End(i) \in Nat
      BY <1>1, Lines DEF IInv
    <2> QED
      BY <1>2, <2>1 DEF IInv, TypeOK, InLine
  <1>5. Cuts'
    <2>1. \A n \in cuts : n \in Nat /\ (n <= parse_offset => n <= End(i))
      BY <1>4 DEF IInv, TypeOK
    <2> QED
      BY <1>2, <1>3, <2>1 DEF LInv, Cuts
  <1>6. \A j \in 1..Len(sent) : End(j)' = End(j) /\ (Recognised(j)' <=> Recognised(j))
    BY <1>2 DEF End, Recognised
  <1>7. Inside'
    <2> SUFFICES ASSUME NEW j \in 1..Len(sent), start[j] < End(i), End(i) < End(j)
                 PROVE  FALSE
      BY <1>2, <1>6 DEF Inside
    <2> QED
      BY <1>1, Apart
  <1>8. LengthSoFar'
    <2>1. PICK k \in 0..Len(sent) : Parsed(k) /\ content_length = Told[k] % WIDTH
      BY <1>3 DEF LInv, LengthSoFar
    <2>2. k = i - 1
      BY <1>1, <1>2, <2>1, ParsedBefore
    <2>3. Parsed(i)'
      <3> SUFFICES ASSUME NEW j \in 1..Len(sent) PROVE j <= i <=> End(j) <= End(i)
        BY <1>2, <1>6 DEF Parsed
      <3> QED
        BY <1>1, Apart
    <2>4. /\ Told[i] = IF Recognised(i)
                       THEN Told[k] * sent[i].scale + sent[i].value
                       ELSE Told[k]
          /\ Told[k] \in Nat
      BY <1>1, <2>1, <2>2, ToldByLine DEF IInv, LineByLine
    <2>5. sent[i].scale \in Nat /\ sent[i].value \in Nat
      BY <1>1, Lines DEF IInv
    <2>6. TakenFor(i) = "content_length" <=> Recognised(i)
      BY <1>1, <1>2, <1>3, <1>4, Takes
    <2>7. content_length' = Told[i] % WIDTH
      <3>1. CASE Recognised(i)
        <4>1. content_length' =
                  ((Told[k] % WIDTH) * sent[i].scale + sent[i].value) % WIDTH
          BY <1>2, <2>1, <2>6, <3>1
        <4> QED
          BY <2>4, <2>5, <3>1, <4>1, Digits
      <3>2. CASE ~Recognised(i)
        BY <1>2, <2>1, <2>4, <2>6, <3>2
      <3> QED
        BY <3>1, <3>2
    <2>8. i \in 0..Len(sent) /\ Told'[i] = Told[i]
      <3>1. i \in 0..Len(sent)
        BY <1>1
      <3> QED
        BY <1>2, <3>1, SameLines DEF IInv
    <2> QED
      BY <1>2, <2>3, <2>7, <2>8 DEF LengthSoFar
  <1>9. LengthAsAnnounced'
    BY <1>2, <1>3 DEF LengthAsAnnounced
  <1> QED
    BY <1>5, <1>7, <1>8, <1>9 DEF LInv

LEMMA ParseEndLength ==
    ASSUME IInv, IInv', LInv, NEW i \in DOMAIN sent, ParseEnd(i)
    PROVE  LInv'
  <1>1. i \in 1..Len(sent) /\ Len(sent) \in Nat /\ DOMAIN sent = 1..Len(sent)
    BY Lines DEF IInv
  <1>2. /\ pc = "parse" /\ InLine(i) /\ sent[i].kind = "end"
        /\ header_len' = End(i) /\ status' = "BODY_RECEIVING"
        /\ UNCHANGED <<sent, start, rbuf, cuts, content_length>>
    BY DEF ParseEnd, clientVars
  <1>3. status = "HEADER_RECEIVING"
    BY <1>2 DEF IInv, Stage
  <1>4. Cuts' /\ Inside' /\ LengthSoFar'
    BY <1>2 DEF LInv, Cuts, Inside, LengthSoFar
  <1>5. LengthAsAnnounced'
    <2>1. PICK k \in 0..Len(sent) : Parsed(k) /\ content_length = Told[k] % WIDTH
      BY <1>3 DEF LInv, LengthSoFar
    <2>2. k = i - 1
      BY <1>1, <1>2, <2>1, ParsedBefore
    <2>3. ~Recognised(i)
      BY <1>2 DEF Recognised
    <2>4. Told[i] = Told[k]
      BY <1>1, <2>2, <2>3, ToldByLine DEF IInv, LineByLine
    <2>5. Told'[i] = Told[i]
      <3>1. i \in 0..Len(sent)
        BY <1>1
      <3> QED
        BY <1>2, <3>1, SameLines DEF IInv
    <2>6. End(i)' = End(i)
      BY <1>2 DEF End
    <2> QED
      BY <1>1, <1>2, <2>1, <2>4, <2>5, <2>6 DEF LengthAsAnnounced
  <1> QED
    BY <1>4, <1>5 DEF LInv

LEMMA NextLInv ==
    ASSUME IInv, IInv', LInv, [Next]_vars
    PROVE  LInv'
  <1>1. CASE \E l \in Line : SendLine(l)
    BY <1>1, SendLineLength
  <1>2. CASE \E n \in 0..CHUNK : ReadHeader(n) \/ ReadBody(n)
    BY <1>2, ReadLength
  <1>3. CASE \E i \in DOMAIN sent : ParsePart(i) \/ ParseLine(i) \/ ParseEnd(i)
    BY <1>3, ParsePartLength, ParseLineLength, ParseEndLength
  <1>4. CASE \/ \E n \in 1..flight : Arrive(n)
             \/ Leave \/ OnRead \/ ReadnFails \/ ParseNothing \/ BodyTooLong
             \/ \E i \in DOMAIN sent : ParseError(i)
             \/ UNCHANGED vars
    <2>1. UNCHANGED <<sent, start, rbuf, cuts, parse_status, parse_offset,
                      content_length, header_len, status>>
      BY <1>4 DEF Arrive, Leave, OnRead, ReadnFails, ParseNothing, BodyTooLong,
                  ParseError, vars, clientVars, parseVars
    <2> QED
      BY <2>1, QuietStep
  <1>5. CASE CheckBody
    <2>1. /\ UNCHANGED <<sent, start, rbuf, cuts, parse_status, parse_offset,
                         content_length, header_len>>
          /\ pc = "check" /\ (status' = status \/ status' = "BODY_RECEIVED")
      BY <1>5 DEF CheckBody, TaskPush, clientVars, parseVars
    <2>2. status' = "HEADER_RECEIVING" <=> status = "HEADER_RECEIVING"
      BY <2>1 DEF IInv, Stage
    <2> QED
      BY <2>1, <2>2, QuietStep
  <1> QED
    BY <1>1, <1>2, <1>3, <1>4, <1>5 DEF Next, ServerNext, ClientNext

\* The length of the body is what the header says, for headers of every length
\* and whatever the reads cut them into (Request::Parse, content_length_).
THEOREM LengthsAsAnnounced == Spec => []LengthAsAnnounced
  <1>1. LInv => LengthAsAnnounced
    BY DEF LInv
  <1>2. Init => LInv
    BY InitLInv
  <1>3. IInv /\ IInv' /\ LInv /\ [Next]_vars => LInv'
    BY NextLInv
  <1> QED
    BY <1>1, <1>2, <1>3, RequestInvariant, PTL DEF Spec
=============================================================================
