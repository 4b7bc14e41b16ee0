--------------------------- MODULE WebSocketProofs ---------------------------
(***************************************************************************)
(* Proofs about WebSocket.  IInv adds to the properties where the frames   *)
(* lie in the stream (Layout), that Parse has taken a whole number n of    *)
(* them and cache_str_ is what was collected of these (Frontier), and what *)
(* is known of the socket inside ReadData (Reading): a read that was not   *)
(* full emptied it, and whatever arrived later left an edge.               *)
(***************************************************************************)
EXTENDS WebSocket, TLAPS

Layout ==
    /\ \A i \in 1..Len(sent) : start[i] + Size(sent[i]) <= Bytes
    /\ \A i, j \in 1..Len(sent) : i < j => start[i] + Size(sent[i]) <= start[j]
    /\ \A i \in 1..Len(sent) :
           start[i] + Size(sent[i]) =
               IF i = Len(sent) THEN Bytes ELSE start[i + 1]
    /\ IF sent = <<>> THEN Bytes = 0 ELSE start[1] = 0

\* n frames have been taken.
Taken(n) == erased = IF n = Len(sent) THEN Bytes ELSE start[n + 1]

\* text is what is collected when n frames have been taken.
Collected(text, n) ==
    \E lo \in 1..(n + 1) :
        /\ text = [i \in 1..(n + 1 - lo) |-> lo + i - 1]
        /\ lo = 1 \/ Ends(sent[lo - 1])
        /\ \A i \in lo..n : ~Ends(sent[i])

Frontier == \E n \in 0..Len(sent) : Taken(n) /\ Collected(cache, n)

Reading ==
    /\ pc = "idle" \/ (pc = "parse" /\ ~full) => (insock > 0 \/ gone => edge)
    /\ pc \in {"idle", "read"} => ~HasFrame

IInv == TypeOK /\ Layout /\ Frontier /\ Reading /\ Reassembly /\ CacheIsBounded

-----------------------------------------------------------------------------

LEMMA SizeIsPositive == \A f \in Frame : Size(f) \in Nat /\ Size(f) >= 2
  BY FrameAssumption DEF Size

LEMMA InitIInv == Init => IInv
  <1> SUFFICES ASSUME Init PROVE IInv
    OBVIOUS
  <1>1. TypeOK
    <2>1. <<>> \in Seq(Frame) /\ <<>> \in Seq(Nat) /\ <<>> \in Text
      BY DEF Text
    <2>2. <<>> \in Seq([opcode : Opcode, msg : Text])
      OBVIOUS
    <2> QED
      BY <2>1, <2>2 DEF Init, TypeOK
  <1>2. Layout
    BY DEF Init, Layout, Bytes
  <1>3. Frontier
    <2>1. Taken(0)
      BY DEF Init, Taken, Bytes
    <2>2. Collected(cache, 0)
      BY DEF Init, Collected
    <2> QED
      BY <2>1, <2>2 DEF Init, Frontier
  <1>4. Reading
    BY DEF Init, Reading, HasFrame
  <1>5. Reassembly
    BY DEF Init, Reassembly, Bytes
  <1>6. CacheIsBounded
    BY SizeAssumption DEF Init, CacheIsBounded
  <1> QED
    BY <1>1, <1>2, <1>3, <1>4, <1>5, <1>6 DEF IInv

\* A frame is whole at the front of rbuf_ exactly when it is the next one.
LEMMA NextFrame ==
    ASSUME TypeOK, Layout, NEW i \in DOMAIN sent, Whole(i)
    PROVE  /\ i \in 1..Len(sent) /\ sent[i] \in Frame /\ start[i] \in Nat
           /\ Taken(i - 1)
           /\ \A n \in 0..Len(sent) : Taken(n) => n = i - 1
  <1> DEFINE L == Len(sent)
  <1>1. i \in 1..L /\ L \in Nat /\ sent[i] \in Frame /\ start[i] \in Nat
    BY DEF TypeOK
  <1>2. start[i] = erased /\ rbuf >= Size(sent[i])
    BY DEF Whole
  <1>3. \A j \in 1..L : start[j] \in Nat /\ Size(sent[j]) \in Nat /\ Size(sent[j]) >= 2
    BY SizeIsPositive DEF TypeOK
  <1>4. Taken(i - 1)
    BY <1>1, <1>2 DEF Taken
  <1>5. ASSUME NEW n \in 0..L, Taken(n)
        PROVE  n = i - 1
    <2>1. CASE n = L
      <3>1. erased = Bytes
        BY <2>1, <1>5 DEF Taken
      <3>2. start[i] + Size(sent[i]) <= Bytes
        BY <1>1 DEF Layout
      <3> QED
        BY <3>1, <3>2, <1>1, <1>2, <1>3
    <2>2. CASE n # L
      <3>1. n + 1 \in 1..L /\ start[n + 1] = start[i]
        BY <2>2, <1>1, <1>2, <1>5 DEF Taken
      <3>2. \A j, k \in 1..L : j < k => start[j] + Size(sent[j]) <= start[k]
        BY DEF Layout
      <3>3. ~(n + 1 < i) /\ ~(i < n + 1)
        BY <3>1, <3>2, <1>1, <1>3
      <3> QED
        BY <3>1, <3>3, <1>1
    <2> QED
      BY <2>1, <2>2
  <1> QED
    BY <1>1, <1>4, <1>5

-----------------------------------------------------------------------------
(* The steps that leave the frames and the texts alone.                    *)

LEMMA BytesMove ==
    ASSUME IInv, Bytes' = Bytes,
           UNCHANGED <<sent, start, erased, cache, cache_len, queue>>
    PROVE  Layout' /\ Frontier' /\ Reassembly' /\ CacheIsBounded'
  <1>1. Layout'
    BY DEF IInv, Layout
  <1>2. Frontier'
    BY DEF IInv, Frontier, Taken, Collected
  <1>3. Reassembly'
    BY DEF IInv, Reassembly, Gathered, Parsed, Queues, Ends, IsData
  <1>4. CacheIsBounded'
    BY DEF IInv, CacheIsBounded
  <1> QED
    BY <1>1, <1>2, <1>3, <1>4

LEMMA ArriveStep ==
    ASSUME IInv, NEW n \in 1..flight, Arrive(n)
    PROVE  IInv'
  <1>1. TypeOK'
    BY DEF IInv, TypeOK, Arrive, parseVars
  <1>2. Bytes' = Bytes
    BY DEF IInv, TypeOK, Arrive, Bytes, parseVars
  <1>3. Reading'
    BY DEF IInv, Reading, Arrive, HasFrame, Whole, parseVars
  <1>4. UNCHANGED <<sent, start, erased, cache, cache_len, queue>>
    BY DEF Arrive, parseVars
  <1> QED
    BY <1>1, <1>2, <1>3, <1>4, BytesMove DEF IInv

LEMMA LeaveStep ==
    ASSUME IInv, Leave
    PROVE  IInv'
  <1>1. TypeOK'
    BY DEF IInv, TypeOK, Leave, parseVars
  <1>2. Bytes' = Bytes
    BY DEF Leave, Bytes, parseVars
  <1>3. Reading'
    BY DEF IInv, Reading, Leave, HasFrame, Whole, parseVars
  <1>4. UNCHANGED <<sent, start, erased, cache, cache_len, queue>>
    BY DEF Leave, parseVars
  <1> QED
    BY <1>1, <1>2, <1>3, <1>4, BytesMove DEF IInv

LEMMA OnReadStep ==
    ASSUME IInv, OnRead
    PROVE  IInv'
  <1>1. TypeOK'
    BY DEF IInv, TypeOK, OnRead, parseVars, netVars
  <1>2. Bytes' = Bytes
    BY DEF OnRead, Bytes, parseVars, netVars
  <1>3. Reading'
    BY DEF IInv, Reading, OnRead, HasFrame, Whole, parseVars, netVars
  <1>4. UNCHANGED <<sent, start, erased, cache, cache_len, queue>>
    BY DEF OnRead, parseVars, netVars
  <1> QED
    BY <1>1, <1>2, <1>3, <1>4, BytesMove DEF IInv

LEMMA ParseNothingStep ==
    ASSUME IInv, ParseNothing
    PROVE  IInv'
  <1>1. TypeOK'
    BY DEF IInv, TypeOK, ParseNothing, ReadOn, parseVars, netVars
  <1>2. Bytes' = Bytes
    BY DEF ParseNothing, Bytes, parseVars, netVars
  <1>3. Reading'
    BY DEF IInv, Reading, ParseNothing, ReadOn, HasFrame, Whole, parseVars, netVars
  <1>4. UNCHANGED <<sent, start, erased, cache, cache_len, queue>>
    BY DEF ParseNothing, parseVars, netVars
  <1> QED
    BY <1>1, <1>2, <1>3, <1>4, BytesMove DEF IInv

LEMMA ParseTooLargeStep ==
    ASSUME IInv, NEW i \in DOMAIN sent, ParseTooLarge(i)
    PROVE  IInv'
  <1>1. TypeOK'
    BY DEF IInv, TypeOK, ParseTooLarge, parseVars, netVars
  <1>2. Bytes' = Bytes
    BY DEF ParseTooLarge, Bytes, parseVars, netVars
  <1>3. Reading'
    BY DEF Reading, ParseTooLarge
  <1>4. UNCHANGED <<sent, start, erased, cache, cache_len, queue>>
    BY DEF ParseTooLarge, parseVars, netVars
  <1> QED
    BY <1>1, <1>2, <1>3, <1>4, BytesMove DEF IInv

LEMMA ReadnFailsStep ==
    ASSUME IInv, ReadnFails
    PROVE  IInv'
  <1>1. TypeOK'
    BY DEF IInv, TypeOK, ReadnFails, parseVars, netVars
  <1>2. Bytes' = Bytes
    BY DEF ReadnFails, Bytes, parseVars, netVars
  <1>3. Reading'
    BY DEF Reading, ReadnFails
  <1>4. UNCHANGED <<sent, start, erased, cache, cache_len, queue>>
    BY DEF ReadnFails, parseVars, netVars
  <1> QED
    BY <1>1, <1>2, <1>3, <1>4, BytesMove DEF IInv

\* The bytes go from the socket to rbuf_.  Only a read that finds nothing ends
\* ReadData here, and then rbuf_ is what it was.
LEMMA ReadnStep ==
    ASSUME IInv, Readn
    PROVE  IInv'
  <1> DEFINE n == IF insock < CHUNK THEN insock ELSE CHUNK
  <1>1. /\ n \in Nat /\ insock - n \in Nat
        /\ n # CHUNK => insock - n = 0 /\ ~gone
    BY SizeAssumption DEF IInv, TypeOK, Readn
  <1>2. /\ insock' = insock - n /\ rbuf' = rbuf + n /\ full' = (n = CHUNK)
        /\ pc' = IF n = 0 THEN "idle" ELSE "parse"
        /\ pc = "read" /\ (insock < CHUNK => ~gone)
        /\ UNCHANGED <<sent, start, flight, gone, edge, erased, cache, cache_len, queue>>
    BY DEF Readn, netVars
  <1> HIDE DEF n
  <1>3. TypeOK'
    BY <1>1, <1>2 DEF IInv, TypeOK
  <1>4. Bytes' = Bytes
    BY <1>1, <1>2 DEF IInv, TypeOK, Bytes
  <1>5. Reading'
    <2>1. CASE n = 0
      <3>1. rbuf' = rbuf /\ ~HasFrame' /\ n # CHUNK
        BY <2>1, <1>2, SizeAssumption DEF IInv, TypeOK, Reading, HasFrame, Whole
      <3> QED
        BY <3>1, <2>1, <1>1, <1>2 DEF Reading
    <2>2. CASE n # 0
      <3>1. pc' = "parse"
        BY <2>2, <1>2
      <3>2. CASE n = CHUNK
        <4>1. full' = TRUE
          BY <3>2, <1>2
        <4> QED
          BY <4>1, <3>1 DEF Reading
      <3>3. CASE n # CHUNK
        <4>1. ~(insock' > 0) /\ ~gone'
          BY <3>3, <1>1, <1>2
        <4> QED
          BY <4>1, <3>1 DEF Reading
      <3> QED
        BY <3>2, <3>3
    <2> QED
      BY <2>1, <2>2
  <1> QED
    BY <1>2, <1>3, <1>4, <1>5, BytesMove DEF IInv

LEMMA StutterStep ==
    ASSUME IInv, UNCHANGED vars
    PROVE  IInv'
  <1>1. TypeOK'
    BY DEF IInv, TypeOK, vars
  <1>2. Bytes' = Bytes
    BY DEF Bytes, vars
  <1>3. Reading'
    BY DEF IInv, Reading, HasFrame, Whole, vars
  <1> QED
    BY <1>1, <1>2, <1>3, BytesMove DEF IInv, vars

-----------------------------------------------------------------------------
(* A frame more is sent.                                                   *)

LEMMA SendFrameStep ==
    ASSUME IInv, NEW f \in Frame, SendFrame(f)
    PROVE  IInv'
  <1> DEFINE L == Len(sent)
  <1>1. /\ sent' = Append(sent, f) /\ start' = Append(start, Bytes)
        /\ flight' = flight + Size(f)
        /\ UNCHANGED <<insock, gone, edge, pc, full, rbuf, erased, cache, cache_len, queue>>
    BY DEF SendFrame, parseVars
  <1>2. /\ L \in Nat /\ Len(start) = L /\ Bytes \in Nat
        /\ Size(f) \in Nat /\ Size(f) >= 2
    BY SizeIsPositive DEF IInv, TypeOK, Bytes
  <1>3. /\ Len(sent') = L + 1 /\ Len(start') = L + 1
        /\ sent'[L + 1] = f /\ start'[L + 1] = Bytes
        /\ \A i \in 1..L : sent'[i] = sent[i] /\ start'[i] = start[i]
    BY <1>1, <1>2 DEF IInv, TypeOK
  <1>4. Bytes' = Bytes + Size(f)
    BY <1>1, <1>2 DEF IInv, TypeOK, Bytes
  <1>5. TypeOK'
    BY <1>1, <1>2, <1>3 DEF IInv, TypeOK
  <1>6. \A i \in 1..L : start[i] \in Nat /\ Size(sent[i]) \in Nat
    BY SizeIsPositive DEF IInv, TypeOK
  <1>7. \A i \in 1..L : Size(sent'[i]) = Size(sent[i])
    BY <1>3
  <1>8. Layout'
    <2>1. \A i \in 1..L : start[i] + Size(sent[i]) <= Bytes
      BY DEF IInv, Layout
    <2> HIDE DEF L
    <2>2. ASSUME NEW i \in 1..(L + 1)
          PROVE  start'[i] + Size(sent'[i]) <= Bytes'
      <3>1. CASE i = L + 1
        BY <3>1, <1>2, <1>3, <1>4
      <3>2. CASE i \in 1..L
        BY <3>2, <2>1, <1>2, <1>3, <1>4, <1>6, <1>7
      <3> QED
        BY <3>1, <3>2, <1>2
    <2>3. \A i, j \in 1..L : i < j => start[i] + Size(sent[i]) <= start[j]
      BY DEF IInv, Layout, L
    <2>4. ASSUME NEW i \in 1..(L + 1), NEW j \in 1..(L + 1), i < j
          PROVE  start'[i] + Size(sent'[i]) <= start'[j]
      <3>1. i \in 1..L /\ start'[i] + Size(sent'[i]) = start[i] + Size(sent[i])
        BY <2>4, <1>2, <1>3, <1>7
      <3>2. CASE j = L + 1
        BY <3>1, <3>2, <2>1, <1>3
      <3>3. CASE j \in 1..L
        BY <3>1, <3>3, <2>3, <2>4, <1>3
      <3> QED
        BY <3>2, <3>3, <1>2
    <2>5. \A i \in 1..L : start[i] + Size(sent[i]) =
                              IF i = L THEN Bytes ELSE start[i + 1]
      BY DEF IInv, Layout, L
    <2>6. ASSUME NEW i \in 1..(L + 1)
          PROVE  start'[i] + Size(sent'[i]) =
                     IF i = L + 1 THEN Bytes' ELSE start'[i + 1]
      <3>1. CASE i = L + 1
        BY <3>1, <1>3, <1>4
      <3>2. CASE i = L /\ i \in 1..L
        BY <3>2, <2>5, <1>2, <1>3, <1>7
      <3>3. CASE i # L /\ i \in 1..L
        <4>1. i + 1 \in 1..L /\ i # L + 1
          BY <3>3, <1>2
        <4> QED
          BY <4>1, <3>3, <2>5, <1>3, <1>7
      <3> QED
        BY <3>1, <3>2, <3>3, <1>2
    <2>7. IF sent' = <<>> THEN Bytes' = 0 ELSE start'[1] = 0
      <3>1. CASE sent = <<>>
        BY <3>1, <1>2, <1>3 DEF IInv, Layout, L
      <3>2. CASE sent # <<>>
        <4>1. 1 \in 1..L
          BY <3>2, <1>2 DEF IInv, TypeOK, L
        <4>2. sent' # <<>> /\ start'[1] = start[1]
          BY <4>1, <1>2, <1>3
        <4>3. start[1] = 0
          BY <3>2 DEF IInv, Layout
        <4> QED
          BY <4>2, <4>3
      <3> QED
        BY <3>1, <3>2
    <2> QED
      BY <2>2, <2>4, <2>6, <2>7, <1>3 DEF Layout, L
  <1>9. Frontier'
    <2>1. PICK n \in 0..L : Taken(n) /\ Collected(cache, n)
      BY DEF IInv, Frontier
    <2>2. Taken(n)'
      BY <2>1, <1>1, <1>2, <1>3 DEF Taken
    <2>3. \A i \in 1..n : Ends(sent'[i]) <=> Ends(sent[i])
      BY <1>3, <1>2
    <2>4. PICK lo \in 1..(n + 1) :
              /\ cache = [i \in 1..(n + 1 - lo) |-> lo + i - 1]
              /\ lo = 1 \/ Ends(sent[lo - 1])
              /\ \A i \in lo..n : ~Ends(sent[i])
      BY <2>1 DEF Collected
    <2>5. lo # 1 => lo - 1 \in 1..n
      BY <1>2
    <2>6. lo = 1 \/ Ends(sent'[lo - 1])
      BY <2>3, <2>4, <2>5
    <2>7. \A i \in lo..n : ~Ends(sent'[i])
      BY <2>3, <2>4
    <2>8. Collected(cache, n)'
      BY <2>4, <2>6, <2>7, <1>1 DEF Collected
    <2> QED
      BY <2>2, <2>8, <1>2, <1>3 DEF Frontier
  <1>10. Reading'
    <2>1. \A i \in DOMAIN sent' : Whole(i)' => i \in DOMAIN sent /\ Whole(i)
      <3> SUFFICES ASSUME NEW i \in DOMAIN sent', Whole(i)'
                   PROVE  i \in DOMAIN sent /\ Whole(i)
        OBVIOUS
      <3>1. i \in 1..(L + 1)
        BY <1>3, <1>5 DEF TypeOK
      <3>2. i # L + 1
        BY <1>1, <1>2, <1>3 DEF Whole, Bytes, IInv, TypeOK
      <3>3. i \in 1..L
        BY <3>1, <3>2, <1>2
      <3> QED
        BY <3>3, <1>1, <1>3, <1>7 DEF Whole, IInv, TypeOK
    <2>2. HasFrame' => HasFrame
      BY <2>1 DEF HasFrame
    <2> QED
      BY <2>2, <1>1 DEF IInv, Reading
  <1>11. Reassembly'
    <2>1. \A i \in 1..L : /\ Parsed(i)' <=> Parsed(i)
                          /\ Ends(sent'[i]) <=> Ends(sent[i])
                          /\ Queues(sent'[i]) <=> Queues(sent[i])
      BY <1>1, <1>3 DEF Parsed
    <2>2. \A i \in DOMAIN sent' : Parsed(i)' => i \in 1..L
      <3>1. ~(start'[L + 1] < erased')
        BY <1>1, <1>3 DEF Bytes, IInv, TypeOK
      <3>2. DOMAIN sent' = 1..(L + 1)
        BY <1>3, <1>5 DEF TypeOK
      <3> QED
        BY <3>1, <3>2, <1>2 DEF Parsed
    <2>3. DOMAIN sent = 1..L /\ DOMAIN sent' = 1..(L + 1)
      BY <1>3, <1>5 DEF IInv, TypeOK
    <2>4. erased = Bytes' \/ \E i \in DOMAIN sent' : start'[i] = erased
      BY <2>3, <1>2, <1>3 DEF IInv, Reassembly
    <2>5. \A q \in DOMAIN queue :
              \E hi \in DOMAIN sent' :
                  /\ Parsed(hi)' /\ Queues(sent'[hi])
                  /\ \E lo \in 1..hi : Gathered(queue[q].msg, lo, hi)'
      <3> SUFFICES ASSUME NEW q \in DOMAIN queue
                   PROVE  \E hi \in DOMAIN sent' :
                              /\ Parsed(hi)' /\ Queues(sent'[hi])
                              /\ \E lo \in 1..hi : Gathered(queue[q].msg, lo, hi)'
        OBVIOUS
      <3>1. PICK hi \in 1..L : /\ Parsed(hi) /\ Queues(sent[hi])
                               /\ \E lo \in 1..hi : Gathered(queue[q].msg, lo, hi)
        BY <2>3 DEF IInv, Reassembly
      <3>2. PICK lo \in 1..hi : Gathered(queue[q].msg, lo, hi)
        BY <3>1
      <3>3. lo # 1 => lo - 1 \in 1..L
        BY <1>2
      <3>4. \A i \in lo..(hi - 1) : i \in 1..L
        BY <1>2
      <3>5. Gathered(queue[q].msg, lo, hi)'
        BY <3>2, <3>3, <3>4, <2>1, <1>1 DEF Gathered
      <3> QED
        BY <3>1, <3>5, <2>1, <2>3, <1>2
    <2>6. \A i \in DOMAIN sent' :
              Parsed(i)' /\ Queues(sent'[i])
              => \E q \in DOMAIN queue : Last(queue[q].msg) = i
      <3>1. \A i \in 1..L :
                Parsed(i) /\ Queues(sent[i])
                => \E q \in DOMAIN queue : Last(queue[q].msg) = i
        BY <2>3 DEF IInv, Reassembly
      <3> QED
        BY <3>1, <2>1, <2>2
    <2>7. \A q, r \in DOMAIN queue : q < r => Last(queue[q].msg) < Last(queue[r].msg)
      BY DEF IInv, Reassembly
    <2> QED
      BY <2>4, <2>5, <2>6, <2>7, <1>1 DEF Reassembly
  <1>12. CacheIsBounded'
    BY <1>1 DEF IInv, CacheIsBounded
  <1> QED
    BY <1>5, <1>8, <1>9, <1>10, <1>11, <1>12 DEF IInv

-----------------------------------------------------------------------------
(* A frame is taken off rbuf_.                                             *)

LEMMA RunGrows ==
    ASSUME NEW lo \in Nat \ {0}, NEW hi \in Nat, lo <= hi,
           NEW text, text = [k \in 1..(hi - lo) |-> lo + k - 1]
    PROVE  /\ Append(text, hi) = [k \in 1..(hi - lo + 1) |-> lo + k - 1]
           /\ Append(text, hi) \in Text
  <1>1. text \in Seq(Nat \ {0}) /\ Len(text) = hi - lo
    BY DEF Text
  <1>2. Append(text, hi) \in Seq(Nat \ {0}) /\ Len(Append(text, hi)) = hi - lo + 1
    BY <1>1
  <1>3. \A k \in 1..(hi - lo + 1) : Append(text, hi)[k] = lo + k - 1
    BY <1>1
  <1> QED
    BY <1>2, <1>3 DEF Text

LEMMA RunEnds ==
    ASSUME NEW lo \in Nat \ {0}, NEW hi \in Nat, lo <= hi,
           NEW text, text = [k \in 1..(hi - lo + 1) |-> lo + k - 1]
    PROVE  Last(text) = hi
  <1>1. text \in Seq(Nat) /\ Len(text) = hi - lo + 1
    OBVIOUS
  <1>2. Len(text) \in 1..(hi - lo + 1)
    BY <1>1
  <1> QED
    BY <1>1, <1>2 DEF Last

\* The four cases of Parse come to two questions: is something queued, and is
\* cache_str_ emptied.
LEMMA ParseCases ==
    ASSUME IInv, NEW i \in DOMAIN sent, ParseFrame(i)
    PROVE  /\ \/ Ends(sent[i]) /\ cache' = <<>>
              \/ ~Ends(sent[i]) /\ cache' = Append(cache, i)
           /\ \/ /\ Queues(sent[i])
                 /\ \E op \in Opcode :
                        queue' = Append(queue, [opcode |-> op, msg |-> Append(cache, i)])
              \/ ~Queues(sent[i]) /\ UNCHANGED queue
           /\ cache_len' \in Nat /\ cache_len' <= MaxBuffer
  <1> DEFINE f == sent[i]
             text == Append(cache, i)
  <1>1. /\ f \in Frame /\ f.opcode \in Opcode /\ f.fin \in BOOLEAN /\ f.len \in Nat
        /\ cache_len \in Nat /\ Fits(f)
    BY FrameAssumption DEF IInv, TypeOK, ParseFrame
  <1>2. \/ ParseData(f, text, cache_len + f.len)
        \/ ParsePing(f, text)
        \/ ParseOther(f, text, cache_len + f.len)
    BY DEF ParseFrame
  <1> DEFINE Pushed == \E op \in Opcode :
                           queue' = Append(queue, [opcode |-> op, msg |-> text])
             Empty == cache' = <<>> /\ cache_len' = 0
             Filled == cache' = text /\ cache_len' = cache_len + f.len
  <1>3. 0 \in Nat /\ 0 <= MaxBuffer
    BY SizeAssumption
  <1>4. cache_len + f.len \in Nat /\ cache_len + f.len <= MaxBuffer
    BY <1>1 DEF Fits
  <1> HIDE DEF f, text
  <1>5. CASE ParseData(f, text, cache_len + f.len) /\ f.fin
    <2>1. Pushed /\ Empty
      BY <1>1, <1>5 DEF ParseData, Push, ClearCache
    <2>2. Ends(f) /\ Queues(f)
      BY <1>5 DEF ParseData, Ends, Queues
    <2> QED
      BY <2>1, <2>2, <1>3 DEF f, text
  <1>6. CASE ParseData(f, text, cache_len + f.len) /\ ~f.fin
    <2>1. Filled /\ UNCHANGED queue
      BY <1>6 DEF ParseData, Collect
    <2>2. ~Ends(f) /\ ~Queues(f)
      BY <1>6 DEF ParseData, IsData, Ends, Queues
    <2> QED
      BY <2>1, <2>2, <1>4 DEF f, text
  <1>7. CASE ParsePing(f, text)
    <2>1. "PING" \in Opcode
      BY DEF Opcode
    <2>2. Pushed /\ Empty
      BY <2>1, <1>7 DEF ParsePing, Push, ClearCache
    <2>3. Ends(f) /\ Queues(f)
      BY <1>7 DEF ParsePing, Ends, Queues, IsData
    <2> QED
      BY <2>2, <2>3, <1>3 DEF f, text
  <1>8. CASE ParseOther(f, text, cache_len + f.len)
    <2>1. (IF f.opcode = "PONG" THEN "PONG" ELSE "CLOSE") \in Opcode
      BY DEF Opcode
    <2>2. Pushed
      BY <2>1, <1>8 DEF ParseOther, Push
    <2>3. Filled
      BY <1>8 DEF ParseOther, Collect
    <2>4. ~Ends(f) /\ Queues(f)
      BY <1>8 DEF ParseOther, Ends, Queues, IsData
    <2> QED
      BY <2>2, <2>3, <2>4, <1>4 DEF f, text
  <1> QED
    BY <1>2, <1>5, <1>6, <1>7, <1>8 DEF ParseData

LEMMA ParseFrameStep ==
    ASSUME IInv, NEW i \in DOMAIN sent, ParseFrame(i)
    PROVE  IInv'
  <1> DEFINE L == Len(sent)
             text == Append(cache, i)
  <1>1. /\ i \in 1..L /\ sent[i] \in Frame /\ start[i] \in Nat /\ Taken(i - 1)
        /\ \A n \in 0..L : Taken(n) => n = i - 1
    BY NextFrame DEF IInv, ParseFrame
  <1>2. L \in Nat /\ DOMAIN sent = 1..L
    BY DEF IInv, TypeOK
  <1>0. i \in Nat /\ i >= 1 /\ i <= L
    BY <1>1, <1>2
  <1>3. /\ start[i] = erased /\ rbuf >= Size(sent[i])
        /\ Size(sent[i]) \in Nat /\ Size(sent[i]) >= 2
    BY <1>1, SizeIsPositive DEF ParseFrame, Whole
  <1>4. /\ rbuf' = rbuf - Size(sent[i]) /\ erased' = erased + Size(sent[i])
        /\ UNCHANGED <<sent, start, flight, gone, insock, edge, pc, full>>
        /\ pc = "parse"
    BY DEF ParseFrame, netVars
  <1>5. /\ \/ Ends(sent[i]) /\ cache' = <<>>
           \/ ~Ends(sent[i]) /\ cache' = text
        /\ \/ /\ Queues(sent[i])
              /\ \E op \in Opcode : queue' = Append(queue, [opcode |-> op, msg |-> text])
           \/ ~Queues(sent[i]) /\ UNCHANGED queue
        /\ cache_len' \in Nat /\ cache_len' <= MaxBuffer
    BY ParseCases
  <1>6. PICK lo \in 1..i :
            /\ cache = [k \in 1..(i - lo) |-> lo + k - 1]
            /\ lo = 1 \/ Ends(sent[lo - 1])
            /\ \A k \in lo..(i - 1) : ~Ends(sent[k])
    <2>1. Collected(cache, i - 1)
      BY <1>1 DEF IInv, Frontier
    <2>2. PICK lo \in 1..(i - 1 + 1) :
              /\ cache = [k \in 1..(i - 1 + 1 - lo) |-> lo + k - 1]
              /\ lo = 1 \/ Ends(sent[lo - 1])
              /\ \A k \in lo..(i - 1) : ~Ends(sent[k])
      BY <2>1 DEF Collected
    <2>3. i - 1 + 1 = i /\ i - 1 + 1 - lo = i - lo
      BY <1>1
    <2> QED
      BY <2>2, <2>3
  <1>7. /\ text = [k \in 1..(i - lo + 1) |-> lo + k - 1]
        /\ text \in Text /\ Last(text) = i
    <2>1. lo \in Nat \ {0} /\ i \in Nat /\ lo <= i
      BY <1>0
    <2>2. /\ text = [k \in 1..(i - lo + 1) |-> lo + k - 1]
          /\ text \in Text
      BY <2>1, <1>6, RunGrows
    <2> QED
      BY <2>1, <2>2, RunEnds
  <1> HIDE DEF text
  <1>8. TypeOK'
    <2>1. cache' \in Text
      <3>1. <<>> \in Text
        BY DEF Text
      <3> QED
        BY <3>1, <1>5, <1>7
    <2>2. queue' \in Seq([opcode : Opcode, msg : Text])
      <3>1. queue \in Seq([opcode : Opcode, msg : Text])
        BY DEF IInv, TypeOK
      <3>2. \A op \in Opcode :
                [opcode |-> op, msg |-> text] \in [opcode : Opcode, msg : Text]
        BY <1>7
      <3>3. CASE UNCHANGED queue
        BY <3>1, <3>3
      <3>4. ASSUME NEW op \in Opcode,
                   queue' = Append(queue, [opcode |-> op, msg |-> text])
            PROVE  queue' \in Seq([opcode : Opcode, msg : Text])
        BY <3>1, <3>2, <3>4
      <3> QED
        BY <3>3, <3>4, <1>5
    <2>3. rbuf' \in Nat /\ erased' \in Nat
      BY <1>3, <1>4 DEF IInv, TypeOK
    <2> QED
      BY <2>1, <2>2, <2>3, <1>4, <1>5 DEF IInv, TypeOK
  <1>9. Bytes' = Bytes
    <2>1. rbuf \in Nat /\ erased \in Nat /\ insock \in Nat /\ flight \in Nat
      BY DEF IInv, TypeOK
    <2>2. erased' + rbuf' = erased + rbuf /\ insock' = insock /\ flight' = flight
      BY <2>1, <1>3, <1>4
    <2> QED
      BY <2>2 DEF Bytes
  <1>10. Layout'
    BY <1>4, <1>9 DEF IInv, Layout
  <1>11. Taken(i)'
    <2>1. start[i] + Size(sent[i]) = IF i = L THEN Bytes ELSE start[i + 1]
      BY <1>1 DEF IInv, Layout
    <2> QED
      BY <2>1, <1>3, <1>4, <1>9 DEF Taken
  <1>12. Frontier'
    <2>1. Collected(cache, i)'
      <3>1. CASE Ends(sent[i]) /\ cache' = <<>>
        <4> DEFINE low == i + 1
        <4>1. low \in 1..(i + 1) /\ i + 1 - low = 0 /\ low - 1 = i
          BY <1>0
        <4>2. \A k \in low..i : FALSE
          BY <1>0
        <4> HIDE DEF low
        <4>3. cache' = [k \in 1..(i + 1 - low) |-> low + k - 1]
          BY <4>1, <3>1
        <4>4. Ends(sent'[low - 1])
          BY <4>1, <3>1, <1>4
        <4>5. \A k \in low..i : ~Ends(sent'[k])
          BY <4>2
        <4> QED
          BY <4>1, <4>3, <4>4, <4>5 DEF Collected
      <3>2. CASE ~Ends(sent[i]) /\ cache' = text
        <4>1. lo \in 1..(i + 1) /\ i + 1 - lo = i - lo + 1
          BY <1>1, <1>2
        <4>2. cache' = [k \in 1..(i + 1 - lo) |-> lo + k - 1]
          BY <4>1, <3>2, <1>7
        <4>3. \A k \in lo..i : ~Ends(sent[k])
          <5>1. \A k \in lo..i : k = i \/ k \in lo..(i - 1)
            BY <1>1
          <5> QED
            BY <5>1, <3>2, <1>6
        <4> QED
          BY <4>1, <4>2, <4>3, <1>4, <1>6 DEF Collected
      <3> QED
        BY <3>1, <3>2, <1>5
    <2> QED
      BY <2>1, <1>1, <1>2, <1>4, <1>11 DEF Frontier
  <1>13. Reading'
    BY <1>4 DEF IInv, Reading
  <1>14. ASSUME NEW j \in 1..L
         PROVE  /\ Parsed(j)' <=> Parsed(j) \/ j = i
                /\ Parsed(j) => j < i
    <2>1. \A k \in 1..L : start[k] \in Nat /\ Size(sent[k]) \in Nat /\ Size(sent[k]) >= 2
      BY SizeIsPositive DEF IInv, TypeOK
    <2>2. \A k, m \in 1..L : k < m => start[k] + Size(sent[k]) <= start[m]
      BY DEF IInv, Layout
    <2>3. CASE j < i
      <3>1. start[j] < erased
        BY <2>1, <2>2, <2>3, <1>1, <1>3
      <3> QED
        BY <3>1, <2>1, <2>3, <1>1, <1>3, <1>4 DEF Parsed
    <2>4. CASE j = i
      BY <2>1, <2>4, <1>3, <1>4 DEF Parsed
    <2>5. CASE j > i
      <3>1. start[i] + Size(sent[i]) <= start[j]
        BY <2>2, <2>5, <1>1
      <3> QED
        BY <3>1, <2>1, <2>5, <1>1, <1>3, <1>4 DEF Parsed
    <2> QED
      BY <2>3, <2>4, <2>5, <1>1
  <1>15. ASSUME NEW q \in DOMAIN queue
         PROVE  /\ Last(queue[q].msg) \in 1..L
                /\ Last(queue[q].msg) < i
                /\ \E hi \in DOMAIN sent :
                       /\ Parsed(hi)' /\ Queues(sent[hi])
                       /\ \E low \in 1..hi : Gathered(queue[q].msg, low, hi)
    <2>1. PICK hi \in 1..L : /\ Parsed(hi) /\ Queues(sent[hi])
                             /\ \E low \in 1..hi : Gathered(queue[q].msg, low, hi)
      BY <1>2 DEF IInv, Reassembly
    <2>2. Last(queue[q].msg) = hi
      <3>1. PICK low \in 1..hi : Gathered(queue[q].msg, low, hi)
        BY <2>1
      <3>2. queue[q].msg = [k \in 1..(hi - low + 1) |-> low + k - 1]
        BY <3>1 DEF Gathered
      <3>3. low \in Nat \ {0} /\ hi \in Nat /\ low <= hi
        BY <1>2
      <3> QED
        BY <3>2, <3>3, RunEnds
    <2> QED
      BY <2>1, <2>2, <1>2, <1>14
  <1>16. Reassembly'
    <2> DEFINE Done(qu) ==
            /\ \A q \in DOMAIN qu :
                   \E hi \in DOMAIN sent :
                       /\ Parsed(hi)' /\ Queues(sent[hi])
                       /\ \E low \in 1..hi : Gathered(qu[q].msg, low, hi)
            /\ \A q, r \in DOMAIN qu : q < r => Last(qu[q].msg) < Last(qu[r].msg)
            /\ \A j \in DOMAIN sent :
                   Parsed(j)' /\ Queues(sent[j])
                   => \E q \in DOMAIN qu : Last(qu[q].msg) = j
    <2>1. erased' = Bytes' \/ \E j \in DOMAIN sent : start[j] = erased'
      <3>1. CASE i = L
        BY <3>1, <1>4, <1>11 DEF Taken
      <3>2. CASE i # L
        <4>1. i + 1 \in DOMAIN sent
          BY <3>2, <1>1, <1>2
        <4> QED
          BY <4>1, <3>2, <1>4, <1>11 DEF Taken
      <3> QED
        BY <3>1, <3>2
    <2>2. /\ \A q, r \in DOMAIN queue : q < r => Last(queue[q].msg) < Last(queue[r].msg)
          /\ \A j \in 1..L :
                 Parsed(j) /\ Queues(sent[j])
                 => \E q \in DOMAIN queue : Last(queue[q].msg) = j
      BY <1>2 DEF IInv, Reassembly
    <2>3. CASE ~Queues(sent[i]) /\ queue' = queue
      <3>1. Done(queue)
        BY <2>2, <2>3, <1>2, <1>14, <1>15
      <3> QED
        BY <3>1, <2>1, <2>3, <1>4 DEF Reassembly, Gathered
    <2>4. ASSUME NEW op \in Opcode, Queues(sent[i]),
                 queue' = Append(queue, [opcode |-> op, msg |-> text])
          PROVE  Done(queue')
      <3> DEFINE M == Len(queue)
      <3>1. M \in Nat /\ DOMAIN queue = 1..M /\ DOMAIN queue' = 1..(M + 1)
        BY <2>4 DEF IInv, TypeOK
      <3>2. /\ \A q \in 1..M : queue'[q] = queue[q]
            /\ queue'[M + 1].msg = text
        BY <2>4 DEF IInv, TypeOK
      <3> HIDE DEF M
      <3>3. Gathered(text, lo, i)
        BY <1>6, <1>7 DEF Gathered
      <3>4. Parsed(i)'
        BY <1>1, <1>14
      <3>5. \A q \in 1..(M + 1) :
                \E hi \in DOMAIN sent :
                    /\ Parsed(hi)' /\ Queues(sent[hi])
                    /\ \E low \in 1..hi : Gathered(queue'[q].msg, low, hi)
        <4> SUFFICES ASSUME NEW q \in 1..(M + 1)
                     PROVE  \E hi \in DOMAIN sent :
                                /\ Parsed(hi)' /\ Queues(sent[hi])
                                /\ \E low \in 1..hi : Gathered(queue'[q].msg, low, hi)
          OBVIOUS
        <4>1. CASE q \in 1..M
          BY <4>1, <3>1, <3>2, <1>15
        <4>2. CASE q = M + 1
          BY <4>2, <3>2, <3>3, <3>4, <2>4
        <4> QED
          BY <4>1, <4>2, <3>1
      <3>6. ASSUME NEW q \in 1..(M + 1), NEW r \in 1..(M + 1), q < r
            PROVE  Last(queue'[q].msg) < Last(queue'[r].msg)
        <4>1. q \in 1..M
          BY <3>6, <3>1
        <4>2. CASE r \in 1..M
          BY <4>1, <4>2, <3>1, <3>2, <3>6, <2>2
        <4>3. CASE r = M + 1
          BY <4>1, <4>3, <3>1, <3>2, <1>7, <1>15
        <4> QED
          BY <4>2, <4>3, <3>1
      <3>7. ASSUME NEW j \in 1..L, Parsed(j)', Queues(sent[j])
            PROVE  \E q \in 1..(M + 1) : Last(queue'[q].msg) = j
        <4>1. CASE j = i
          BY <4>1, <3>1, <3>2, <1>7
        <4>2. CASE Parsed(j)
          <5>1. PICK q \in 1..M : Last(queue[q].msg) = j
            BY <4>2, <3>1, <3>7, <2>2
          <5> QED
            BY <5>1, <3>1, <3>2
        <4> QED
          BY <4>1, <4>2, <3>7, <1>14
      <3> QED
        BY <3>1, <3>5, <3>6, <3>7, <1>2
    <2>5. Done(queue') => Reassembly'
      BY <2>1, <1>4 DEF Reassembly, Gathered
    <2> HIDE DEF Done
    <2> QED
      BY <2>3, <2>4, <2>5, <1>5
  <1>17. CacheIsBounded'
    BY <1>5 DEF CacheIsBounded
  <1> QED
    BY <1>8, <1>10, <1>12, <1>13, <1>16, <1>17 DEF IInv

-----------------------------------------------------------------------------
(* The theorems.                                                           *)

LEMMA NextIInv == IInv /\ [Next]_vars => IInv'
  <1> SUFFICES ASSUME IInv, [Next]_vars PROVE IInv'
    OBVIOUS
  <1>1. CASE ServerNext
    BY <1>1, OnReadStep, ReadnStep, ReadnFailsStep, ParseNothingStep,
       ParseTooLargeStep, ParseFrameStep DEF ServerNext
  <1>2. CASE ClientNext
    BY <1>2, SendFrameStep, ArriveStep, LeaveStep DEF ClientNext
  <1>3. CASE UNCHANGED vars
    BY <1>3, StutterStep
  <1> QED
    BY <1>1, <1>2, <1>3 DEF Next

\* The inductive invariant.
THEOREM WebSocketInvariant == Spec => []IInv
  BY InitIInv, NextIInv, PTL DEF Spec

\* The variables keep their types: Parse never erases more than rbuf_ holds.
THEOREM WebSocketTypeCorrect == Spec => []TypeOK
  <1>1. IInv => TypeOK
    BY DEF IInv
  <1> QED
    BY <1>1, WebSocketInvariant, PTL

\* However what a client sends is cut into reads, the handlers get the tasks
\* that its frames call for, each with all the payloads collected for it.
THEOREM MessagesReassembled == Spec => []Reassembly
  <1>1. IInv => Reassembly
    BY DEF IInv
  <1> QED
    BY <1>1, WebSocketInvariant, PTL

\* ReadData leaves nothing behind that no edge will bring it back to.
THEOREM NothingLeftBehind == Spec => []NothingStranded
  <1>1. IInv => NothingStranded
    BY DEF IInv, Reading, NothingStranded
  <1> QED
    BY <1>1, WebSocketInvariant, PTL

\* What is collected of a message stays within the limit.
THEOREM CacheBounded == Spec => []CacheIsBounded
  <1>1. IInv => CacheIsBounded
    BY DEF IInv
  <1> QED
    BY <1>1, WebSocketInvariant, PTL
=============================================================================
