--------------------------- MODULE ChatRoomProofs ---------------------------
(***************************************************************************)
(* Proofs about ChatRoom, and before them the lemmas about                 *)
(* ConnectionOutput that they rest on.  IInv adds to the properties who    *)
(* holds which mutex (MtxOK, ClientsMtxOK), what a thread in the middle of *)
(* a handler may rely on (HandOK), and that a member of a room still has   *)
(* the request it subscribed with (Members): it is from this that a second *)
(* task of the same session, or one left from the session before, cannot   *)
(* put it into two rooms.  OInv follows a message from chat_que to the     *)
(* streams: messages are numbered as they are queued (Numbers), what a     *)
(* stream has is older than what is still to be sent to it (NumbersSent),  *)
(* and who is not yet served is still in the list of TaskThread (Served).  *)
(***************************************************************************)
EXTENDS ChatRoom, TLAPS

-----------------------------------------------------------------------------
(* ConnectionOutput: what Write and Flush do to the stream of a session,   *)
(* for every length of the buffers.  Flush changes nothing of it, it only  *)
(* moves the line between what was sent and what is left; Write appends    *)
(* one whole buffer.                                                       *)

LEMMA DivMod ==
  ASSUME NEW a \in Nat
  PROVE  /\ a \div Units \in Nat /\ a % Units \in 0..(Units - 1)
         /\ a = Units * (a \div Units) + (a % Units)
BY UnitsAssumption

LEMMA DivUnique ==
  ASSUME NEW q \in Nat, NEW x \in 0..(Units - 1)
  PROVE  (Units * q + x) \div Units = q /\ (Units * q + x) % Units = x
BY UnitsAssumption

LEMMA DivBound ==
  ASSUME NEW a \in Nat, NEW l \in Nat
  PROVE  /\ a < l * Units => a \div Units < l
         /\ a <= l * Units => a \div Units <= l
         /\ a = l * Units => a \div Units = l
BY UnitsAssumption

LEMMA DivShift ==
  ASSUME NEW a \in Nat, NEW b \in Nat
  PROVE  /\ (a + b) \div Units = (a \div Units) + (((a % Units) + b) \div Units)
         /\ (a + b) % Units = ((a % Units) + b) % Units
  <1> DEFINE q == a \div Units
             m == (a % Units) + b
             p == m \div Units
             x == m % Units
  <1>1. q \in Nat /\ m \in Nat /\ a = Units * q + (a % Units)
    BY DivMod, UnitsAssumption
  <1>2. p \in Nat /\ x \in 0..(Units - 1) /\ m = Units * p + x
    BY <1>1, DivMod
  <1>3. q + p \in Nat /\ Units * (q + p) = Units * q + Units * p
    BY <1>1, <1>2, UnitsAssumption
  <1>4. a + b = Units * (q + p) + x
    BY <1>1, <1>2, <1>3, UnitsAssumption
  <1> HIDE DEF q, m, p, x
  <1>5. (a + b) \div Units = q + p /\ (a + b) % Units = x
    BY <1>2, <1>3, <1>4, DivUnique
  <1> QED
    BY <1>5 DEF q, m, p, x

-----------------------------------------------------------------------------

Bytes == Item \X (1..Units)

LEMMA OffsetInHead ==
  ASSUME NEW r \in Object
  PROVE  /\ Offset(r) \in 0..(Units - 1) /\ Left(r) \in Nat
         /\ Offset(r) + Left(r) = Len(r.chain) * Units
         /\ r.chain = <<>> => Offset(r) = 0 /\ Left(r) = 0
  <1>1. r.chain \in Seq(Buffer) /\ Len(r.chain) \in Nat
    BY DEF Object
  <1>2. CASE r.chain = <<>>
    <2>1. Len(r.chain) = 0
      BY <1>2
    <2> QED
      BY <1>2, <2>1, UnitsAssumption DEF Offset, Left
  <1>3. CASE r.chain # <<>>
    <2>1. Len(r.chain) >= 1 /\ Head(r.chain) \in Buffer
      BY <1>1, <1>3
    <2>2. Offset(r) \in 0..(Units - 1)
      BY <2>1, <1>3 DEF Offset, Buffer
    <2>3. Len(r.chain) * Units \in Nat /\ Len(r.chain) * Units >= Units
      BY <1>1, <2>1, UnitsAssumption
    <2> QED
      BY <1>3, <2>2, <2>3, UnitsAssumption DEF Left
  <1> QED
    BY <1>2, <1>3

LEMMA Joined ==
  ASSUME NEW s \in Seq(Bytes), NEW t \in Seq(Bytes)
  PROVE  /\ s \o t \in Seq(Bytes) /\ Len(s \o t) = Len(s) + Len(t)
         /\ Len(s) \in Nat /\ Len(t) \in Nat
         /\ \A i \in 1..Len(s) : (s \o t)[i] = s[i]
         /\ \A i \in 1..Len(t) : (s \o t)[Len(s) + i] = t[i]
OBVIOUS

LEMMA SameBytes ==
  ASSUME NEW s \in Seq(Bytes), NEW t \in Seq(Bytes), Len(s) = Len(t),
         \A i \in 1..Len(s) : s[i] = t[i]
  PROVE  s = t
OBVIOUS

LEMMA JoinedTwice ==
  ASSUME NEW s \in Seq(Bytes), NEW t \in Seq(Bytes), NEW u \in Seq(Bytes)
  PROVE  (s \o t) \o u = s \o (t \o u)
OBVIOUS

\* The byte with number at of the chain.
ByteAt(chain, at) == <<chain[(at \div Units) + 1].item, (at % Units) + 1>>

LEMMA BytesOfChain ==
  ASSUME NEW chain \in Seq(Buffer), NEW at \in Nat, at < Len(chain) * Units
  PROVE  ByteAt(chain, at) \in Bytes /\ (at \div Units) + 1 \in 1..Len(chain)
  <1>1. at \div Units \in Nat /\ at % Units \in 0..(Units - 1) /\ at \div Units < Len(chain)
    BY DivMod, DivBound
  <1>2. (at \div Units) + 1 \in 1..Len(chain)
    BY <1>1
  <1>3. chain[(at \div Units) + 1] \in Buffer
    BY <1>2
  <1> QED
    BY <1>1, <1>2, <1>3, UnitsAssumption DEF Buffer, Bytes, ByteAt

LEMMA UnsentBytes ==
  ASSUME NEW r \in Object
  PROVE  /\ Unsent(r) \in Seq(Bytes) /\ Len(Unsent(r)) = Left(r)
         /\ \A i \in 1..Left(r) : Unsent(r)[i] = ByteAt(r.chain, (Offset(r) + i) - 1)
  <1>1. Left(r) \in Nat /\ r.chain \in Seq(Buffer)
    BY OffsetInHead DEF Object
  <1>2. Unsent(r) = [i \in 1..Left(r) |-> ByteAt(r.chain, (Offset(r) + i) - 1)]
    BY DEF Unsent, ByteAt
  <1>3. ASSUME NEW i \in 1..Left(r)
        PROVE  ByteAt(r.chain, (Offset(r) + i) - 1) \in Bytes
    <2>1. (Offset(r) + i) - 1 \in Nat /\ (Offset(r) + i) - 1 < Len(r.chain) * Units
      BY <1>1, OffsetInHead, UnitsAssumption
    <2> QED
      BY <1>1, <2>1, BytesOfChain
  <1> QED
    BY <1>1, <1>2, <1>3

-----------------------------------------------------------------------------
(* Write.                                                                  *)

LEMMA WriteTypes ==
  ASSUME NEW r \in Object, NEW item \in Item
  PROVE  /\ Write(r, item) \in Object
         /\ Write(r, item).fd = r.fd /\ Write(r, item).status = r.status
         /\ Write(r, item).sent = r.sent
  <1>1. [item |-> item, done |-> 0] \in Buffer
    BY UnitsAssumption DEF Buffer
  <1>2. r.chain \in Seq(Buffer)
    BY DEF Object
  <1>3. Append(r.chain, [item |-> item, done |-> 0]) \in Seq(Buffer)
    BY <1>1, <1>2
  <1> QED
    BY <1>3 DEF Write, Object

\* What a buffer adds to a stream.
Added(item) == [j \in 1..Units |-> <<item, j>>]

LEMMA WriteAppends ==
  ASSUME NEW r \in Object, NEW item \in Item, r.fd # NULL
  PROVE  Unsent(Write(r, item)) = Unsent(r) \o Added(item)
  <1> DEFINE w == Write(r, item)
             b == [item |-> item, done |-> 0]
  <1>1. /\ w \in Object /\ r.chain \in Seq(Buffer) /\ b \in Buffer
        /\ w.chain = Append(r.chain, b)
    <2>1. w \in Object
      BY WriteTypes
    <2>2. r.chain \in Seq(Buffer)
      BY DEF Object
    <2>3. b \in Buffer
      BY UnitsAssumption DEF Buffer
    <2>4. w.chain = Append(r.chain, b)
      BY DEF Write, Object
    <2> QED
      BY <2>1, <2>2, <2>3, <2>4
  <1>2. Len(w.chain) = Len(r.chain) + 1 /\ Len(r.chain) \in Nat
    BY <1>1
  <1>3. Offset(w) = Offset(r)
    <2>1. CASE r.chain = <<>>
      BY <2>1, <1>1 DEF Offset
    <2>2. CASE r.chain # <<>>
      <3>1. Head(w.chain) = Head(r.chain) /\ w.chain # <<>>
        BY <2>2, <1>1
      <3> QED
        BY <2>2, <3>1 DEF Offset
    <2> QED
      BY <2>1, <2>2
  <1>4. /\ Left(r) \in Nat /\ Left(w) = Left(r) + Units
        /\ Offset(r) + Left(r) = Len(r.chain) * Units /\ Offset(r) \in Nat
    <2>1. Len(w.chain) * Units = Len(r.chain) * Units + Units
      BY <1>2, UnitsAssumption
    <2>2. /\ Left(r) \in Nat /\ Offset(r) + Left(r) = Len(r.chain) * Units
          /\ Offset(r) \in Nat
      BY OffsetInHead, UnitsAssumption
    <2> QED
      BY <1>3, <2>1, <2>2, UnitsAssumption DEF Left
  <1> HIDE DEF w
  <1>5. ASSUME NEW i \in 1..Left(r)
        PROVE  ByteAt(w.chain, (Offset(r) + i) - 1) = ByteAt(r.chain, (Offset(r) + i) - 1)
    <2> DEFINE at == (Offset(r) + i) - 1
    <2>1. at \in Nat /\ at < Len(r.chain) * Units
      BY <1>4, UnitsAssumption
    <2>2. (at \div Units) + 1 \in 1..Len(r.chain)
      BY <1>1, <2>1, BytesOfChain
    <2>3. w.chain[(at \div Units) + 1] = r.chain[(at \div Units) + 1]
      BY <1>1, <2>2
    <2> QED
      BY <2>3 DEF ByteAt
  <1>6. ASSUME NEW j \in 1..Units
        PROVE  ByteAt(w.chain, (Offset(r) + Left(r) + j) - 1) = <<item, j>>
    <2> DEFINE at == (Offset(r) + Left(r) + j) - 1
    <2>1. at = Units * Len(r.chain) + (j - 1) /\ j - 1 \in 0..(Units - 1)
      BY <1>2, <1>4, UnitsAssumption
    <2>2. at \div Units = Len(r.chain) /\ at % Units = j - 1
      BY <1>2, <2>1, DivUnique
    <2>3. w.chain[Len(r.chain) + 1] = b
      BY <1>1
    <2> QED
      BY <2>2, <2>3, UnitsAssumption DEF ByteAt
  <1>7. /\ Unsent(w) \in Seq(Bytes) /\ Len(Unsent(w)) = Left(r) + Units
        /\ Unsent(r) \in Seq(Bytes) /\ Len(Unsent(r)) = Left(r)
        /\ \A i \in 1..Left(w) : Unsent(w)[i] = ByteAt(w.chain, (Offset(r) + i) - 1)
        /\ \A i \in 1..Left(r) : Unsent(r)[i] = ByteAt(r.chain, (Offset(r) + i) - 1)
    BY <1>1, <1>3, <1>4, UnsentBytes
  <1>8. Added(item) \in Seq(Bytes) /\ Len(Added(item)) = Units
    BY UnitsAssumption DEF Added, Bytes
  <1>9. ASSUME NEW i \in 1..(Left(r) + Units)
        PROVE  Unsent(w)[i] = (Unsent(r) \o Added(item))[i]
    <2>1. CASE i <= Left(r)
      <3>1. i \in 1..Left(r) /\ i \in 1..Left(w)
        BY <2>1, <1>4, UnitsAssumption
      <3>2. (Unsent(r) \o Added(item))[i] = Unsent(r)[i]
        BY <3>1, <1>7, <1>8, Joined
      <3> QED
        BY <3>1, <3>2, <1>5, <1>7
    <2>2. CASE i > Left(r)
      <3>1. i - Left(r) \in 1..Units
        BY <2>2, <1>4, UnitsAssumption
      <3>2. (Unsent(r) \o Added(item))[i] = <<item, i - Left(r)>>
        <4>1. i = Left(r) + (i - Left(r))
          BY <1>4
        <4>2. (Unsent(r) \o Added(item))[Left(r) + (i - Left(r))]
                  = Added(item)[i - Left(r)]
          BY <3>1, <1>7, <1>8, Joined
        <4> QED
          BY <3>1, <4>1, <4>2 DEF Added
      <3>3. (Offset(r) + Left(r) + (i - Left(r))) - 1 = (Offset(r) + i) - 1
        BY <1>4, UnitsAssumption
      <3>4. i \in 1..Left(w)
        BY <1>4
      <3>5. Unsent(w)[i] = <<item, i - Left(r)>>
        BY <3>1, <3>3, <3>4, <1>6, <1>7
      <3> QED
        BY <3>2, <3>5
    <2>3. i <= Left(r) \/ i > Left(r)
      BY <1>4
    <2> QED
      BY <2>1, <2>2, <2>3
  <1>10. /\ Unsent(r) \o Added(item) \in Seq(Bytes)
         /\ Len(Unsent(r) \o Added(item)) = Left(r) + Units
    <2>1. /\ Unsent(r) \o Added(item) \in Seq(Bytes)
          /\ Len(Unsent(r) \o Added(item)) = Len(Unsent(r)) + Len(Added(item))
      BY <1>7, <1>8, Joined
    <2> QED
      BY <1>7, <1>8, <2>1
  <1> QED
    BY <1>7, <1>9, <1>10 DEF w

LEMMA WholeAndMore ==
  ASSUME NEW s \in Seq(Bytes), NEW item \in Item, Whole(s)
  PROVE  Whole(s \o Added(item))
  <1> DEFINE t == s \o Added(item)
  <1>1. Added(item) \in Seq(Bytes) /\ Len(Added(item)) = Units
    BY UnitsAssumption DEF Added, Bytes
  <1>2. t \in Seq(Bytes) /\ Len(t) = Len(s) + Units /\ Len(s) \in Nat
    BY <1>1, UnitsAssumption
  <1>3. PICK q \in Nat : Len(s) = Units * q + 0
    BY <1>2, DivMod DEF Whole
  <1>4. Len(t) % Units = 0
    <2>1. Len(t) = Units * (q + 1) + 0 /\ q + 1 \in Nat
      BY <1>2, <1>3, UnitsAssumption
    <2> QED
      BY <2>1, DivUnique, UnitsAssumption
  <1>5. ASSUME NEW i \in 1..Len(t)
        PROVE  /\ t[i][2] = ((i - 1) % Units) + 1
               /\ t[i][2] > 1 => t[i][1] = t[i - 1][1]
    <2>1. CASE i <= Len(s)
      <3>1. i \in 1..Len(s) /\ t[i] = s[i] /\ (i > 1 => t[i - 1] = s[i - 1])
        BY <2>1, <1>1, <1>2
      <3>2. i = 1 => s[i][2] = 1
        BY <3>1, UnitsAssumption DEF Whole
      <3> QED
        BY <3>1, <3>2, <1>2 DEF Whole
    <2>2. CASE i > Len(s)
      <3> DEFINE j == i - Len(s)
      <3>1. j \in 1..Units
        BY <2>2, <1>2, UnitsAssumption
      <3>2. t[i] = <<item, j>>
        <4>1. i = Len(s) + j /\ t[Len(s) + j] = Added(item)[j]
          BY <3>1, <1>1, <1>2, Joined
        <4> QED
          BY <3>1, <4>1 DEF Added
      <3>3. i - 1 = Units * q + (j - 1) /\ j - 1 \in 0..(Units - 1)
        BY <3>1, <1>2, <1>3, UnitsAssumption
      <3>4. (i - 1) % Units = j - 1
        BY <3>3, DivUnique
      <3>5. j > 1 => t[i - 1] = <<item, j - 1>>
        <4> SUFFICES ASSUME j > 1 PROVE t[i - 1] = <<item, j - 1>>
          OBVIOUS
        <4>1. j - 1 \in 1..Units /\ i - 1 = Len(s) + (j - 1)
          BY <3>1, <1>2, UnitsAssumption
        <4>2. t[Len(s) + (j - 1)] = Added(item)[j - 1]
          BY <4>1, <1>1, Joined
        <4> QED
          BY <4>1, <4>2 DEF Added
      <3> QED
        BY <3>1, <3>2, <3>4, <3>5, UnitsAssumption
    <2>3. i <= Len(s) \/ i > Len(s)
      BY <1>2
    <2> HIDE DEF t
    <2> QED
      BY <2>1, <2>2, <2>3
  <1>6. DOMAIN t = 1..Len(t)
    BY <1>2
  <1> QED
    BY <1>4, <1>5, <1>6 DEF Whole

-----------------------------------------------------------------------------
(* Flush.                                                                  *)

\* The chain that is left begins where the socket has stopped taking bytes.
LEMMA ChainLeft ==
  ASSUME NEW r \in Object, NEW n \in 0..Left(r)
  PROVE  LET k == (Offset(r) + n) \div Units
             c == Chain(r, n)
         IN  /\ k \in Nat /\ Len(r.chain) = k + Len(c) /\ c \in Seq(Buffer)
             /\ \A i \in 1..Len(c) : c[i].item = r.chain[k + i].item
             /\ c = <<>> => (Offset(r) + n) % Units = 0
             /\ c # <<>> => Head(c).done = (Offset(r) + n) % Units
  <1> DEFINE at == Offset(r) + n
             k == at \div Units
             rest == SubSeq(r.chain, k + 1, Len(r.chain))
             c == Chain(r, n)
  <1>1. at \in Nat /\ at <= Len(r.chain) * Units
    BY OffsetInHead, UnitsAssumption
  <1>2. r.chain \in Seq(Buffer) /\ Len(r.chain) \in Nat
    BY DEF Object
  <1>3. /\ k \in Nat /\ k <= Len(r.chain) /\ at % Units \in 0..(Units - 1)
        /\ at = Units * k + (at % Units)
    BY <1>1, <1>2, DivMod, DivBound
  <1>4. c = IF rest = <<>> THEN rest ELSE [rest EXCEPT ![1].done = at % Units]
    BY DEF Chain
  <1> HIDE DEF at, k
  <1>5. /\ rest \in Seq(Buffer) /\ Len(rest) = Len(r.chain) - k
        /\ \A i \in 1..Len(rest) : rest[i] = r.chain[k + i]
    BY <1>2, <1>3
  <1> HIDE DEF rest, c
  <1>6. CASE rest = <<>>
    <2>1. Len(r.chain) = k /\ c = <<>> /\ Len(c) = 0
      BY <1>2, <1>3, <1>4, <1>5, <1>6
    <2>2. at = k * Units
      BY <1>1, <1>3, <2>1, UnitsAssumption
    <2>3. at % Units = 0
      BY <1>3, <2>2, UnitsAssumption
    <2> QED
      BY <1>3, <2>1, <2>3 DEF c, k, at
  <1>7. CASE rest # <<>>
    <2>1. 1 \in 1..Len(rest) /\ rest[1] \in Buffer
      BY <1>5, <1>7
    <2>2. [rest[1] EXCEPT !.done = at % Units] \in Buffer
      BY <1>3, <2>1 DEF Buffer
    <2>3. c = [rest EXCEPT ![1] = [rest[1] EXCEPT !.done = at % Units]]
      BY <1>4, <1>7
    <2>4. c \in Seq(Buffer) /\ Len(c) = Len(rest) /\ c # <<>>
      BY <1>5, <2>1, <2>2, <2>3
    <2>5. ASSUME NEW i \in 1..Len(c)
          PROVE  c[i].item = r.chain[k + i].item
      <3>1. i \in 1..Len(rest) /\ rest[i] = r.chain[k + i]
        BY <1>5, <2>4
      <3>2. CASE i = 1
        <4>1. c[1] = [rest[1] EXCEPT !.done = at % Units]
          BY <1>5, <2>1, <2>3
        <4>2. c[1].item = rest[1].item
          BY <2>1, <4>1 DEF Buffer
        <4> QED
          BY <3>1, <3>2, <4>2
      <3>3. CASE i # 1
        BY <1>5, <2>3, <3>1, <3>3
      <3> QED
        BY <3>2, <3>3
    <2>6. Head(c).done = at % Units
      <3>1. Head(c) = [rest[1] EXCEPT !.done = at % Units]
        BY <1>5, <2>1, <2>3, <2>4
      <3> QED
        BY <2>1, <3>1 DEF Buffer
    <2>7. Len(r.chain) = k + Len(c)
      BY <1>2, <1>3, <1>5, <2>4
    <2> QED
      BY <1>3, <2>4, <2>5, <2>6, <2>7 DEF c, k, at
  <1> QED
    BY <1>6, <1>7

LEMMA WrittenStream ==
  ASSUME NEW r \in Object, NEW n \in 0..Left(r)
  PROVE  LET w == Written(r, n)
         IN  /\ w \in Object /\ w.fd = r.fd /\ w.status = r.status
             /\ Stream(w) = Stream(r)
  <1> DEFINE at == Offset(r) + n
             k == at \div Units
             c == Chain(r, n)
             w == Written(r, n)
             u == Unsent(r)
             first == SubSeq(u, 1, n)
  <1>1. /\ k \in Nat /\ Len(r.chain) = k + Len(c) /\ c \in Seq(Buffer)
        /\ \A i \in 1..Len(c) : c[i].item = r.chain[k + i].item
        /\ c = <<>> => at % Units = 0
        /\ c # <<>> => Head(c).done = at % Units
    BY ChainLeft
  <1>2. /\ u \in Seq(Bytes) /\ Len(u) = Left(r) /\ Left(r) \in Nat
        /\ r.sent \in Seq(Bytes) /\ n \in Nat
        /\ at \in Nat /\ at % Units \in 0..(Units - 1) /\ at = Units * k + (at % Units)
    <2>1. u \in Seq(Bytes) /\ Len(u) = Left(r) /\ Left(r) \in Nat
      BY UnsentBytes, OffsetInHead
    <2>2. r.sent \in Seq(Bytes)
      BY DEF Object, Bytes
    <2>3. at \in Nat
      BY OffsetInHead, UnitsAssumption
    <2> QED
      BY <2>1, <2>2, <2>3, DivMod
  <1>3. first \in Seq(Bytes) /\ Len(first) = n /\ \A i \in 1..n : first[i] = u[i]
    <2> HIDE DEF u
    <2> QED
      BY <1>2
  <1>4. w = [r EXCEPT !.chain = c, !.sent = r.sent \o first]
    BY DEF Written
  <1>5. /\ w \in Object /\ w.fd = r.fd /\ w.status = r.status
        /\ w.chain = c /\ w.sent = r.sent \o first
    <2>1. r.sent \o first \in Seq(Bytes)
      BY <1>2, <1>3, Joined
    <2> HIDE DEF c, first
    <2> QED
      BY <1>1, <1>4, <2>1 DEF Object, Bytes
  <1> HIDE DEF c, w
  <1>6. Offset(w) = at % Units
    BY <1>1, <1>5 DEF Offset
  <1>7. Left(w) = Left(r) - n
    <2> DEFINE all == Len(r.chain) * Units
               gone == Units * k
               left == Len(c) * Units
               m == at % Units
    <2>1. /\ all \in Nat /\ gone \in Nat /\ left \in Nat /\ all = gone + left
          /\ m \in Nat /\ at = gone + m
      <3>1. Len(c) \in Nat /\ k \in Nat /\ Len(r.chain) = k + Len(c)
        BY <1>1
      <3>2. m \in Nat /\ at = gone + m
        BY <1>2, UnitsAssumption
      <3> HIDE DEF k
      <3>3. all \in Nat /\ gone \in Nat /\ left \in Nat
        BY <3>1, UnitsAssumption
      <3>4. (k + Len(c)) * Units = Units * k + Len(c) * Units
        BY <3>1, UnitsAssumption
      <3> QED
        BY <3>1, <3>2, <3>3, <3>4
    <2>2. Offset(r) + Left(r) = all /\ Offset(r) \in Nat
      BY OffsetInHead, UnitsAssumption
    <2>3. Left(w) = left - m
      BY <1>5, <1>6 DEF Left
    <2> HIDE DEF all, gone, left, m
    <2>4. at = Offset(r) + n
      OBVIOUS
    <2> HIDE DEF at
    <2> QED
      BY <1>2, <2>1, <2>2, <2>3, <2>4
  <1>8. ASSUME NEW i \in 1..Left(w)
        PROVE  Unsent(w)[i] = u[n + i]
    <2>1. i - 1 \in Nat /\ n + i \in 1..Left(r)
      BY <1>2, <1>7
    <2>2. /\ (at + (i - 1)) \div Units = k + (((at % Units) + (i - 1)) \div Units)
          /\ (at + (i - 1)) % Units = ((at % Units) + (i - 1)) % Units
      BY <1>2, <2>1, DivShift
    <2> DEFINE b == (at % Units) + (i - 1)
    <2>3. /\ b \in Nat /\ b < Len(w.chain) * Units
          /\ (Offset(w) + i) - 1 = b /\ (Offset(r) + (n + i)) - 1 = at + (i - 1)
      <3>1. /\ Left(w) \in Nat /\ Offset(w) + Left(w) = Len(w.chain) * Units
            /\ Offset(w) \in Nat /\ Offset(r) \in Nat
        BY <1>5, OffsetInHead, UnitsAssumption
      <3>2. b = (Offset(w) + i) - 1
        BY <3>1, <1>6, <2>1
      <3>3. (Offset(r) + (n + i)) - 1 = at + (i - 1)
        BY <3>1, <1>2, <2>1
      <3> DEFINE all == Len(w.chain) * Units
      <3> HIDE DEF b, all
      <3>4. Offset(w) + Left(w) = all
        BY <3>1 DEF all
      <3>5. b \in Nat /\ b < all
        BY <3>1, <3>2, <3>4, <2>1
      <3> QED
        BY <3>2, <3>3, <3>5 DEF all
    <2>4. b \div Units \in Nat /\ (b \div Units) + 1 \in 1..Len(c)
      BY <1>5, <1>1, <2>3, DivMod, BytesOfChain
    <2> HIDE DEF b
    <2>5. c[(b \div Units) + 1].item = r.chain[k + ((b \div Units) + 1)].item
      BY <1>1, <2>4
    <2>6. (k + (b \div Units)) + 1 = k + ((b \div Units) + 1)
      <3> HIDE DEF k
      <3> QED
        BY <1>1, <2>4
    <2>7. ByteAt(c, b) = ByteAt(r.chain, at + (i - 1))
      BY <2>2, <2>5, <2>6 DEF ByteAt, b
    <2>8. Unsent(w)[i] = ByteAt(c, (Offset(w) + i) - 1)
      BY <1>5, UnsentBytes
    <2>9. u[n + i] = ByteAt(r.chain, (Offset(r) + (n + i)) - 1)
      BY <2>1, UnsentBytes
    <2> QED
      BY <2>3, <2>7, <2>8, <2>9
  <1>9. Unsent(w) \in Seq(Bytes) /\ Len(Unsent(w)) = Left(w)
    BY <1>5, UnsentBytes
  <1>10. u = first \o Unsent(w)
    <2> DEFINE v == Unsent(w)
    <2>1. /\ first \o v \in Seq(Bytes) /\ Len(first \o v) = n + Len(v)
          /\ \A i \in 1..n : (first \o v)[i] = first[i]
          /\ \A i \in 1..Len(v) : (first \o v)[n + i] = v[i]
      BY <1>3, <1>9, Joined
    <2> HIDE DEF u, v, first
    <2>2. Len(v) = Left(r) - n /\ Len(first \o v) = Len(u)
      BY <1>2, <1>7, <1>9, <2>1 DEF v
    <2>3. ASSUME NEW i \in 1..Len(u) PROVE u[i] = (first \o v)[i]
      <3>1. CASE i <= n
        BY <3>1, <1>2, <1>3, <2>1
      <3>2. CASE i > n
        <4>1. i - n \in 1..Len(v) /\ i = n + (i - n)
          BY <3>2, <1>2, <2>2
        <4> QED
          BY <4>1, <1>8, <1>9, <2>1 DEF v
      <3>3. i <= n \/ i > n
        BY <1>2
      <3> QED
        BY <3>1, <3>2, <3>3
    <2>4. u = first \o v
      BY <1>2, <2>1, <2>2, <2>3, SameBytes
    <2> QED
      BY <2>4 DEF v
  <1>11. Stream(w) = Stream(r)
    <2>1. Stream(w) = (r.sent \o first) \o Unsent(w)
      BY <1>5 DEF Stream
    <2>2. Stream(r) = r.sent \o (first \o Unsent(w))
      BY <1>10 DEF Stream
    <2> QED
      BY <1>2, <1>3, <1>9, <2>1, <2>2, JoinedTwice
  <1> QED
    BY <1>5, <1>11 DEF w

LEMMA FlushStream ==
  ASSUME NEW r \in Object, NEW f \in Flush(r)
  PROVE  /\ f.obj \in Object /\ f.obj.fd = r.fd /\ f.obj.status = r.status
         /\ Stream(f.obj) = Stream(r)
  <1>1. CASE r.fd = NULL
    BY <1>1 DEF Flush
  <1>2. CASE r.fd # NULL
    <2>1. \E n \in 0..Left(r) : f.obj = Written(r, n)
      <3>1. Left(r) \in 0..Left(r)
        BY OffsetInHead
      <3>2. 0..(Left(r) - 1) \subseteq 0..Left(r)
        BY OffsetInHead
      <3> QED
        BY <1>2, <3>1, <3>2 DEF Flush
    <2> QED
      BY <2>1, WrittenStream
  <1> QED
    BY <1>1, <1>2

-----------------------------------------------------------------------------
(* ChatRoom.                                                               *)

\* t holds the mtx_ of hand[t].
Busy(t) == pc[t] \notin {"idle", "run", "lookup", "write"}

ThreadTypeOK ==
    /\ pc \in [Thread -> UNION {Labels(t) : t \in Thread}]
    /\ \A t \in Thread : pc[t] \in Labels(t)
    /\ hand \in [Thread -> Conn \cup {NULL}]
    /\ \A t \in Thread : pc[t] \notin {"idle", "lookup"} => hand[t] \in Conn

FrameTypeOK == frame \in Kind \cup {NULL} /\ (pc["ws"] = "run" => frame \in Kind)

TaskTypeOK ==
    /\ task \in Message \cup {NULL} /\ (pc["task"] # "idle" => task \in Message)
    /\ targets \in SUBSET Conn

QueueTypeOK ==
    /\ fresh \in SUBSET Client /\ frames \in 0..MaxFrames
    /\ task_que \in Seq(Conn)
    /\ ws_task_que \in Seq([conn : Conn, kind : Kind])

ChatTypeOK ==
    /\ chat_que \in Seq(Message)
    /\ audience \in Seq(SUBSET Client) /\ Len(audience) <= MaxMessages

RoomTypeOK ==
    /\ clients_map_ \in [Room -> SUBSET Conn]
    /\ channel_index_map_ \in [Conn -> Room \cup {NULL}]

ObjectTypeOK ==
    /\ conn \in [Conn -> Object] /\ req \in [Conn -> Request \cup {NULL}]
    /\ mtx_ \in [Conn -> Thread \cup {NULL}]

MtxOK == \A c \in Conn, t \in Thread : mtx_[c] = t <=> Busy(t) /\ hand[t] = c

ClientsMtxOK ==
    /\ clients_mtx_ \in Thread \cup {NULL}
    /\ \A t \in Thread : clients_mtx_ = t <=> pc[t] = "insert"

\* What t relies on while it holds the mtx_ of c.
HandOf(t, c) ==
    /\ Open(c)
    /\ pc[t] \in {"subscribe", "insert"}
           => Upgraded(conn[c]) /\ req[c] # NULL /\ req[c].handler = "subscribe"
    /\ pc[t] = "publish" => req[c] # NULL /\ req[c].handler = "publish"

HandOK == \A t \in Thread : Busy(t) => HandOf(t, hand[t])

Members ==
    \A room \in Room : \A ws \in clients_map_[room] :
        /\ Open(ws) /\ Upgraded(conn[ws])
        /\ channel_index_map_[ws] = room
        /\ req[ws] # NULL /\ req[ws].room = room

\* The part that every handler has to do with.
Core == ThreadTypeOK /\ ObjectTypeOK /\ MtxOK /\ HandOK /\ StreamIsWhole

IInv ==
    /\ Core /\ FrameTypeOK /\ TaskTypeOK /\ QueueTypeOK /\ ChatTypeOK /\ RoomTypeOK
    /\ ClientsMtxOK /\ Members

LEMMA TypesJoin == IInv => TypeOK
BY DEF IInv, Core, ThreadTypeOK, FrameTypeOK, TaskTypeOK, QueueTypeOK, ChatTypeOK,
       RoomTypeOK, ObjectTypeOK, ClientsMtxOK, TypeOK

-----------------------------------------------------------------------------
(* Objects.                                                                *)

Good(r) == r \in Object /\ Whole(Stream(r))

LEMMA ItemsAre ==
    /\ \A name \in {"handshake", "pong", "echo", "header", "body", "page"} :
           <<name, 0>> \in Item
    /\ \A n \in 1..MaxMessages : <<"message", n>> \in Item
BY ChatBounds

\* A stream depends on what was sent and what is left only.
LEMMA SameStream ==
    ASSUME NEW r, NEW w, w.chain = r.chain, w.sent = r.sent
    PROVE  Stream(w) = Stream(r)
BY DEF Stream, Unsent, Left, Offset

LEMMA GoodFresh == Good(Fresh) /\ Fresh.fd = NULL /\ ~Upgraded(Fresh)
<1>1. Fresh \in Object
  BY DEF Fresh, Object
<1>2. Offset(Fresh) = 0 /\ Left(Fresh) = 0
  BY <1>1, OffsetInHead DEF Fresh
<1>3. Unsent(Fresh) \in Seq(Bytes) /\ Len(Unsent(Fresh)) = 0
  BY <1>1, <1>2, UnsentBytes
<1>4. Unsent(Fresh) = <<>>
  BY <1>3
<1>5. Stream(Fresh) = <<>>
  BY <1>4 DEF Stream, Fresh
<1>6. Whole(<<>>)
  <2>1. Len(<<>>) % Units = 0
    BY UnitsAssumption
  <2> QED
    BY <2>1 DEF Whole
<1> QED
  BY <1>1, <1>5, <1>6 DEF Good, Fresh, Upgraded

LEMMA GoodWrite ==
    ASSUME NEW r, Good(r), NEW item \in Item
    PROVE  /\ Good(Write(r, item))
           /\ Write(r, item).fd = r.fd /\ Write(r, item).status = r.status
<1> DEFINE w == Write(r, item)
<1>1. /\ r \in Object /\ w \in Object /\ w.fd = r.fd /\ w.status = r.status
      /\ w.sent = r.sent
  BY WriteTypes DEF Good
<1>2. CASE r.fd = NULL
  BY <1>1, <1>2 DEF Write, Good
<1>3. CASE r.fd # NULL
  <2>1. r.sent \in Seq(Bytes) /\ Unsent(r) \in Seq(Bytes) /\ Added(item) \in Seq(Bytes)
    <3>1. r.sent \in Seq(Bytes)
      BY <1>1 DEF Object, Bytes
    <3>2. Added(item) \in Seq(Bytes)
      BY UnitsAssumption DEF Added, Bytes
    <3> QED
      BY <1>1, <3>1, <3>2, UnsentBytes
  <2>2. Stream(w) = r.sent \o (Unsent(r) \o Added(item))
    BY <1>1, <1>3, WriteAppends DEF Stream
  <2>3. Stream(w) = Stream(r) \o Added(item) /\ Stream(r) \in Seq(Bytes)
    BY <2>1, <2>2, JoinedTwice, Joined DEF Stream
  <2>4. Whole(Stream(w))
    BY <2>3, WholeAndMore DEF Good
  <2> QED
    BY <1>1, <2>4 DEF Good
<1> QED
  BY <1>2, <1>3

LEMMA GoodFlush ==
    ASSUME NEW r, Good(r), NEW f \in Flush(r)
    PROVE  Good(f.obj) /\ f.obj.fd = r.fd /\ f.obj.status = r.status
BY FlushStream DEF Good

LEMMA GoodUpdates ==
    ASSUME NEW r, Good(r)
    PROVE  /\ Good([r EXCEPT !.status = "UPGRADE"])
           /\ Good([r EXCEPT !.finish = TRUE])
           /\ Good([r EXCEPT !.ev_writable = TRUE])
           /\ \A k \in Client : Good([r EXCEPT !.fd = k])
<1>1. /\ [r EXCEPT !.status = "UPGRADE"] \in Object
      /\ [r EXCEPT !.finish = TRUE] \in Object
      /\ [r EXCEPT !.ev_writable = TRUE] \in Object
      /\ \A k \in Client : [r EXCEPT !.fd = k] \in Object
  BY DEF Good, Object
<1>2. /\ Stream([r EXCEPT !.status = "UPGRADE"]) = Stream(r)
      /\ Stream([r EXCEPT !.finish = TRUE]) = Stream(r)
      /\ Stream([r EXCEPT !.ev_writable = TRUE]) = Stream(r)
      /\ \A k \in Client : Stream([r EXCEPT !.fd = k]) = Stream(r)
  BY SameStream DEF Good, Object
<1> QED
  BY <1>1, <1>2 DEF Good

\* Whatever a handler makes of a response, it keeps the session.
LEMMA GoodRespond ==
    ASSUME NEW r, Good(r), NEW written \in BOOLEAN
    PROVE  /\ Good(Respond(r, written))
           /\ Respond(r, written).fd = r.fd /\ Respond(r, written).status = r.status
<1>1. <<"header", 0>> \in Item /\ <<"body", 0>> \in Item
  BY ItemsAre
<1> DEFINE w == Write(Write(r, <<"header", 0>>), <<"body", 0>>)
<1>2. Good(w) /\ w.fd = r.fd /\ w.status = r.status
  BY <1>1, GoodWrite
<1> HIDE DEF w
<1>3. /\ Good([w EXCEPT !.finish = TRUE]) /\ Good([r EXCEPT !.finish = TRUE])
      /\ [w EXCEPT !.finish = TRUE].fd = w.fd /\ [w EXCEPT !.finish = TRUE].status = w.status
      /\ [r EXCEPT !.finish = TRUE].fd = r.fd /\ [r EXCEPT !.finish = TRUE].status = r.status
  BY <1>2, GoodUpdates DEF Good, Object
<1>4. Respond(r, written) \in {r, [w EXCEPT !.finish = TRUE], [r EXCEPT !.finish = TRUE]}
  BY DEF Respond, RespFlush, w
<1> QED
  BY <1>2, <1>3, <1>4

LEMMA GoodPage ==
    ASSUME NEW r, Good(r)
    PROVE  LET w == WriteErrorMessage(r, <<"page", 0>>)
           IN  Good(w) /\ w.fd = r.fd /\ w.status = r.status
<1> DEFINE w == Write(r, <<"page", 0>>)
<1>1. Good(w) /\ w.fd = r.fd /\ w.status = r.status
  BY ItemsAre, GoodWrite
<1> HIDE DEF w
<1>2. /\ Good([w EXCEPT !.finish = TRUE]) /\ [w EXCEPT !.finish = TRUE].fd = w.fd
      /\ [w EXCEPT !.finish = TRUE].status = w.status
  BY <1>1, GoodUpdates DEF Good, Object
<1> QED
  BY <1>1, <1>2 DEF WriteErrorMessage, w

-----------------------------------------------------------------------------
(* Handlers.                                                               *)

\* t may work on c: it holds its mtx_ already, or finds it free.
Has(t, c) == IF Busy(t) THEN hand[t] = c ELSE mtx_[c] = NULL

LocksNothing == {"idle", "run", "lookup", "write"}

\* A thread that goes on leaves the others where they are.
LEMMA GotoMoves ==
    ASSUME ThreadTypeOK, NEW t \in Thread, NEW label \in Labels(t),
           NEW c \in Conn \cup {NULL}, label \notin {"idle", "lookup"} => c \in Conn,
           Goto(t, label, c)
    PROVE  /\ ThreadTypeOK'
           /\ \A u \in Thread : /\ pc'[u] = IF u = t THEN label ELSE pc[u]
                                /\ hand'[u] = IF u = t THEN c ELSE hand[u]
<1>1. label \in UNION {Labels(u) : u \in Thread}
  OBVIOUS
<1>2. \A u \in Thread : /\ pc'[u] = IF u = t THEN label ELSE pc[u]
                        /\ hand'[u] = IF u = t THEN c ELSE hand[u]
  BY DEF Goto, ThreadTypeOK
<1>3. /\ pc' \in [Thread -> UNION {Labels(u) : u \in Thread}]
      /\ hand' \in [Thread -> Conn \cup {NULL}]
  BY <1>1 DEF Goto, ThreadTypeOK
<1> QED
  BY <1>2, <1>3 DEF ThreadTypeOK

\* A step of t on the object c, which it locks or keeps locked.
LEMMA HoldStep ==
    ASSUME Core, NEW t \in Thread, NEW c \in Conn, Has(t, c),
           NEW label \in Labels(t) \ LocksNothing,
           NEW r, Good(r), r.fd # NULL, Hold(t, label, c, r),
           UNCHANGED req,
           label \in {"subscribe", "insert"}
               => Upgraded(r) /\ req[c] # NULL /\ req[c].handler = "subscribe",
           label = "publish" => req[c] # NULL /\ req[c].handler = "publish"
    PROVE  /\ Core'
           /\ \A d \in Conn : conn'[d] = IF d = c THEN r ELSE conn[d]
           /\ \A u \in Thread : pc'[u] = IF u = t THEN label ELSE pc[u]
<1>1. /\ ThreadTypeOK'
      /\ \A u \in Thread : /\ pc'[u] = IF u = t THEN label ELSE pc[u]
                           /\ hand'[u] = IF u = t THEN c ELSE hand[u]
  <2>1. Goto(t, label, c) /\ ThreadTypeOK /\ label \in Labels(t)
    BY DEF Hold, Core
  <2> QED
    BY <2>1, GotoMoves
<1>2. /\ \A d \in Conn : conn'[d] = IF d = c THEN r ELSE conn[d]
      /\ \A d \in Conn : mtx_'[d] = IF d = c THEN t ELSE mtx_[d]
      /\ ObjectTypeOK'
  BY DEF Hold, Core, ObjectTypeOK, Good
<1>3. \A u \in Thread : Busy(u)' <=> IF u = t THEN TRUE ELSE Busy(u)
  BY <1>1 DEF Busy, LocksNothing
<1>4. \A u \in Thread : u # t /\ Busy(u) => hand[u] # c
  BY ThreadAssumption DEF Has, Core, MtxOK
<1>5. MtxOK'
  BY <1>1, <1>2, <1>3, <1>4 DEF MtxOK, Core, Has
<1>6. HandOK'
  <2> SUFFICES ASSUME NEW u \in Thread, Busy(u)' PROVE HandOf(u, hand[u])'
    BY DEF HandOK
  <2>1. CASE u = t
    BY <2>1, <1>1, <1>2 DEF HandOf, Open, Upgraded
  <2>2. CASE u # t
    <3>1. Busy(u) /\ hand'[u] = hand[u] /\ pc'[u] = pc[u] /\ hand[u] # c
      BY <2>2, <1>1, <1>3, <1>4
    <3>2. hand[u] \in Conn /\ HandOf(u, hand[u])
      BY <3>1 DEF Core, HandOK, ThreadTypeOK, Busy
    <3> QED
      BY <3>1, <3>2, <1>2 DEF HandOf, Open, Upgraded
  <2> QED
    BY <2>1, <2>2
<1>7. StreamIsWhole'
  BY <1>2 DEF Core, StreamIsWhole, Good
<1> QED
  BY <1>1, <1>2, <1>5, <1>6, <1>7 DEF Core

\* A step of t after which it has nothing locked; c stays as open as it was, or
\* is closed and req[c] with it.
LEMMA ReleaseStep ==
    ASSUME Core, NEW t \in Thread, NEW c \in Conn, Has(t, c), "idle" \in Labels(t),
           NEW r, Good(r), Release(t, c, r),
           req' \in [Conn -> Request \cup {NULL}],
           \A d \in Conn \ {c} : req'[d] = req[d]
    PROVE  /\ Core'
           /\ \A d \in Conn : conn'[d] = IF d = c THEN r ELSE conn[d]
           /\ \A u \in Thread : pc'[u] = IF u = t THEN "idle" ELSE pc[u]
<1>1. /\ ThreadTypeOK'
      /\ \A u \in Thread : /\ pc'[u] = IF u = t THEN "idle" ELSE pc[u]
                           /\ hand'[u] = IF u = t THEN NULL ELSE hand[u]
  <2>1. Goto(t, "idle", NULL) /\ ThreadTypeOK
    BY DEF Release, Core
  <2> QED
    BY <2>1, GotoMoves
<1>2. /\ \A d \in Conn : conn'[d] = IF d = c THEN r ELSE conn[d]
      /\ \A d \in Conn : mtx_'[d] = IF d = c THEN NULL ELSE mtx_[d]
      /\ ObjectTypeOK'
  BY DEF Release, Core, ObjectTypeOK, Good
<1>3. \A u \in Thread : Busy(u)' <=> IF u = t THEN FALSE ELSE Busy(u)
  BY <1>1 DEF Busy
<1>4. \A u \in Thread : u # t /\ Busy(u) => hand[u] # c
  BY ThreadAssumption DEF Has, Core, MtxOK
<1>5. MtxOK'
  BY <1>1, <1>2, <1>3, <1>4, ThreadAssumption DEF MtxOK, Core, Has
<1>6. HandOK'
  <2> SUFFICES ASSUME NEW u \in Thread, Busy(u)' PROVE HandOf(u, hand[u])'
    BY DEF HandOK
  <2>1. u # t /\ Busy(u) /\ hand'[u] = hand[u] /\ pc'[u] = pc[u] /\ hand[u] # c
    BY <1>1, <1>3, <1>4
  <2>2. hand[u] \in Conn /\ HandOf(u, hand[u])
    BY <2>1 DEF Core, HandOK, ThreadTypeOK, Busy
  <2> QED
    BY <2>1, <2>2, <1>2 DEF HandOf, Open, Upgraded
<1>7. StreamIsWhole'
  BY <1>2 DEF Core, StreamIsWhole, Good
<1> QED
  BY <1>1, <1>2, <1>5, <1>6, <1>7 DEF Core

\* A step of a thread that has nothing locked before or after.
LEMMA FreeStep ==
    ASSUME Core, NEW t \in Thread, NEW label \in Labels(t), ~Busy(t), label \in LocksNothing,
           NEW c \in Conn \cup {NULL}, label \notin {"idle", "lookup"} => c \in Conn,
           Goto(t, label, c), UNCHANGED <<conn, req, mtx_>>
    PROVE  /\ Core'
           /\ \A u \in Thread : pc'[u] = IF u = t THEN label ELSE pc[u]
<1>1. /\ ThreadTypeOK'
      /\ \A u \in Thread : /\ pc'[u] = IF u = t THEN label ELSE pc[u]
                           /\ hand'[u] = IF u = t THEN c ELSE hand[u]
  BY GotoMoves DEF Core
<1>2. \A u \in Thread : Busy(u)' <=> Busy(u)
  BY <1>1 DEF Busy, LocksNothing
<1>3. MtxOK'
  BY <1>1, <1>2 DEF MtxOK, Core
<1>4. HandOK'
  <2> SUFFICES ASSUME NEW u \in Thread, Busy(u)' PROVE HandOf(u, hand[u])'
    BY DEF HandOK
  <2>1. Busy(u) /\ u # t /\ hand'[u] = hand[u] /\ pc'[u] = pc[u] /\ HandOf(u, hand[u])
    BY <1>1, <1>2 DEF Core, HandOK
  <2> QED
    BY <2>1 DEF HandOf, Open, Upgraded
<1> QED
  BY <1>1, <1>3, <1>4 DEF Core, ObjectTypeOK, StreamIsWhole

\* A step on an object that nobody has locked, by threads with nothing locked.
LEMMA TouchStep ==
    ASSUME Core, NEW c \in Conn, mtx_[c] = NULL, NEW r, Good(r),
           conn' = [conn EXCEPT ![c] = r],
           req' \in [Conn -> Request \cup {NULL}],
           \A d \in Conn \ {c} : req'[d] = req[d],
           UNCHANGED mtx_, ThreadTypeOK',
           \A u \in Thread : /\ Busy(u)' <=> Busy(u)
                             /\ Busy(u) => pc'[u] = pc[u] /\ hand'[u] = hand[u]
    PROVE  Core' /\ \A d \in Conn : conn'[d] = IF d = c THEN r ELSE conn[d]
<1>1. /\ \A d \in Conn : conn'[d] = IF d = c THEN r ELSE conn[d]
      /\ ObjectTypeOK'
  BY DEF Core, ObjectTypeOK, Good
<1>2. HandOK'
  <2> SUFFICES ASSUME NEW u \in Thread, Busy(u)' PROVE HandOf(u, hand[u])'
    BY DEF HandOK
  <2>1. /\ Busy(u) /\ hand[u] # c /\ hand[u] \in Conn /\ HandOf(u, hand[u])
        /\ pc'[u] = pc[u] /\ hand'[u] = hand[u]
    BY ThreadAssumption DEF Core, MtxOK, HandOK, ThreadTypeOK, Busy
  <2> QED
    BY <2>1, <1>1 DEF HandOf, Open, Upgraded
<1>3. StreamIsWhole'
  BY <1>1 DEF Core, StreamIsWhole, Good
<1>4. MtxOK'
  BY DEF Core, MtxOK
<1> QED
  BY <1>1, <1>2, <1>3, <1>4 DEF Core

LEMMA MembersKept ==
    ASSUME Members, RoomTypeOK, UNCHANGED roomVars,
           \A d \in Conn :
               Open(d) /\ Upgraded(conn[d]) /\ req[d] # NULL
               => /\ conn'[d].fd # NULL /\ conn'[d].status = "UPGRADE"
                  /\ req'[d] = req[d]
    PROVE  Members' /\ RoomTypeOK'
<1>1. clients_map_' = clients_map_ /\ channel_index_map_' = channel_index_map_
  BY DEF roomVars
<1>2. \A room \in Room : clients_map_[room] \subseteq Conn
  BY DEF RoomTypeOK
<1>3. Members'
  BY <1>1, <1>2 DEF Members, Open, Upgraded
<1> QED
  BY <1>1, <1>3 DEF RoomTypeOK

LEMMA ClientsKept ==
    ASSUME ClientsMtxOK, UNCHANGED clients_mtx_,
           \A u \in Thread : pc'[u] = "insert" <=> pc[u] = "insert"
    PROVE  ClientsMtxOK'
BY DEF ClientsMtxOK

LEMMA ResetStep ==
    ASSUME Core, Members, RoomTypeOK, NEW t \in Thread \ {"task"}, NEW c \in Conn,
           Has(t, c), NEW r, Good(r), r.fd = conn[c].fd, r.status = conn[c].status,
           ResetConnection(t, c, r), UNCHANGED roomVars
    PROVE  /\ Core' /\ Members' /\ RoomTypeOK'
           /\ \A u \in Thread \ {t} : pc'[u] = pc[u]
           /\ pc'[t] \in {"idle", "onclose"}
<1>1. {"idle", "onclose"} \subseteq Labels(t) /\ "onclose" \notin LocksNothing
  BY DEF Labels, Thread, LocksNothing
<1>2. req \in [Conn -> Request \cup {NULL}]
  BY DEF Core, ObjectTypeOK
<1>3. CASE r.fd # NULL /\ Upgraded(r)
  <2>1. Hold(t, "onclose", c, r) /\ UNCHANGED req
    BY <1>3 DEF ResetConnection
  <2>2. /\ Core'
        /\ \A d \in Conn : conn'[d] = IF d = c THEN r ELSE conn[d]
        /\ \A u \in Thread : pc'[u] = IF u = t THEN "onclose" ELSE pc[u]
    BY <1>1, <1>3, <2>1, HoldStep
  <2>3. Members' /\ RoomTypeOK'
    BY <2>1, <2>2, <1>3, MembersKept DEF Open, Upgraded
  <2> QED
    BY <2>2, <2>3
<1>4. CASE ~(r.fd # NULL /\ Upgraded(r))
  <2>1. Release(t, c, Fresh) /\ req' = [req EXCEPT ![c] = NULL]
    BY <1>4 DEF ResetConnection
  <2>2. /\ req' \in [Conn -> Request \cup {NULL}]
        /\ \A d \in Conn \ {c} : req'[d] = req[d]
    BY <1>2, <2>1
  <2>3. /\ Core'
        /\ \A d \in Conn : conn'[d] = IF d = c THEN Fresh ELSE conn[d]
        /\ \A u \in Thread : pc'[u] = IF u = t THEN "idle" ELSE pc[u]
    BY <1>1, <2>1, <2>2, GoodFresh, ReleaseStep
  <2>4. Members' /\ RoomTypeOK'
    BY <1>4, <2>2, <2>3, MembersKept DEF Open, Upgraded
  <2> QED
    BY <2>3, <2>4
<1> QED
  BY <1>3, <1>4

\* ChatRoom::OnClose takes ws out of the only room it can be in.
LEMMA OnCloseStep ==
    ASSUME Members, RoomTypeOK, ChatTypeOK, NEW ws \in Conn, OnClose(ws),
           UNCHANGED chat_que
    PROVE  /\ RoomTypeOK' /\ ChatTypeOK'
           /\ UNCHANGED <<clients_mtx_, channel_index_map_>>
           /\ \A room \in Room : clients_map_'[room] \subseteq clients_map_[room] \ {ws}
<1>1. /\ clients_map_' = Forget(ws) /\ UNCHANGED <<clients_mtx_, channel_index_map_>>
      /\ audience' = [n \in DOMAIN audience |-> audience[n] \ {conn[ws].fd}]
  BY DEF OnClose
<1>2. \A room \in Room : ws \in clients_map_[room] => channel_index_map_[ws] = room
  BY DEF Members
<1>3. channel_index_map_[ws] \in Room \cup {NULL} /\ ChatTypeOK'
  <2>1. /\ audience' \in Seq(SUBSET Client) /\ Len(audience') = Len(audience)
    <3>1. audience \in Seq(SUBSET Client) /\ DOMAIN audience = 1..Len(audience)
      BY DEF ChatTypeOK
    <3>2. audience' = [n \in 1..Len(audience) |-> audience[n] \ {conn[ws].fd}]
      BY <1>1, <3>1
    <3>3. \A n \in 1..Len(audience) : audience[n] \ {conn[ws].fd} \in SUBSET Client
      BY <3>1
    <3> QED
      BY <3>1, <3>2, <3>3
  <2> QED
    BY <2>1 DEF ChatTypeOK, RoomTypeOK
<1>4. CASE channel_index_map_[ws] = NULL
  <2>1. clients_map_' = clients_map_
    BY <1>1, <1>4 DEF Forget
  <2>2. \A room \in Room : ws \notin clients_map_[room]
    BY <1>2, <1>4, RoomAssumption
  <2> QED
    BY <1>1, <1>3, <2>1, <2>2 DEF RoomTypeOK
<1>5. CASE channel_index_map_[ws] # NULL
  <2> DEFINE room0 == channel_index_map_[ws]
  <2>1. room0 \in Room /\ clients_map_' = [clients_map_ EXCEPT ![room0] = clients_map_[room0] \ {ws}]
    BY <1>1, <1>3, <1>5 DEF Forget
  <2>2. /\ clients_map_' \in [Room -> SUBSET Conn]
        /\ \A room \in Room : clients_map_'[room] \subseteq clients_map_[room] \ {ws}
    BY <1>2, <2>1 DEF RoomTypeOK
  <2> QED
    BY <1>1, <1>3, <2>2 DEF RoomTypeOK
<1> QED
  BY <1>4, <1>5

-----------------------------------------------------------------------------
(* The steps.                                                              *)

LEMMA ThreadsAre ==
    /\ {"loop", "worker", "ws", "task"} = Thread
    /\ {"idle", "onclose"} \subseteq Labels("loop")
    /\ {"idle", "run", "subscribe", "insert", "publish", "flush", "onclose"}
           = Labels("worker")
    /\ {"idle", "run", "post", "leave", "flush", "onclose"} = Labels("ws")
    /\ {"idle", "lookup", "write"} = Labels("task")
    /\ "insert" \notin Labels("loop")
BY DEF Thread, Labels

\* What concerns the other threads when one goes on.
LEMMA OthersKept ==
    ASSUME FrameTypeOK, TaskTypeOK, UNCHANGED <<frame, task, targets>>,
           pc'["ws"] = "run" => pc["ws"] = "run",
           pc'["task"] # "idle" => pc["task"] # "idle"
    PROVE  FrameTypeOK' /\ TaskTypeOK'
BY DEF FrameTypeOK, TaskTypeOK

LEMMA AcceptStep ==
    ASSUME IInv, NEW k \in Client, NEW c \in Conn, Accept(k, c)
    PROVE  IInv'
<1>1. /\ mtx_[c] = NULL /\ ~Open(c) /\ conn' = [conn EXCEPT ![c] = [conn[c] EXCEPT !.fd = k]]
      /\ UNCHANGED <<req, mtx_, clients_mtx_, pc, hand, frame, task, targets>>
      /\ UNCHANGED <<task_que, ws_task_que, frames, chat_que, audience>>
      /\ UNCHANGED roomVars /\ fresh' = fresh \ {k}
  BY DEF Accept, lockVars, threadVars, taskVars, queVars, roomVars
<1>2. Good(conn[c]) /\ Good([conn[c] EXCEPT !.fd = k])
  BY GoodUpdates DEF IInv, Core, ObjectTypeOK, StreamIsWhole, Good
<1>3. Core' /\ \A d \in Conn : d # c => conn'[d] = conn[d]
  BY <1>1, <1>2, TouchStep DEF IInv, Core, ThreadTypeOK, ObjectTypeOK, Busy
<1>4. Members' /\ RoomTypeOK'
  BY <1>1, <1>3, MembersKept DEF IInv, Open, Upgraded
<1>5. FrameTypeOK' /\ TaskTypeOK' /\ ClientsMtxOK'
  BY <1>1, OthersKept, ClientsKept DEF IInv
<1>6. QueueTypeOK' /\ ChatTypeOK'
  BY <1>1 DEF IInv, QueueTypeOK, ChatTypeOK
<1> QED
  BY <1>3, <1>4, <1>5, <1>6 DEF IInv

LEMMA ReadRequestStep ==
    ASSUME IInv, NEW c \in Conn, NEW q \in Request, ReadRequest(c, q)
    PROVE  IInv'
<1>1. /\ mtx_[c] = NULL /\ req[c] = NULL /\ conn' = conn
      /\ req' = [req EXCEPT ![c] = q] /\ task_que' = Append(task_que, c)
      /\ UNCHANGED <<mtx_, clients_mtx_, pc, hand, frame, task, targets>>
      /\ UNCHANGED <<fresh, ws_task_que, frames, chat_que, audience>>
      /\ UNCHANGED roomVars
  BY DEF ReadRequest, lockVars, threadVars, taskVars, queVars, roomVars
<1>2. Good(conn[c]) /\ conn' = [conn EXCEPT ![c] = conn[c]]
  BY <1>1 DEF IInv, Core, ObjectTypeOK, StreamIsWhole, Good
<1>3. req' \in [Conn -> Request \cup {NULL}] /\ \A d \in Conn \ {c} : req'[d] = req[d]
  BY <1>1 DEF IInv, Core, ObjectTypeOK
<1>4. Core'
  BY <1>1, <1>2, <1>3, TouchStep DEF IInv, Core, ThreadTypeOK, Busy
<1>5. Members' /\ RoomTypeOK'
  BY <1>1, <1>3, MembersKept DEF IInv, Open, Upgraded
<1>6. FrameTypeOK' /\ TaskTypeOK' /\ ClientsMtxOK'
  BY <1>1, OthersKept, ClientsKept DEF IInv
<1>7. QueueTypeOK' /\ ChatTypeOK'
  BY <1>1 DEF IInv, QueueTypeOK, ChatTypeOK
<1> QED
  BY <1>4, <1>5, <1>6, <1>7 DEF IInv

LEMMA ReadFrameStep ==
    ASSUME IInv, NEW c \in Conn, NEW kind \in Kind, ReadFrame(c, kind)
    PROVE  IInv'
<1>1. /\ UNCHANGED <<conn, req, mtx_, clients_mtx_, pc, hand, frame, task, targets>>
      /\ UNCHANGED <<fresh, task_que, chat_que, audience, clients_map_, channel_index_map_>>
      /\ frames < MaxFrames /\ frames' = frames + 1
      /\ ws_task_que' = Append(ws_task_que, [conn |-> c, kind |-> kind])
  BY DEF ReadFrame, lockVars, threadVars, taskVars, queVars, roomVars
<1>2. Core'
  BY <1>1 DEF IInv, Core, ThreadTypeOK, ObjectTypeOK, MtxOK, HandOK, HandOf, Busy, Open,
              Upgraded, StreamIsWhole
<1>3. Members' /\ RoomTypeOK'
  BY <1>1 DEF IInv, Members, RoomTypeOK, Open, Upgraded
<1>4. FrameTypeOK' /\ TaskTypeOK' /\ ClientsMtxOK'
  BY <1>1, OthersKept, ClientsKept DEF IInv
<1>5. QueueTypeOK' /\ ChatTypeOK'
  BY <1>1, ChatBounds DEF IInv, QueueTypeOK, ChatTypeOK
<1> QED
  BY <1>2, <1>3, <1>4, <1>5 DEF IInv

\* A handler ends, or the loop closes: what is left to show after ResetStep.
LEMMA EndStep ==
    ASSUME IInv, Core', Members', RoomTypeOK', NEW t \in {"loop", "worker", "ws"},
           \A u \in Thread \ {t} : pc'[u] = pc[u],
           pc'[t] \notin {"run", "insert"}, pc[t] # "insert",
           UNCHANGED <<fresh, frames, clients_mtx_, queVars, taskVars, frame>>,
           ChatTypeOK'
    PROVE  IInv'
<1>1. /\ FrameTypeOK' /\ TaskTypeOK'
  BY OthersKept DEF IInv, taskVars, Thread
<1>2. ClientsMtxOK'
  BY ClientsKept DEF IInv, Thread
<1>3. QueueTypeOK'
  BY DEF IInv, QueueTypeOK, queVars
<1> QED
  BY <1>1, <1>2, <1>3 DEF IInv

LEMMA CloseStep ==
    ASSUME IInv, NEW c \in Conn, Close(c) \/ OnWrite(c)
    PROVE  IInv'
<1>1. /\ pc["loop"] = "idle" /\ mtx_[c] = NULL
      /\ UNCHANGED <<fresh, frames, clients_mtx_, queVars, roomVars, taskVars, frame, audience>>
  BY DEF Close, OnWrite
<1>2. Good(conn[c]) /\ Has("loop", c)
  BY <1>1 DEF IInv, Core, ObjectTypeOK, StreamIsWhole, Good, Has, Busy
<1>3. ChatTypeOK'
  BY <1>1 DEF IInv, ChatTypeOK, taskVars
<1>4. ASSUME NEW r, Good(r), r.fd = conn[c].fd, r.status = conn[c].status,
             ResetConnection("loop", c, r)
      PROVE  IInv'
  <2>1. /\ Core' /\ Members' /\ RoomTypeOK'
        /\ \A u \in Thread \ {"loop"} : pc'[u] = pc[u]
        /\ pc'["loop"] \in {"idle", "onclose"}
    BY <1>1, <1>2, <1>4, ResetStep, ThreadsAre DEF IInv
  <2> QED
    BY <1>1, <1>3, <2>1, EndStep
<1>5. CASE Close(c)
  BY <1>2, <1>4, <1>5 DEF Close
<1>6. CASE OnWrite(c)
  <2>1. PICK f \in Flush(conn[c]) :
            IF f.status = "AGAIN"
            THEN conn' = [conn EXCEPT ![c] = f.obj] /\ UNCHANGED <<mtx_, pc, hand, req>>
            ELSE ResetConnection("loop", c, f.obj)
    BY <1>6 DEF OnWrite
  <2>2. Good(f.obj) /\ f.obj.fd = conn[c].fd /\ f.obj.status = conn[c].status
    BY <1>2, GoodFlush
  <2>3. CASE f.status # "AGAIN"
    BY <1>4, <2>1, <2>2, <2>3
  <2>4. CASE f.status = "AGAIN"
    <3>1. conn' = [conn EXCEPT ![c] = f.obj] /\ UNCHANGED <<mtx_, pc, hand, req>>
      BY <2>1, <2>4
    <3>2. Core' /\ \A d \in Conn : conn'[d] = IF d = c THEN f.obj ELSE conn[d]
      BY <1>1, <2>2, <3>1, TouchStep DEF IInv, Core, ThreadTypeOK, ObjectTypeOK, Busy
    <3>3. Members' /\ RoomTypeOK'
      BY <1>1, <2>2, <3>1, <3>2, MembersKept DEF IInv, Open, Upgraded
    <3> QED
      BY <1>1, <1>3, <3>1, <3>2, <3>3, EndStep
  <2> QED
    BY <2>3, <2>4
<1> QED
  BY <1>5, <1>6

\* What a thread knows of the connection it has locked.
LEMMA HandIs ==
    ASSUME IInv, NEW t \in Thread, Busy(t)
    PROVE  /\ hand[t] \in Conn /\ Has(t, hand[t]) /\ Open(hand[t])
           /\ conn[hand[t]].fd # NULL
           /\ Good(conn[hand[t]]) /\ HandOf(t, hand[t])
<1>1. hand[t] \in Conn /\ HandOf(t, hand[t])
  BY DEF IInv, Core, ThreadTypeOK, HandOK, Busy
<1> QED
  BY <1>1 DEF IInv, Core, ObjectTypeOK, StreamIsWhole, Good, Has, HandOf, Open

LEMMA ResetEnds ==
    ASSUME IInv, NEW t \in {"loop", "worker", "ws"}, Reset(t)
    PROVE  IInv'
<1> DEFINE c == hand[t]
<1>1. /\ pc[t] = "onclose" /\ OnClose(c) /\ Release(t, c, Fresh)
      /\ req' = [req EXCEPT ![c] = NULL]
      /\ UNCHANGED <<fresh, frames, queVars, taskVars, frame, chat_que>>
  BY DEF Reset, taskVars
<1>2. t \in Thread /\ Busy(t) /\ "idle" \in Labels(t)
  BY <1>1, ThreadsAre DEF Busy
<1>3. c \in Conn /\ Has(t, c)
  BY <1>2, HandIs
<1> HIDE DEF c
<1>4. /\ RoomTypeOK' /\ ChatTypeOK' /\ UNCHANGED <<clients_mtx_, channel_index_map_>>
      /\ \A room \in Room : clients_map_'[room] \subseteq clients_map_[room] \ {c}
  BY <1>1, <1>3, OnCloseStep DEF IInv
<1>5. /\ req' \in [Conn -> Request \cup {NULL}]
      /\ \A d \in Conn \ {c} : req'[d] = req[d]
  BY <1>1, <1>3 DEF IInv, Core, ObjectTypeOK
<1>6. /\ Core'
      /\ \A d \in Conn : conn'[d] = IF d = c THEN Fresh ELSE conn[d]
      /\ \A u \in Thread : pc'[u] = IF u = t THEN "idle" ELSE pc[u]
  BY <1>1, <1>2, <1>3, <1>5, GoodFresh, ReleaseStep DEF IInv
<1>7. Members'
  <2>1. \A room \in Room : clients_map_[room] \subseteq Conn
    BY DEF IInv, RoomTypeOK
  <2> QED
    BY <1>4, <1>5, <1>6, <2>1 DEF IInv, Members, Open, Upgraded
<1> QED
  BY <1>1, <1>2, <1>4, <1>6, <1>7, EndStep

LEMMA FlushEnds ==
    ASSUME IInv, NEW t \in {"worker", "ws"}, FlushConn(t)
    PROVE  IInv'
<1> DEFINE c == hand[t]
<1>1. /\ pc[t] = "flush"
      /\ UNCHANGED <<fresh, frames, clients_mtx_, queVars, roomVars, taskVars, frame, audience>>
  BY DEF FlushConn
<1>2. PICK f \in Flush(conn[c]) :
          CASE f.status = "AGAIN" ->
                   Release(t, c, [f.obj EXCEPT !.ev_writable = TRUE]) /\ UNCHANGED req
            [] f.status = "UPGRADE" -> Release(t, c, f.obj) /\ UNCHANGED req
            [] OTHER -> ResetConnection(t, c, f.obj)
  BY DEF FlushConn
<1>3. t \in Thread /\ Busy(t) /\ "idle" \in Labels(t) /\ t # "task"
  BY <1>1, ThreadsAre DEF Busy
<1>4. c \in Conn /\ Has(t, c) /\ Good(conn[c])
  BY <1>3, HandIs
<1> HIDE DEF c
<1>5. Good(f.obj) /\ f.obj.fd = conn[c].fd /\ f.obj.status = conn[c].status
  BY <1>4, GoodFlush
<1>6. ChatTypeOK'
  BY <1>1 DEF IInv, ChatTypeOK, taskVars
<1>7. ASSUME NEW r, Good(r), r.fd = conn[c].fd, r.status = conn[c].status,
             Release(t, c, r), UNCHANGED req
      PROVE  IInv'
  <2>1. /\ Core'
        /\ \A d \in Conn : conn'[d] = IF d = c THEN r ELSE conn[d]
        /\ \A u \in Thread : pc'[u] = IF u = t THEN "idle" ELSE pc[u]
    BY <1>3, <1>4, <1>7, ReleaseStep DEF IInv, Core, ObjectTypeOK
  <2>2. Members' /\ RoomTypeOK'
    BY <1>1, <1>7, <2>1, MembersKept DEF IInv, Open, Upgraded
  <2> QED
    BY <1>1, <1>3, <1>6, <2>1, <2>2, EndStep
<1>8. ASSUME ResetConnection(t, c, f.obj) PROVE IInv'
  <2>1. /\ Core' /\ Members' /\ RoomTypeOK'
        /\ \A u \in Thread \ {t} : pc'[u] = pc[u]
        /\ pc'[t] \in {"idle", "onclose"}
    BY <1>1, <1>3, <1>4, <1>5, <1>8, ResetStep DEF IInv
  <2> QED
    BY <1>1, <1>6, <2>1, EndStep
<1>9. /\ Good([f.obj EXCEPT !.ev_writable = TRUE])
      /\ [f.obj EXCEPT !.ev_writable = TRUE].fd = f.obj.fd
      /\ [f.obj EXCEPT !.ev_writable = TRUE].status = f.obj.status
  BY <1>5, GoodUpdates DEF Good, Object
<1>10. CASE f.status = "AGAIN"
  BY <1>2, <1>5, <1>7, <1>9, <1>10
<1>11. CASE f.status = "UPGRADE"
  BY <1>2, <1>5, <1>7, <1>11
<1>12. CASE f.status \notin {"AGAIN", "UPGRADE"}
  BY <1>2, <1>8, <1>12
<1> QED
  BY <1>10, <1>11, <1>12

LEMMA TakeTaskStep ==
    ASSUME IInv, TakeTask
    PROVE  IInv'
<1>1. /\ pc["worker"] = "idle" /\ task_que # <<>> /\ task_que' = Tail(task_que)
      /\ Goto("worker", "run", Head(task_que))
      /\ UNCHANGED <<conn, req, mtx_, clients_mtx_, frame, task, targets, audience, chat_que>>
      /\ UNCHANGED <<fresh, frames, ws_task_que, roomVars>>
  BY DEF TakeTask, inVars, lockVars, taskVars
<1>2. task_que \in Seq(Conn) /\ Head(task_que) \in Conn /\ Tail(task_que) \in Seq(Conn)
  BY <1>1 DEF IInv, QueueTypeOK
<1>3. Core' /\ \A u \in Thread : pc'[u] = IF u = "worker" THEN "run" ELSE pc[u]
  BY <1>1, <1>2, FreeStep, ThreadsAre DEF IInv, Busy, LocksNothing
<1>4. Members' /\ RoomTypeOK'
  BY <1>1, MembersKept DEF IInv, Open, Upgraded
<1>5. FrameTypeOK' /\ TaskTypeOK' /\ ClientsMtxOK'
  BY <1>1, <1>3, OthersKept, ClientsKept, ThreadsAre DEF IInv
<1> QED
  BY <1>1, <1>2, <1>3, <1>4, <1>5 DEF IInv, QueueTypeOK, ChatTypeOK

LEMMA TakeFrameStep ==
    ASSUME IInv, TakeFrame
    PROVE  IInv'
<1>1. /\ pc["ws"] = "idle" /\ ws_task_que # <<>> /\ ws_task_que' = Tail(ws_task_que)
      /\ frame' = Head(ws_task_que).kind
      /\ Goto("ws", "run", Head(ws_task_que).conn)
      /\ UNCHANGED <<conn, req, mtx_, clients_mtx_, task, targets, audience, chat_que>>
      /\ UNCHANGED <<fresh, frames, task_que, roomVars>>
  BY DEF TakeFrame, inVars, lockVars, taskVars
<1>2. /\ Head(ws_task_que) \in [conn : Conn, kind : Kind]
      /\ Tail(ws_task_que) \in Seq([conn : Conn, kind : Kind])
  <2> DEFINE Frame == [conn : Conn, kind : Kind]
  <2>1. ws_task_que \in Seq(Frame) /\ ws_task_que # <<>>
    BY <1>1 DEF IInv, QueueTypeOK
  <2> HIDE DEF Frame
  <2>2. Head(ws_task_que) \in Frame /\ Tail(ws_task_que) \in Seq(Frame)
    BY <2>1
  <2> QED
    BY <2>2 DEF Frame
<1>3. Core' /\ \A u \in Thread : pc'[u] = IF u = "ws" THEN "run" ELSE pc[u]
  BY <1>1, <1>2, FreeStep, ThreadsAre DEF IInv, Busy, LocksNothing
<1>4. Members' /\ RoomTypeOK'
  BY <1>1, MembersKept DEF IInv, Open, Upgraded
<1>5. ClientsMtxOK'
  BY <1>1, <1>3, ClientsKept, ThreadsAre DEF IInv
<1>6. FrameTypeOK' /\ TaskTypeOK'
  BY <1>1, <1>2, <1>3, ThreadsAre DEF IInv, FrameTypeOK, TaskTypeOK
<1> QED
  BY <1>1, <1>2, <1>3, <1>4, <1>5, <1>6 DEF IInv, QueueTypeOK, ChatTypeOK

\* A step of a handler on the connection it has locked, or locks.
LEMMA WorkStep ==
    ASSUME IInv, NEW t \in {"worker", "ws"}, NEW c \in Conn, Has(t, c), Open(c),
           NEW label \in Labels(t) \ (LocksNothing \cup {"insert"}), pc[t] # "insert",
           NEW r, Good(r), r.fd = conn[c].fd, r.status \in {conn[c].status, "UPGRADE"},
           Hold(t, label, c, r),
           label = "subscribe" => Upgraded(r) /\ req[c] # NULL /\ req[c].handler = "subscribe",
           label = "publish" => req[c] # NULL /\ req[c].handler = "publish",
           UNCHANGED <<req, fresh, frames, clients_mtx_, frame, task, targets, roomVars>>,
           UNCHANGED <<task_que, ws_task_que>>,
           ChatTypeOK'
    PROVE  IInv'
<1>1. t \in Thread /\ t \notin {"task", "loop"}
  BY ThreadsAre
<1>2. /\ Core'
      /\ \A d \in Conn : conn'[d] = IF d = c THEN r ELSE conn[d]
      /\ \A u \in Thread : pc'[u] = IF u = t THEN label ELSE pc[u]
  BY <1>1, HoldStep DEF IInv, Open
<1>3. Members' /\ RoomTypeOK'
  BY <1>2, MembersKept DEF IInv, Open, Upgraded
<1>4. FrameTypeOK' /\ TaskTypeOK' /\ ClientsMtxOK'
  BY <1>1, <1>2, OthersKept, ClientsKept, ThreadsAre DEF IInv, LocksNothing
<1> QED
  BY <1>2, <1>3, <1>4 DEF IInv, QueueTypeOK

\* The connection was closed while the task waited: nothing is done.
LEMMA DropStep ==
    ASSUME IInv, NEW t \in {"worker", "ws"}, NEW c \in Conn, Has(t, c),
           pc[t] # "insert", Release(t, c, conn[c]),
           UNCHANGED <<req, fresh, frames, clients_mtx_, queVars, roomVars, taskVars,
                       frame, audience>>
    PROVE  IInv'
<1>1. t \in Thread /\ "idle" \in Labels(t)
  BY ThreadsAre
<1>2. Good(conn[c])
  BY DEF IInv, Core, ObjectTypeOK, StreamIsWhole, Good
<1>3. /\ Core'
      /\ \A d \in Conn : conn'[d] = conn[d]
      /\ \A u \in Thread : pc'[u] = IF u = t THEN "idle" ELSE pc[u]
  BY <1>1, <1>2, ReleaseStep DEF IInv, Core, ObjectTypeOK
<1>4. Members' /\ RoomTypeOK'
  BY <1>3, MembersKept DEF IInv, Open, Upgraded
<1>5. ChatTypeOK'
  BY DEF IInv, ChatTypeOK, taskVars
<1> QED
  BY <1>1, <1>3, <1>4, <1>5, EndStep

LEMMA RunTaskStep ==
    ASSUME IInv, RunTask
    PROVE  IInv'
<1> DEFINE c == hand["worker"]
           r == conn[c]
           Serves(handler) == req[c] # NULL /\ req[c].handler = handler
           page == WriteErrorMessage(r, <<"page", 0>>)
           upgrade == Write([r EXCEPT !.status = "UPGRADE"], <<"handshake", 0>>)
<1>1. /\ pc["worker"] = "run" /\ mtx_[c] = NULL
      /\ UNCHANGED <<fresh, frames, clients_mtx_, queVars, roomVars, taskVars, frame, audience>>
      /\ UNCHANGED <<req, task_que, ws_task_que, task, targets>>
  BY DEF RunTask, inVars, queVars, taskVars
<1>2. c \in Conn /\ Has("worker", c) /\ Good(r)
  BY <1>1, ThreadsAre
     DEF IInv, Core, ThreadTypeOK, ObjectTypeOK, StreamIsWhole, Good, Has, Busy
<1>3. ChatTypeOK'
  BY <1>1 DEF IInv, ChatTypeOK, taskVars
<1>4. \/ ~Open(c) /\ Release("worker", c, r)
      \/ Open(c) /\ Hold("worker", "flush", c, Respond(r, TRUE))
      \/ Open(c) /\ Serves("subscribe") /\ Hold("worker", "subscribe", c, upgrade)
      \/ Open(c) /\ Hold("worker", "flush", c, Respond(page, FALSE))
      \/ Open(c) /\ Serves("publish") /\ Hold("worker", "publish", c, r)
      \/ Open(c) /\ Hold("worker", "flush", c, Respond(r, FALSE))
  BY DEF RunTask
<1>5. /\ Good(Respond(r, TRUE)) /\ Good(Respond(r, FALSE))
      /\ Respond(r, TRUE).fd = r.fd /\ Respond(r, FALSE).fd = r.fd
      /\ Respond(r, TRUE).status = r.status /\ Respond(r, FALSE).status = r.status
  BY <1>2, GoodRespond
<1>6. /\ Good(Respond(page, FALSE)) /\ Respond(page, FALSE).fd = r.fd
      /\ Respond(page, FALSE).status = r.status
  <2>1. Good(page) /\ page.fd = r.fd /\ page.status = r.status
    BY <1>2, GoodPage
  <2> HIDE DEF page
  <2> QED
    BY <2>1, GoodRespond
<1>7. Good(upgrade) /\ upgrade.fd = r.fd /\ upgrade.status = "UPGRADE"
  <2> DEFINE u == [r EXCEPT !.status = "UPGRADE"]
  <2>1. Good(u) /\ u.fd = r.fd /\ u.status = "UPGRADE"
    BY <1>2, GoodUpdates DEF Good, Object
  <2> HIDE DEF u
  <2>2. Good(Write(u, <<"handshake", 0>>)) /\ Write(u, <<"handshake", 0>>).fd = u.fd
        /\ Write(u, <<"handshake", 0>>).status = u.status
    BY <2>1, ItemsAre, GoodWrite
  <2> QED
    BY <2>1, <2>2 DEF u
<1>8. {"flush", "subscribe", "publish"} \subseteq Labels("worker") \ (LocksNothing \cup {"insert"})
  BY ThreadsAre DEF LocksNothing
<1> HIDE DEF c, page, upgrade
<1>9. CASE ~Open(c) /\ Release("worker", c, r)
  BY <1>1, <1>2, <1>9, DropStep
<1>10. ASSUME NEW w, Good(w), w.fd = r.fd, w.status = r.status, Open(c),
              Hold("worker", "flush", c, w)
       PROVE  IInv'
  BY <1>1, <1>2, <1>3, <1>8, <1>10, WorkStep
<1>11. CASE Open(c) /\ Serves("subscribe") /\ Hold("worker", "subscribe", c, upgrade)
  BY <1>1, <1>2, <1>3, <1>7, <1>8, <1>11, WorkStep DEF Upgraded
<1>12. CASE Open(c) /\ Serves("publish") /\ Hold("worker", "publish", c, r)
  BY <1>1, <1>2, <1>3, <1>8, <1>12, WorkStep
<1> QED
  BY <1>2, <1>4, <1>5, <1>6, <1>9, <1>10, <1>11, <1>12

LEMMA SubscribeStep ==
    ASSUME IInv, Subscribe
    PROVE  IInv'
<1> DEFINE c == hand["worker"]
<1>1. /\ pc["worker"] = "subscribe" /\ clients_mtx_ = NULL /\ clients_mtx_' = "worker"
      /\ Goto("worker", "insert", c)
      /\ UNCHANGED <<conn, req, mtx_, fresh, frames, roomVars, frame, task, targets>>
      /\ UNCHANGED <<task_que, ws_task_que, chat_que, audience>>
  BY DEF Subscribe, inVars, queVars, taskVars
<1>2. "worker" \in Thread /\ Busy("worker") /\ "insert" \in Labels("worker") \ LocksNothing
  BY <1>1, ThreadsAre DEF Busy, LocksNothing
<1>3. /\ c \in Conn /\ Has("worker", c) /\ Good(conn[c]) /\ conn[c].fd # NULL
      /\ Upgraded(conn[c]) /\ req[c] # NULL /\ req[c].handler = "subscribe"
      /\ mtx_[c] = "worker"
  BY <1>1, <1>2, HandIs DEF HandOf, IInv, Core, MtxOK
<1> HIDE DEF c
<1>4. Hold("worker", "insert", c, conn[c])
  BY <1>1, <1>3 DEF Hold, IInv, Core, ObjectTypeOK
<1>5. /\ Core'
      /\ \A u \in Thread : pc'[u] = IF u = "worker" THEN "insert" ELSE pc[u]
  BY <1>1, <1>2, <1>3, <1>4, HoldStep DEF IInv
<1>6. Members' /\ RoomTypeOK'
  BY <1>1, MembersKept DEF IInv, Open, Upgraded
<1>7. FrameTypeOK' /\ TaskTypeOK'
  BY <1>1, <1>5, OthersKept, ThreadsAre DEF IInv
<1>8. ClientsMtxOK'
  BY <1>1, <1>2, <1>5, ThreadAssumption DEF IInv, ClientsMtxOK
<1> QED
  BY <1>1, <1>5, <1>6, <1>7, <1>8 DEF IInv, QueueTypeOK, ChatTypeOK

\* The session that subscribes is put into the room its request names, and into
\* no other: if it was in one, it was by the same request.
LEMMA InsertStep ==
    ASSUME IInv, Insert
    PROVE  IInv'
<1> DEFINE c == hand["worker"]
           room == req[c].room
<1>1. /\ pc["worker"] = "insert" /\ clients_mtx_' = NULL
      /\ channel_index_map_' = [channel_index_map_ EXCEPT ![c] = room]
      /\ clients_map_' = [clients_map_ EXCEPT ![room] = clients_map_[room] \cup {c}]
      /\ Goto("worker", "flush", c)
      /\ UNCHANGED <<conn, req, mtx_, fresh, frames, frame, task, targets>>
      /\ UNCHANGED <<task_que, ws_task_que, chat_que, audience>>
  BY DEF Insert, Index, inVars, queVars, taskVars
<1>2. "worker" \in Thread /\ Busy("worker") /\ "flush" \in Labels("worker") \ LocksNothing
  BY <1>1, ThreadsAre DEF Busy, LocksNothing
<1>3. /\ c \in Conn /\ Has("worker", c) /\ Good(conn[c]) /\ conn[c].fd # NULL
      /\ Upgraded(conn[c]) /\ req[c] # NULL /\ req[c].handler = "subscribe"
      /\ mtx_[c] = "worker"
  BY <1>1, <1>2, HandIs DEF HandOf, IInv, Core, MtxOK
<1>4. room \in Room
  BY <1>3 DEF IInv, Core, ObjectTypeOK, Request
<1> HIDE DEF c
<1>5. Hold("worker", "flush", c, conn[c])
  BY <1>1, <1>3 DEF Hold, IInv, Core, ObjectTypeOK
<1>6. /\ Core'
      /\ \A u \in Thread : pc'[u] = IF u = "worker" THEN "flush" ELSE pc[u]
  BY <1>1, <1>2, <1>3, <1>5, HoldStep DEF IInv
<1>7. RoomTypeOK'
  BY <1>1, <1>3, <1>4 DEF IInv, RoomTypeOK
<1>8. Members'
  <2>1. \A any \in Room : clients_map_[any] \subseteq Conn
    BY DEF IInv, RoomTypeOK
  <2>2. \A any \in Room : clients_map_'[any] =
            IF any = room THEN clients_map_[any] \cup {c} ELSE clients_map_[any]
    BY <1>1, <1>4 DEF IInv, RoomTypeOK
  <2>3. \A d \in Conn : channel_index_map_'[d] = IF d = c THEN room ELSE channel_index_map_[d]
    BY <1>1, <1>3 DEF IInv, RoomTypeOK
  <2>4. conn' = conn /\ req' = req
    BY <1>1
  <2> SUFFICES ASSUME NEW any \in Room, NEW ws \in clients_map_'[any]
               PROVE  /\ conn[ws].fd # NULL /\ Upgraded(conn[ws])
                      /\ channel_index_map_'[ws] = any
                      /\ req[ws] # NULL /\ req[ws].room = any
    BY <2>4 DEF Members, Open, Upgraded
  <2>5. CASE ws \in clients_map_[any]
    BY <2>1, <2>3, <2>5 DEF IInv, Members, Open
  <2>6. CASE ws = c /\ any = room
    BY <1>3, <2>3, <2>6
  <2> QED
    BY <2>2, <2>5, <2>6
<1>9. FrameTypeOK' /\ TaskTypeOK'
  BY <1>1, <1>6, OthersKept, ThreadsAre DEF IInv
<1>10. ClientsMtxOK'
  BY <1>1, <1>2, <1>6, ThreadAssumption DEF IInv, ClientsMtxOK
<1> QED
  BY <1>1, <1>6, <1>7, <1>8, <1>9, <1>10 DEF IInv, QueueTypeOK, ChatTypeOK

LEMMA TaskPushTypes ==
    ASSUME IInv, NEW room \in Room, TaskPush(room)
    PROVE  ChatTypeOK'
<1>1. /\ Len(audience) < MaxMessages
      /\ chat_que' = Append(chat_que, [n |-> Len(audience) + 1, room |-> room])
      /\ audience' = Append(audience, {conn[c].fd : c \in clients_map_[room]})
  BY DEF TaskPush
<1>2. {conn[c].fd : c \in clients_map_[room]} \in SUBSET Client
  BY DEF IInv, Core, ObjectTypeOK, Object, Members, Open, RoomTypeOK
<1>3. [n |-> Len(audience) + 1, room |-> room] \in Message
  BY <1>1, ChatBounds DEF IInv, ChatTypeOK, Message
<1>4. chat_que \in Seq(Message) /\ audience \in Seq(SUBSET Client)
  BY DEF IInv, ChatTypeOK
<1>5. chat_que' \in Seq(Message)
  BY <1>1, <1>3, <1>4
<1>6. audience' \in Seq(SUBSET Client) /\ Len(audience') = Len(audience) + 1
  BY <1>1, <1>2, <1>4
<1>7. Len(audience') <= MaxMessages
  BY <1>1, <1>4, <1>6, ChatBounds
<1> QED
  BY <1>5, <1>6, <1>7 DEF ChatTypeOK

LEMMA PublishStep ==
    ASSUME IInv, Publish
    PROVE  IInv'
<1> DEFINE c == hand["worker"]
<1>1. /\ pc["worker"] = "publish" /\ TaskPush(req[c].room)
      /\ Hold("worker", "flush", c, Respond(conn[c], TRUE))
      /\ UNCHANGED <<req, fresh, frames, clients_mtx_, frame, task, targets, roomVars>>
      /\ UNCHANGED <<task_que, ws_task_que>>
  BY DEF Publish, inVars, queVars
<1>2. "worker" \in Thread /\ Busy("worker")
      /\ "flush" \in Labels("worker") \ (LocksNothing \cup {"insert"})
  BY <1>1, ThreadsAre DEF Busy, LocksNothing
<1>3. /\ c \in Conn /\ Has("worker", c) /\ Good(conn[c]) /\ Open(c)
      /\ req[c] # NULL /\ req[c].handler = "publish"
  BY <1>1, <1>2, HandIs DEF HandOf
<1>4. req[c].room \in Room
  BY <1>3 DEF IInv, Core, ObjectTypeOK, Request
<1>5. ChatTypeOK'
  BY <1>1, <1>4, TaskPushTypes
<1> HIDE DEF c
<1>6. /\ Good(Respond(conn[c], TRUE)) /\ Respond(conn[c], TRUE).fd = conn[c].fd
      /\ Respond(conn[c], TRUE).status = conn[c].status
  BY <1>3, GoodRespond
<1> QED
  BY <1>1, <1>2, <1>3, <1>5, <1>6, WorkStep

LEMMA RunFrameStep ==
    ASSUME IInv, RunFrame
    PROVE  IInv'
<1> DEFINE c == hand["ws"]
           r == conn[c]
<1>1. /\ pc["ws"] = "run" /\ mtx_[c] = NULL
      /\ UNCHANGED <<req, fresh, frames, clients_mtx_, queVars, roomVars, taskVars, frame, audience>>
      /\ UNCHANGED <<task_que, ws_task_que, task, targets>>
  BY DEF RunFrame, inVars, queVars, taskVars
<1>2. c \in Conn /\ Has("ws", c) /\ Good(r)
  BY <1>1, ThreadsAre
     DEF IInv, Core, ThreadTypeOK, ObjectTypeOK, StreamIsWhole, Good, Has, Busy
<1>3. ChatTypeOK'
  BY <1>1 DEF IInv, ChatTypeOK, taskVars
<1>4. \/ ~Open(c) /\ Release("ws", c, r)
      \/ Open(c) /\ Hold("ws", Callback(frame), c, Answer(r, frame))
      \/ Open(c) /\ Hold("ws", "flush", c, r)
  BY DEF RunFrame
<1>5. /\ Good(Answer(r, frame)) /\ Answer(r, frame).fd = r.fd
      /\ Answer(r, frame).status = r.status
  <2>1. \A name \in {"echo", "pong"} :
            /\ Good(Write(r, <<name, 0>>)) /\ Write(r, <<name, 0>>).fd = r.fd
            /\ Write(r, <<name, 0>>).status = r.status
    BY <1>2, ItemsAre, GoodWrite
  <2>2. Answer(r, frame) \in {r, Write(r, <<"echo", 0>>), Write(r, <<"pong", 0>>)}
    BY DEF Answer
  <2> QED
    BY <1>2, <2>1, <2>2
<1>6. /\ Callback(frame) \in Labels("ws") \ (LocksNothing \cup {"insert"})
      /\ Callback(frame) \notin {"subscribe", "publish"}
      /\ "flush" \in Labels("ws") \ (LocksNothing \cup {"insert"})
  BY ThreadsAre DEF LocksNothing, Callback
<1> HIDE DEF c
<1>7. CASE ~Open(c) /\ Release("ws", c, r)
  BY <1>1, <1>2, <1>7, DropStep
<1>8. ASSUME NEW w, Good(w), w.fd = r.fd, w.status = r.status, Open(c),
             NEW label \in Labels("ws") \ (LocksNothing \cup {"insert"}),
             label \notin {"subscribe", "publish"},
             Hold("ws", label, c, w)
      PROVE  IInv'
  BY <1>1, <1>2, <1>3, <1>8, WorkStep
<1> QED
  BY <1>2, <1>4, <1>5, <1>6, <1>7, <1>8

LEMMA PostStep ==
    ASSUME IInv, Post
    PROVE  IInv'
<1> DEFINE c == hand["ws"]
<1>1. /\ pc["ws"] = "post"
      /\ \/ Found(c) /\ TaskPush(channel_index_map_[c])
         \/ UNCHANGED <<chat_que, audience>>
      /\ Goto("ws", "flush", c)
      /\ UNCHANGED <<conn, req, mtx_, fresh, frames, clients_mtx_, frame, task, targets>>
      /\ UNCHANGED <<roomVars, task_que, ws_task_que>>
  BY DEF Post, inVars, lockVars, queVars
<1>2. "ws" \in Thread /\ Busy("ws") /\ "flush" \in Labels("ws") \ (LocksNothing \cup {"insert"})
  BY <1>1, ThreadsAre DEF Busy, LocksNothing
<1>3. c \in Conn /\ Has("ws", c) /\ Good(conn[c]) /\ Open(c) /\ mtx_[c] = "ws"
  BY <1>2, HandIs DEF IInv, Core, MtxOK
<1>4. ChatTypeOK'
  <2>1. CASE Found(c) /\ TaskPush(channel_index_map_[c])
    <3>1. channel_index_map_[c] \in Room
      BY <1>3, <2>1 DEF Found, IInv, RoomTypeOK
    <3> QED
      BY <2>1, <3>1, TaskPushTypes
  <2>2. CASE UNCHANGED <<chat_que, audience>>
    BY <2>2 DEF IInv, ChatTypeOK
  <2> QED
    BY <1>1, <2>1, <2>2
<1> HIDE DEF c
<1>5. Hold("ws", "flush", c, conn[c])
  BY <1>1, <1>3 DEF Hold, IInv, Core, ObjectTypeOK
<1> QED
  BY <1>1, <1>2, <1>3, <1>4, <1>5, WorkStep

LEMMA LeaveStep ==
    ASSUME IInv, Leave
    PROVE  IInv'
<1> DEFINE c == hand["ws"]
<1>1. /\ pc["ws"] = "leave" /\ OnClose(c) /\ Goto("ws", "flush", c)
      /\ UNCHANGED <<conn, req, mtx_, fresh, frames, frame, task, targets, chat_que>>
      /\ UNCHANGED <<task_que, ws_task_que>>
  BY DEF Leave, inVars, queVars, taskVars
<1>2. "ws" \in Thread /\ Busy("ws") /\ "flush" \in Labels("ws") \ (LocksNothing \cup {"insert"})
  BY <1>1, ThreadsAre DEF Busy, LocksNothing
<1>3. /\ c \in Conn /\ Has("ws", c) /\ Good(conn[c]) /\ conn[c].fd # NULL /\ mtx_[c] = "ws"
  BY <1>2, HandIs DEF IInv, Core, MtxOK
<1> HIDE DEF c
<1>4. /\ RoomTypeOK' /\ ChatTypeOK' /\ UNCHANGED <<clients_mtx_, channel_index_map_>>
      /\ \A room \in Room : clients_map_'[room] \subseteq clients_map_[room] \ {c}
  BY <1>1, <1>3, OnCloseStep DEF IInv
<1>5. Hold("ws", "flush", c, conn[c])
  BY <1>1, <1>3 DEF Hold, IInv, Core, ObjectTypeOK
<1>6. /\ Core'
      /\ \A u \in Thread : pc'[u] = IF u = "ws" THEN "flush" ELSE pc[u]
  BY <1>1, <1>2, <1>3, <1>5, HoldStep DEF IInv
<1>7. Members'
  BY <1>1, <1>4 DEF IInv, Members, Open, Upgraded
<1>8. FrameTypeOK' /\ TaskTypeOK' /\ ClientsMtxOK'
  BY <1>1, <1>4, <1>6, OthersKept, ClientsKept, ThreadsAre DEF IInv
<1> QED
  BY <1>1, <1>4, <1>6, <1>7, <1>8 DEF IInv, QueueTypeOK

LEMMA TakeMessageStep ==
    ASSUME IInv, TakeMessage
    PROVE  IInv'
<1>1. /\ pc["task"] = "idle" /\ chat_que # <<>> /\ chat_que' = Tail(chat_que)
      /\ task' = Head(chat_que) /\ Goto("task", "lookup", NULL)
      /\ UNCHANGED <<conn, req, mtx_, clients_mtx_, frame, targets, audience>>
      /\ UNCHANGED <<fresh, frames, task_que, ws_task_que, roomVars>>
  BY DEF TakeMessage, Pop, inVars, lockVars, queVars
<1>2. chat_que \in Seq(Message) /\ Head(chat_que) \in Message /\ Tail(chat_que) \in Seq(Message)
  BY <1>1 DEF IInv, ChatTypeOK
<1>3. Core' /\ \A u \in Thread : pc'[u] = IF u = "task" THEN "lookup" ELSE pc[u]
  BY <1>1, FreeStep, ThreadsAre DEF IInv, Busy, LocksNothing
<1>4. Members' /\ RoomTypeOK'
  BY <1>1, MembersKept DEF IInv, Open, Upgraded
<1>5. ClientsMtxOK'
  BY <1>1, <1>3, ClientsKept, ThreadsAre DEF IInv
<1>6. FrameTypeOK' /\ TaskTypeOK'
  BY <1>1, <1>2, <1>3, ThreadsAre DEF IInv, FrameTypeOK, TaskTypeOK
<1> QED
  BY <1>1, <1>2, <1>3, <1>4, <1>5, <1>6 DEF IInv, QueueTypeOK, ChatTypeOK

\* TaskThread goes on to another member, or is done with the message.
LEMMA TargetStep ==
    ASSUME IInv, NEW rest \in SUBSET Conn, NextTarget(rest), pc["task"] # "idle"
    PROVE  /\ \E label \in {"idle", "write"}, c \in Conn \cup {NULL} :
                  Goto("task", label, c) /\ (label = "write" => c \in Conn)
           /\ ThreadTypeOK' /\ targets' \in SUBSET Conn
           /\ task' \in Message \cup {NULL} /\ (pc'["task"] # "idle" => task' \in Message)
           /\ pc'["task"] \in {"idle", "write"}
           /\ \A u \in Thread \ {"task"} : pc'[u] = pc[u] /\ hand'[u] = hand[u]
<1>1. PICK label \in {"idle", "write"}, c \in Conn \cup {NULL} :
          /\ Goto("task", label, c) /\ (label = "write" => c \in Conn)
          /\ targets' \in SUBSET Conn
          /\ \/ label = "idle" /\ task' = NULL
             \/ label = "write" /\ task' = task
  BY DEF NextTarget
<1>2. /\ ThreadTypeOK'
      /\ \A u \in Thread : /\ pc'[u] = IF u = "task" THEN label ELSE pc[u]
                           /\ hand'[u] = IF u = "task" THEN c ELSE hand[u]
  BY <1>1, GotoMoves, ThreadsAre DEF IInv, Core
<1>3. task \in Message
  BY DEF IInv, TaskTypeOK
<1> QED
  BY <1>1, <1>2, <1>3, ThreadsAre

LEMMA LookupStep ==
    ASSUME IInv, Lookup
    PROVE  IInv'
<1>1. /\ pc["task"] = "lookup" /\ clients_mtx_ = NULL /\ NextTarget(clients_map_[task.room])
      /\ UNCHANGED <<conn, req, mtx_, clients_mtx_, frame, audience, chat_que>>
      /\ UNCHANGED <<fresh, frames, task_que, ws_task_que, roomVars>>
  BY DEF Lookup, inVars, lockVars, queVars
<1>2. clients_map_[task.room] \in SUBSET Conn
  BY <1>1 DEF IInv, TaskTypeOK, RoomTypeOK, Message
<1>3. /\ \E label \in {"idle", "write"}, c \in Conn \cup {NULL} :
             Goto("task", label, c) /\ (label = "write" => c \in Conn)
      /\ targets' \in SUBSET Conn
      /\ task' \in Message \cup {NULL} /\ (pc'["task"] # "idle" => task' \in Message)
      /\ pc'["task"] \in {"idle", "write"}
      /\ \A u \in Thread \ {"task"} : pc'[u] = pc[u] /\ hand'[u] = hand[u]
  BY <1>1, <1>2, TargetStep
<1>4. Core'
  BY <1>1, <1>3, FreeStep, ThreadsAre DEF IInv, Busy, LocksNothing
<1>5. Members' /\ RoomTypeOK'
  BY <1>1, MembersKept DEF IInv, Open, Upgraded
<1>6. ClientsMtxOK'
  BY <1>1, <1>3, ClientsKept, ThreadsAre DEF IInv
<1>7. FrameTypeOK' /\ TaskTypeOK'
  BY <1>1, <1>3, ThreadsAre DEF IInv, FrameTypeOK, TaskTypeOK
<1> QED
  BY <1>1, <1>4, <1>5, <1>6, <1>7 DEF IInv, QueueTypeOK, ChatTypeOK

LEMMA WriteSafeStep ==
    ASSUME IInv, WriteRawDataSafe
    PROVE  IInv'
<1> DEFINE c == hand["task"]
           w == Write(conn[c], <<"message", task.n>>)
<1>1. /\ pc["task"] = "write" /\ mtx_[c] = NULL /\ NextTarget(targets)
      /\ UNCHANGED <<req, mtx_, clients_mtx_, frame, audience, chat_que>>
      /\ UNCHANGED <<fresh, frames, task_que, ws_task_que, roomVars>>
  BY DEF WriteRawDataSafe, inVars, lockVars, queVars
<1>2. PICK f \in Flush(w) : conn' = [conn EXCEPT ![c] = f.obj]
  BY DEF WriteRawDataSafe
<1>3. c \in Conn /\ Good(conn[c]) /\ task.n \in 1..MaxMessages /\ targets \in SUBSET Conn
  BY <1>1, ThreadsAre
     DEF IInv, Core, ThreadTypeOK, ObjectTypeOK, StreamIsWhole, Good, TaskTypeOK, Message
<1>4. Good(w) /\ w.fd = conn[c].fd /\ w.status = conn[c].status
  BY <1>3, ItemsAre, GoodWrite
<1> HIDE DEF c, w
<1>5. Good(f.obj) /\ f.obj.fd = conn[c].fd /\ f.obj.status = conn[c].status
  BY <1>2, <1>4, GoodFlush
<1>6. /\ ThreadTypeOK' /\ targets' \in SUBSET Conn
      /\ task' \in Message \cup {NULL} /\ (pc'["task"] # "idle" => task' \in Message)
      /\ pc'["task"] \in {"idle", "write"}
      /\ \A u \in Thread \ {"task"} : pc'[u] = pc[u] /\ hand'[u] = hand[u]
  BY <1>1, <1>3, TargetStep
<1>7. \A u \in Thread : /\ Busy(u)' <=> Busy(u)
                        /\ Busy(u) => pc'[u] = pc[u] /\ hand'[u] = hand[u]
  BY <1>1, <1>6, ThreadsAre DEF Busy
<1>8. Core' /\ \A d \in Conn : conn'[d] = IF d = c THEN f.obj ELSE conn[d]
  BY <1>1, <1>2, <1>3, <1>5, <1>6, <1>7, TouchStep DEF IInv, Core, ObjectTypeOK
<1>9. Members' /\ RoomTypeOK'
  BY <1>1, <1>5, <1>8, MembersKept DEF IInv, Open, Upgraded
<1>10. ClientsMtxOK'
  BY <1>1, <1>6, ClientsKept, ThreadsAre DEF IInv
<1>11. FrameTypeOK' /\ TaskTypeOK'
  BY <1>1, <1>6, ThreadsAre DEF IInv, FrameTypeOK, TaskTypeOK
<1> QED
  BY <1>1, <1>8, <1>9, <1>10, <1>11 DEF IInv, QueueTypeOK, ChatTypeOK

-----------------------------------------------------------------------------
(* The invariant, and what follows from it.                                *)

LEMMA InitIInv == Init => IInv
<1> SUFFICES ASSUME Init PROVE IInv
  OBVIOUS
<1>1. \A c \in Conn : conn[c] = Fresh
  BY DEF Init
<1>2. ThreadTypeOK /\ \A t \in Thread : ~Busy(t) /\ pc[t] # "insert"
  <2>1. pc = [t \in Thread |-> "idle"] /\ hand = [t \in Thread |-> NULL]
    BY DEF Init
  <2>2. \A t \in Thread : "idle" \in Labels(t)
    BY ThreadsAre
  <2> QED
    BY <2>1, <2>2 DEF ThreadTypeOK, Busy
<1>3. ObjectTypeOK /\ StreamIsWhole
  BY <1>1, GoodFresh DEF Init, ObjectTypeOK, StreamIsWhole, Good
<1>4. MtxOK /\ HandOK /\ ClientsMtxOK
  BY <1>2, ThreadAssumption DEF Init, MtxOK, HandOK, ClientsMtxOK
<1>5. FrameTypeOK /\ TaskTypeOK
  BY ThreadsAre DEF Init, FrameTypeOK, TaskTypeOK
<1>6. QueueTypeOK /\ ChatTypeOK /\ RoomTypeOK /\ Members
  BY ChatBounds DEF Init, QueueTypeOK, ChatTypeOK, RoomTypeOK, Members
<1> QED
  BY <1>2, <1>3, <1>4, <1>5, <1>6 DEF IInv, Core

LEMMA NextIInv == IInv /\ [Next]_vars => IInv'
<1> SUFFICES ASSUME IInv, [Next]_vars PROVE IInv'
  OBVIOUS
<1>1. CASE LoopNext
  BY <1>1, CloseStep, AcceptStep, ReadRequestStep, ReadFrameStep, ResetEnds DEF LoopNext
<1>2. CASE WorkerNext
  BY <1>2, TakeTaskStep, RunTaskStep, SubscribeStep, InsertStep, PublishStep, FlushEnds,
     ResetEnds DEF WorkerNext
<1>3. CASE WsNext
  BY <1>3, TakeFrameStep, RunFrameStep, PostStep, LeaveStep, FlushEnds, ResetEnds DEF WsNext
<1>4. CASE TaskNext
  BY <1>4, TakeMessageStep, LookupStep, WriteSafeStep DEF TaskNext
<1>5. CASE UNCHANGED vars
  <2>1. /\ UNCHANGED <<conn, req, fresh, frames, mtx_, clients_mtx_, task_que, ws_task_que>>
        /\ UNCHANGED <<clients_map_, channel_index_map_, chat_que, task, targets>>
        /\ UNCHANGED <<pc, hand, frame, audience>>
    BY <1>5 DEF vars, inVars, lockVars, queVars, roomVars, taskVars, threadVars
  <2>2. Core'
    BY <2>1 DEF IInv, Core, ThreadTypeOK, ObjectTypeOK, MtxOK, HandOK, HandOf, Busy, Open,
                Upgraded, StreamIsWhole
  <2> QED
    BY <2>1, <2>2 DEF IInv, FrameTypeOK, TaskTypeOK, QueueTypeOK, ChatTypeOK, RoomTypeOK,
                      ClientsMtxOK, Members, Open, Upgraded
<1> QED
  BY <1>1, <1>2, <1>3, <1>4, <1>5 DEF Next

LEMMA Invariant == Spec => []IInv
BY InitIInv, NextIInv, PTL DEF Spec

(***************************************************************************)
(* All variables of the chat room keep their types, whatever the numbers   *)
(* of connections, clients, rooms and messages.                            *)
(***************************************************************************)
THEOREM TypeCorrect == Spec => []TypeOK
BY Invariant, TypesJoin, PTL

(***************************************************************************)
(* What a session sends stays in whole buffers, however the loop, both     *)
(* workers and TaskThread take turns at writing and flushing, for buffers  *)
(* of every length.                                                        *)
(***************************************************************************)
THEOREM StreamsWhole == Spec => []StreamIsWhole
<1>1. IInv => StreamIsWhole
  BY DEF IInv, Core
<1> QED
  BY <1>1, Invariant, PTL

(***************************************************************************)
(* The members of every room are open WebSockets subscribed to that room:  *)
(* no WebSocket is left in clients_map_ when its connection is recycled.   *)
(***************************************************************************)
THEOREM MembersOpen == Spec => []MembersAreOpen
<1>1. IInv => MembersAreOpen
  BY DEF IInv, Members, MembersAreOpen
<1> QED
  BY <1>1, Invariant, PTL

(***************************************************************************)
(* The threads never wait for each other's mutexes in a circle: the one    *)
(* that holds clients_mtx_ waits for nothing, and one that waits for an    *)
(* mtx_ has none.                                                          *)
(***************************************************************************)
THEOREM NoCircularWait == Spec => []NoLockCycle
<1>1. IInv => NoLockCycle
  <2> SUFFICES ASSUME IInv, NEW S \in SUBSET Thread, S # {}
               PROVE  \E t \in S : WaitsFor(t) \notin S
    BY DEF NoLockCycle
  <2> DEFINE AtMtx(t) == pc[t] \in {"run", "write"}
             AtClients(t) == pc[t] \in {"subscribe", "onclose", "leave", "lookup"}
  <2>1. NULL \notin S
    BY ThreadAssumption
  <2>2. \A t \in S : pc[t] = "insert" => WaitsFor(t) = NULL
    BY DEF WaitsFor
  <2>3. \A t \in S : AtClients(t) => WaitsFor(t) = clients_mtx_
    BY DEF WaitsFor
  <2>4. \A t \in S : ~AtClients(t) /\ ~AtMtx(t) => WaitsFor(t) = NULL
    BY DEF WaitsFor
  <2>5. \A t \in S : AtMtx(t) => WaitsFor(t) = mtx_[hand[t]] /\ hand[t] \in Conn
    BY DEF WaitsFor, IInv, Core, ThreadTypeOK
  <2>6. CASE clients_mtx_ \in S
    <3>1. pc[clients_mtx_] = "insert"
      BY <2>1, <2>6 DEF IInv, ClientsMtxOK
    <3> QED
      BY <2>1, <2>2, <2>6, <3>1
  <2>7. CASE clients_mtx_ \notin S /\ \E t \in S : ~AtMtx(t)
    BY <2>1, <2>3, <2>4, <2>7
  <2>8. CASE \A t \in S : AtMtx(t)
    <3>1. PICK t \in S : TRUE
      OBVIOUS
    <3>2. ASSUME mtx_[hand[t]] \in S PROVE FALSE
      <4> DEFINE u == mtx_[hand[t]]
      <4>1. u \in Thread /\ Busy(u)
        BY <2>5, <2>8, <3>1, <3>2 DEF IInv, Core, MtxOK
      <4> QED
        BY <2>8, <3>2, <4>1 DEF Busy
    <3> QED
      BY <2>5, <2>8, <3>1, <3>2
  <2> QED
    BY <2>6, <2>7, <2>8
<1> QED
  BY <1>1, Invariant, PTL

-----------------------------------------------------------------------------
(* Who is sent what.  OInv follows a message from chat_que to the streams: *)
(* the numbers in the queue, in the hand of TaskThread and in the streams  *)
(* (Numbers, NumbersSent), and for everyone in the audience of a message a *)
(* connection that will get it, or has (Served).                           *)

Shaken(s) == \E i \in DOMAIN s : s[i][1] = <<"handshake", 0>>

\* Nobody is a WebSocket before the handshake is in its stream.
HandshakeFirst == \A c \in Conn : Upgraded(conn[c]) => Shaken(Stream(conn[c]))

Working == pc["task"] # "idle"

\* Messages are taken in the order of their numbers.
Numbers ==
    /\ task = NULL <=> ~Working
    /\ Working => task.n <= Len(audience)
    /\ \A i \in DOMAIN chat_que :
           /\ chat_que[i].n <= Len(audience)
           /\ Working => task.n < chat_que[i].n
           /\ \A j \in DOMAIN chat_que : i < j => chat_que[i].n < chat_que[j].n
    /\ pc["task"] = "write" => hand["task"] \notin targets

\* Those that TaskThread has yet to send its message to.
Waiting == IF pc["task"] = "write" THEN targets \cup {hand["task"]} ELSE {}

\* Message n may be in the stream of c.
MayHave(c, n) ==
    /\ n <= Len(audience)
    /\ \A i \in DOMAIN chat_que : n < chat_que[i].n
    /\ Working => n <= task.n
    /\ pc["task"] = "lookup" \/ c \in Waiting => n < task.n

NumbersSent ==
    \A c \in Conn : \A i \in DOMAIN Stream(conn[c]) :
        IsMessage(Stream(conn[c])[i]) => MayHave(c, Number(Stream(conn[c])[i]))

\* Wherever message n is, the session in c will get it or has got it.
WillGet(c, n) ==
    /\ \A i \in DOMAIN chat_que :
           chat_que[i].n = n => c \in clients_map_[chat_que[i].room]
    /\ Working /\ task.n = n =>
           IF pc["task"] = "lookup" THEN c \in clients_map_[task.room]
           ELSE c \in Waiting \/ Gets(conn[c], n)
    /\ Done(n) => Gets(conn[c], n)

Served ==
    \A n \in DOMAIN audience : \A k \in audience[n] :
        \E c \in Conn : conn[c].fd = k /\ Upgraded(conn[c]) /\ WillGet(c, n)

OInv == HandshakeFirst /\ Numbers /\ NumbersSent /\ Served /\ InOrder

-----------------------------------------------------------------------------
(* Streams.                                                                *)

LEMMA StreamBytes ==
    ASSUME NEW r, Good(r)
    PROVE  /\ Stream(r) \in Seq(Bytes) /\ Len(Stream(r)) \in Nat
           /\ DOMAIN Stream(r) = 1..Len(Stream(r))
<1>1. r.sent \in Seq(Bytes) /\ Unsent(r) \in Seq(Bytes)
  BY UnsentBytes DEF Good, Object, Bytes
<1>2. Stream(r) \in Seq(Bytes)
  BY <1>1, Joined DEF Stream
<1> QED
  BY <1>2

LEMMA FreshStream == Stream(Fresh) = <<>>
<1>1. Fresh \in Object /\ Good(Fresh)
  BY GoodFresh DEF Good
<1>2. Left(Fresh) = 0 /\ Fresh.sent = <<>>
  BY <1>1, OffsetInHead DEF Fresh
<1>3. Unsent(Fresh) \in Seq(Bytes) /\ Len(Unsent(Fresh)) = 0
  BY <1>1, <1>2, UnsentBytes
<1>4. Unsent(Fresh) = <<>>
  BY <1>3
<1> QED
  BY <1>2, <1>4 DEF Stream

LEMMA WriteStream ==
    ASSUME NEW r, Good(r), NEW item \in Item
    PROVE  LET s == Stream(r)
               t == Stream(Write(r, item))
           IN  /\ r.fd = NULL => t = s
               /\ r.fd # NULL =>
                      /\ Len(t) = Len(s) + Units
                      /\ \A i \in 1..Len(s) : t[i] = s[i]
                      /\ \A j \in 1..Units : t[Len(s) + j] = <<item, j>>
<1> DEFINE w == Write(r, item)
<1>1. CASE r.fd = NULL
  BY <1>1 DEF Write
<1>2. CASE r.fd # NULL
  <2>1. r \in Object /\ w.sent = r.sent
    BY WriteTypes DEF Good
  <2>2. r.sent \in Seq(Bytes)
    BY <2>1 DEF Object, Bytes
  <2>3. Added(item) \in Seq(Bytes) /\ Len(Added(item)) = Units
    BY UnitsAssumption DEF Added, Bytes
  <2>4. Stream(w) = r.sent \o (Unsent(r) \o Added(item)) /\ Unsent(r) \in Seq(Bytes)
    BY <1>2, <2>1, WriteAppends, UnsentBytes DEF Stream
  <2>5. Stream(w) = Stream(r) \o Added(item) /\ Stream(r) \in Seq(Bytes)
    BY <2>2, <2>3, <2>4, JoinedTwice, Joined DEF Stream
  <2>6. \A j \in 1..Units : Added(item)[j] = <<item, j>>
    BY DEF Added
  <2> QED
    BY <1>2, <2>3, <2>5, <2>6, Joined
<1> QED
  BY <1>1, <1>2

\* The session goes on, and nothing of a message is added to its stream.
Quiet(r, w) ==
    /\ r.fd # NULL => w.fd = r.fd
    /\ Upgraded(r) => Upgraded(w)
    /\ Upgraded(w) => Upgraded(r) \/ Shaken(Stream(w))
    /\ Len(Stream(r)) <= Len(Stream(w))
    /\ \A i \in 1..Len(Stream(r)) : Stream(w)[i] = Stream(r)[i]
    /\ \A i \in 1..Len(Stream(w)) : i > Len(Stream(r)) => ~IsMessage(Stream(w)[i])

LEMMA QuietSame ==
    ASSUME NEW r, Good(r), NEW w, r.fd # NULL => w.fd = r.fd, w.status = r.status,
           Stream(w) = Stream(r)
    PROVE  Quiet(r, w)
BY StreamBytes DEF Quiet, Upgraded

LEMMA QuietThen ==
    ASSUME NEW r, Good(r), NEW w, Good(w), NEW x, Good(x), Quiet(r, w), Quiet(w, x),
           r.fd # NULL
    PROVE  Quiet(r, x)
<1> DEFINE l == Len(Stream(r))
           m == Len(Stream(w))
           n == Len(Stream(x))
<1>1. l \in Nat /\ m \in Nat /\ n \in Nat /\ l <= m /\ m <= n
  BY StreamBytes DEF Quiet
<1>2. Upgraded(x) => Upgraded(r) \/ Shaken(Stream(x))
  <2>1. ASSUME Shaken(Stream(w)) PROVE Shaken(Stream(x))
    <3>1. PICK i \in 1..m : Stream(w)[i][1] = <<"handshake", 0>>
      BY <2>1, StreamBytes DEF Shaken
    <3>2. i \in DOMAIN Stream(x) /\ Stream(x)[i] = Stream(w)[i]
      BY <1>1, StreamBytes DEF Quiet
    <3> QED
      BY <3>1, <3>2 DEF Shaken
  <2> QED
    BY <2>1 DEF Quiet
<1>3. \A i \in 1..l : Stream(x)[i] = Stream(r)[i]
  BY <1>1 DEF Quiet
<1>4. ASSUME NEW i \in 1..n, i > l PROVE ~IsMessage(Stream(x)[i])
  <2>1. CASE i > m
    BY <1>1, <1>4, <2>1 DEF Quiet
  <2>2. CASE i <= m
    BY <1>1, <1>4, <2>2 DEF Quiet
  <2> QED
    BY <1>1, <2>1, <2>2
<1> QED
  BY <1>1, <1>2, <1>3, <1>4 DEF Quiet

\* What is not a message.
LEMMA QuietWrite ==
    ASSUME NEW r, Good(r), NEW name \in {"handshake", "pong", "echo", "header", "body", "page"}
    PROVE  Quiet(r, Write(r, <<name, 0>>))
<1> DEFINE item == <<name, 0>>
           w == Write(r, item)
<1>1. item \in Item /\ ~IsMessage(<<item, 0>>)
  BY ItemsAre DEF IsMessage
<1>2. /\ Good(w) /\ w.fd = r.fd /\ w.status = r.status
  BY <1>1, GoodWrite
<1>3. CASE r.fd = NULL
  BY <1>1, <1>2, <1>3, WriteStream, QuietSame
<1>4. CASE r.fd # NULL
  <2>1. /\ Len(Stream(w)) = Len(Stream(r)) + Units /\ Len(Stream(r)) \in Nat
        /\ \A i \in 1..Len(Stream(r)) : Stream(w)[i] = Stream(r)[i]
        /\ \A j \in 1..Units : Stream(w)[Len(Stream(r)) + j] = <<item, j>>
    BY <1>1, <1>4, WriteStream, StreamBytes
  <2>2. ASSUME NEW i \in 1..Len(Stream(w)), i > Len(Stream(r))
        PROVE  ~IsMessage(Stream(w)[i])
    <3>1. i - Len(Stream(r)) \in 1..Units /\ i = Len(Stream(r)) + (i - Len(Stream(r)))
      BY <2>1, <2>2, UnitsAssumption
    <3>2. Stream(w)[i] = <<item, i - Len(Stream(r))>>
      BY <2>1, <3>1
    <3> QED
      BY <3>2 DEF IsMessage
  <2> QED
    BY <1>2, <2>1, <2>2, UnitsAssumption DEF Quiet, Upgraded
<1> QED
  BY <1>3, <1>4

LEMMA QuietFlush ==
    ASSUME NEW r, Good(r), NEW f \in Flush(r)
    PROVE  Quiet(r, f.obj)
BY FlushStream, QuietSame DEF Good

LEMMA QuietUpdates ==
    ASSUME NEW r, Good(r)
    PROVE  /\ Quiet(r, r)
           /\ Quiet(r, [r EXCEPT !.finish = TRUE])
           /\ Quiet(r, [r EXCEPT !.ev_writable = TRUE])
           /\ r.fd = NULL => \A k \in Client : Quiet(r, [r EXCEPT !.fd = k])
<1>1. /\ Stream([r EXCEPT !.finish = TRUE]) = Stream(r)
      /\ Stream([r EXCEPT !.ev_writable = TRUE]) = Stream(r)
      /\ \A k \in Client : Stream([r EXCEPT !.fd = k]) = Stream(r)
  BY SameStream DEF Good, Object
<1>2. /\ [r EXCEPT !.finish = TRUE].fd = r.fd /\ [r EXCEPT !.finish = TRUE].status = r.status
      /\ [r EXCEPT !.ev_writable = TRUE].fd = r.fd
      /\ [r EXCEPT !.ev_writable = TRUE].status = r.status
      /\ \A k \in Client : [r EXCEPT !.fd = k].status = r.status
  BY DEF Good, Object
<1> QED
  BY <1>1, <1>2, QuietSame

LEMMA QuietFinish ==
    ASSUME NEW r, Good(r), NEW w, Good(w), Quiet(r, w), r.fd # NULL
    PROVE  Quiet(r, [w EXCEPT !.finish = TRUE]) /\ Quiet(r, [w EXCEPT !.ev_writable = TRUE])
BY QuietUpdates, GoodUpdates, QuietThen

LEMMA QuietRespond ==
    ASSUME NEW r, Good(r), NEW written \in BOOLEAN, r.fd # NULL
    PROVE  Quiet(r, Respond(r, written))
<1> DEFINE h == Write(r, <<"header", 0>>)
           w == Write(h, <<"body", 0>>)
<1>1. Good(h) /\ h.fd = r.fd /\ Quiet(r, h)
  BY ItemsAre, GoodWrite, QuietWrite
<1> HIDE DEF h
<1>2. Good(w) /\ Quiet(h, w)
  BY <1>1, ItemsAre, GoodWrite, QuietWrite
<1> HIDE DEF w
<1>3. Quiet(r, [w EXCEPT !.finish = TRUE]) /\ Quiet(r, [r EXCEPT !.finish = TRUE]) /\ Quiet(r, r)
  BY <1>1, <1>2, QuietThen, QuietFinish, QuietUpdates
<1>4. Respond(r, written) \in {r, [w EXCEPT !.finish = TRUE], [r EXCEPT !.finish = TRUE]}
  BY DEF Respond, RespFlush, w, h
<1> QED
  BY <1>3, <1>4

LEMMA QuietPage ==
    ASSUME NEW r, Good(r), r.fd # NULL
    PROVE  Quiet(r, Respond(WriteErrorMessage(r, <<"page", 0>>), FALSE))
<1> DEFINE w == Write(r, <<"page", 0>>)
           p == WriteErrorMessage(r, <<"page", 0>>)
<1>1. Good(w) /\ Quiet(r, w) /\ Good(p) /\ p.fd = r.fd
  BY ItemsAre, GoodWrite, QuietWrite, GoodPage
<1>2. Quiet(r, p)
  <2> HIDE DEF w
  <2>1. Quiet(r, [w EXCEPT !.finish = TRUE])
    BY <1>1, QuietFinish
  <2> QED
    BY <2>1 DEF WriteErrorMessage, w
<1> HIDE DEF p
<1>3. Good(Respond(p, FALSE)) /\ Quiet(p, Respond(p, FALSE))
  BY <1>1, GoodRespond, QuietRespond
<1>4. Quiet(r, Respond(p, FALSE))
  BY <1>1, <1>2, <1>3, QuietThen
<1> QED
  BY <1>4 DEF p

LEMMA QuietUpgrade ==
    ASSUME NEW r, Good(r), r.fd # NULL
    PROVE  Quiet(r, Write([r EXCEPT !.status = "UPGRADE"], <<"handshake", 0>>))
<1> DEFINE u == [r EXCEPT !.status = "UPGRADE"]
           w == Write(u, <<"handshake", 0>>)
<1>1. Good(u) /\ u.fd = r.fd /\ u.status = "UPGRADE" /\ Stream(u) = Stream(r)
  BY GoodUpdates, SameStream DEF Good, Object
<1> HIDE DEF u
<1>2. Good(w) /\ w.fd = u.fd /\ w.status = u.status /\ Quiet(u, w)
  BY <1>1, ItemsAre, GoodWrite, QuietWrite
<1>3. Shaken(Stream(w))
  <2>1. /\ Len(Stream(w)) = Len(Stream(u)) + Units /\ Len(Stream(u)) \in Nat
        /\ Stream(w)[Len(Stream(u)) + 1] = <<<<"handshake", 0>>, 1>>
    BY <1>1, ItemsAre, WriteStream, StreamBytes, UnitsAssumption
  <2>2. Len(Stream(u)) + 1 \in DOMAIN Stream(w)
    BY <1>2, <2>1, StreamBytes, UnitsAssumption
  <2> QED
    BY <2>1, <2>2 DEF Shaken
<1> QED
  BY <1>1, <1>2, <1>3 DEF Quiet, Upgraded, u

LEMMA QuietAnswer ==
    ASSUME NEW r, Good(r)
    PROVE  Quiet(r, Answer(r, frame))
BY QuietWrite, QuietUpdates DEF Answer

-----------------------------------------------------------------------------
(* What the steps do to the streams.                                       *)

\* An object becomes w: the session goes on, or is over.  A WebSocket whose
\* session is over is in no audience any more.
Becomes(r, w) ==
    \/ Quiet(r, w)
    \/ w = Fresh /\ (Upgraded(r) => \A n \in DOMAIN audience' : r.fd \notin audience'[n])

AllBecome == \A c \in Conn : Becomes(conn[c], conn'[c])

\* The queue and TaskThread stay as they are, and of the audiences only those
\* go who leave their room.
Kept ==
    /\ UNCHANGED <<chat_que, task, targets>>
    /\ pc'["task"] = pc["task"] /\ hand'["task"] = hand["task"]
    /\ Len(audience') = Len(audience)
    /\ \A n \in DOMAIN audience : audience'[n] \subseteq audience[n]
    /\ \A room \in Room, c \in Conn :
           c \in clients_map_[room] =>
               \/ c \in clients_map_'[room]
               \/ \A n \in DOMAIN audience : conn[c].fd \notin audience'[n]

LEMMA AllGood == IInv => \A c \in Conn : Good(conn[c])
BY DEF IInv, Core, ObjectTypeOK, StreamIsWhole, Good

LEMMA OneBecomes ==
    ASSUME IInv, NEW c \in Conn, NEW w, conn' = [conn EXCEPT ![c] = w],
           Becomes(conn[c], w)
    PROVE  AllBecome
<1>1. \A d \in Conn : conn'[d] = IF d = c THEN w ELSE conn[d]
  BY DEF IInv, Core, ObjectTypeOK
<1>2. \A d \in Conn : Quiet(conn[d], conn[d])
  BY AllGood, QuietUpdates
<1> QED
  BY <1>1, <1>2 DEF AllBecome, Becomes

LEMMA NoneBecomes == IInv /\ UNCHANGED conn => AllBecome
BY AllGood, QuietUpdates DEF AllBecome, Becomes

\* Nothing that TaskThread has to do with changes.
LEMMA KeptPlainly ==
    ASSUME UNCHANGED <<chat_que, task, targets, audience, clients_map_>>,
           pc'["task"] = pc["task"], hand'["task"] = hand["task"]
    PROVE  Kept
BY DEF Kept

LEMMA GotoKeeps ==
    ASSUME IInv, NEW t \in Thread \ {"task"}, NEW label, NEW c, Goto(t, label, c)
    PROVE  pc'["task"] = pc["task"] /\ hand'["task"] = hand["task"]
BY ThreadsAre DEF Goto, IInv, Core, ThreadTypeOK

\* A handler goes on with c, or lets it go.
LEMMA HandlerBecomes ==
    ASSUME IInv, NEW t \in Thread \ {"task"}, NEW c \in Conn, NEW label, NEW w,
           Hold(t, label, c, w) \/ Release(t, c, w), Becomes(conn[c], w)
    PROVE  /\ AllBecome
           /\ pc'["task"] = pc["task"] /\ hand'["task"] = hand["task"]
BY OneBecomes, GotoKeeps DEF Hold, Release

LEMMA ResetBecomes ==
    ASSUME IInv, NEW t \in Thread \ {"task"}, NEW c \in Conn, NEW r, Quiet(conn[c], r),
           r.fd = conn[c].fd, r.status = conn[c].status, ResetConnection(t, c, r),
           UNCHANGED audience
    PROVE  /\ AllBecome
           /\ pc'["task"] = pc["task"] /\ hand'["task"] = hand["task"]
<1>1. CASE r.fd # NULL /\ Upgraded(r)
  BY <1>1, HandlerBecomes DEF ResetConnection, Becomes
<1>2. CASE ~(r.fd # NULL /\ Upgraded(r))
  <2>1. Release(t, c, Fresh)
    BY <1>2 DEF ResetConnection
  <2>2. Upgraded(conn[c]) => conn[c].fd = NULL
    BY <1>2 DEF Upgraded
  <2>3. Upgraded(conn[c]) => \A n \in DOMAIN audience' : conn[c].fd \notin audience'[n]
    BY <2>2, NoClientAssumption DEF IInv, ChatTypeOK
  <2> QED
    BY <2>1, <2>3, HandlerBecomes DEF Becomes
<1> QED
  BY <1>1, <1>2

LEMMA AcceptKeeps ==
    ASSUME IInv, NEW k \in Client, NEW c \in Conn, Accept(k, c)
    PROVE  AllBecome /\ Kept
<1>1. /\ conn[c].fd = NULL /\ conn' = [conn EXCEPT ![c] = [conn[c] EXCEPT !.fd = k]]
      /\ UNCHANGED <<chat_que, task, targets, audience, clients_map_, pc, hand>>
  BY DEF Accept, Open, taskVars, roomVars, threadVars
<1>2. Becomes(conn[c], [conn[c] EXCEPT !.fd = k])
  BY <1>1, AllGood, QuietUpdates DEF Becomes
<1> QED
  BY <1>1, <1>2, OneBecomes, KeptPlainly

LEMMA ReadKeeps ==
    ASSUME IInv, NEW c \in Conn,
           (\E q \in Request : ReadRequest(c, q)) \/ (\E kind \in Kind : ReadFrame(c, kind))
    PROVE  AllBecome /\ Kept
<1>1. UNCHANGED <<conn, chat_que, task, targets, audience, clients_map_, pc, hand>>
  BY DEF ReadRequest, ReadFrame, taskVars, roomVars, threadVars
<1> QED
  BY <1>1, NoneBecomes, KeptPlainly

LEMMA CloseKeeps ==
    ASSUME IInv, NEW c \in Conn, Close(c) \/ OnWrite(c)
    PROVE  AllBecome /\ Kept
<1>1. UNCHANGED <<chat_que, task, targets, audience, clients_map_>>
  BY DEF Close, OnWrite, taskVars, roomVars
<1>2. Good(conn[c]) /\ "loop" \in Thread \ {"task"}
  BY AllGood, ThreadsAre
<1>3. ASSUME NEW r, Quiet(conn[c], r), r.fd = conn[c].fd, r.status = conn[c].status,
             ResetConnection("loop", c, r)
      PROVE  AllBecome /\ Kept
  BY <1>1, <1>2, <1>3, ResetBecomes, KeptPlainly
<1>4. CASE Close(c)
  BY <1>2, <1>3, <1>4, QuietUpdates DEF Close
<1>5. CASE OnWrite(c)
  <2>1. PICK f \in Flush(conn[c]) :
            IF f.status = "AGAIN"
            THEN conn' = [conn EXCEPT ![c] = f.obj] /\ UNCHANGED <<mtx_, pc, hand, req>>
            ELSE ResetConnection("loop", c, f.obj)
    BY <1>5 DEF OnWrite
  <2>2. Quiet(conn[c], f.obj) /\ f.obj.fd = conn[c].fd /\ f.obj.status = conn[c].status
    BY <1>2, GoodFlush, QuietFlush
  <2>3. CASE f.status = "AGAIN"
    BY <1>1, <2>1, <2>2, <2>3, OneBecomes, KeptPlainly DEF Becomes
  <2> QED
    BY <1>3, <2>1, <2>2, <2>3
<1> QED
  BY <1>4, <1>5

\* Who leaves a room leaves the audiences; the others stay in theirs.
LEMMA OnCloseKeeps ==
    ASSUME IInv, NEW ws \in Conn, OnClose(ws), UNCHANGED <<chat_que, task, targets>>,
           pc'["task"] = pc["task"], hand'["task"] = hand["task"]
    PROVE  Kept /\ \A n \in DOMAIN audience' : conn[ws].fd \notin audience'[n]
<1>1. /\ clients_map_' = Forget(ws)
      /\ audience' = [n \in DOMAIN audience |-> audience[n] \ {conn[ws].fd}]
  BY DEF OnClose
<1>2. audience \in Seq(SUBSET Client) /\ DOMAIN audience = 1..Len(audience)
  BY DEF IInv, ChatTypeOK
<1>3. /\ Len(audience') = Len(audience) /\ DOMAIN audience' = DOMAIN audience
      /\ \A n \in DOMAIN audience : audience'[n] = audience[n] \ {conn[ws].fd}
  <2>1. audience' = [n \in 1..Len(audience) |-> audience[n] \ {conn[ws].fd}]
    BY <1>1, <1>2
  <2>2. \A n \in 1..Len(audience) : audience[n] \ {conn[ws].fd} \in SUBSET Client
    BY <1>2
  <2>3. audience' \in Seq(SUBSET Client) /\ Len(audience') = Len(audience)
    BY <1>2, <2>1, <2>2
  <2> QED
    BY <1>2, <2>1, <2>3
<1>4. \A room \in Room, c \in Conn \ {ws} : c \in clients_map_[room] => c \in clients_map_'[room]
  <2>1. channel_index_map_[ws] \in Room \cup {NULL} /\ clients_map_ \in [Room -> SUBSET Conn]
    BY DEF IInv, RoomTypeOK
  <2> QED
    BY <1>1, <2>1 DEF Forget
<1> QED
  BY <1>3, <1>4 DEF Kept

LEMMA ResetKeeps ==
    ASSUME IInv, NEW t \in {"loop", "worker", "ws"}, Reset(t)
    PROVE  AllBecome /\ Kept
<1> DEFINE c == hand[t]
<1>1. /\ pc[t] = "onclose" /\ OnClose(c) /\ Release(t, c, Fresh)
      /\ UNCHANGED <<chat_que, task, targets>>
  BY DEF Reset, taskVars
<1>2. t \in Thread \ {"task"} /\ c \in Conn
  BY <1>1, ThreadsAre, HandIs DEF Busy
<1> HIDE DEF c
<1>3. pc'["task"] = pc["task"] /\ hand'["task"] = hand["task"]
  BY <1>1, <1>2, GotoKeeps DEF Release
<1>4. Kept /\ \A n \in DOMAIN audience' : conn[c].fd \notin audience'[n]
  BY <1>1, <1>2, <1>3, OnCloseKeeps
<1> QED
  BY <1>1, <1>2, <1>4, HandlerBecomes DEF Becomes

LEMMA LeaveKeeps ==
    ASSUME IInv, Leave
    PROVE  AllBecome /\ Kept
<1> DEFINE c == hand["ws"]
<1>1. /\ pc["ws"] = "leave" /\ OnClose(c) /\ Goto("ws", "flush", c)
      /\ UNCHANGED <<conn, chat_que, task, targets>>
  BY DEF Leave, taskVars
<1>2. "ws" \in Thread \ {"task"} /\ c \in Conn
  BY <1>1, ThreadsAre, HandIs DEF Busy
<1> HIDE DEF c
<1> QED
  BY <1>1, <1>2, GotoKeeps, OnCloseKeeps, NoneBecomes

LEMMA FlushKeeps ==
    ASSUME IInv, NEW t \in {"worker", "ws"}, FlushConn(t)
    PROVE  AllBecome /\ Kept
<1> DEFINE c == hand[t]
<1>1. pc[t] = "flush" /\ UNCHANGED <<chat_que, task, targets, audience, clients_map_>>
  BY DEF FlushConn, taskVars, roomVars
<1>2. PICK f \in Flush(conn[c]) :
          CASE f.status = "AGAIN" ->
                   Release(t, c, [f.obj EXCEPT !.ev_writable = TRUE]) /\ UNCHANGED req
            [] f.status = "UPGRADE" -> Release(t, c, f.obj) /\ UNCHANGED req
            [] OTHER -> ResetConnection(t, c, f.obj)
  BY DEF FlushConn
<1>3. t \in Thread \ {"task"} /\ Busy(t)
  BY <1>1, ThreadsAre DEF Busy
<1>4. c \in Conn /\ conn[c].fd # NULL /\ Good(conn[c])
  BY <1>3, HandIs
<1> HIDE DEF c
<1>5. /\ Good(f.obj) /\ f.obj.fd = conn[c].fd /\ f.obj.status = conn[c].status
      /\ Quiet(conn[c], f.obj) /\ Quiet(conn[c], [f.obj EXCEPT !.ev_writable = TRUE])
  BY <1>4, GoodFlush, QuietFlush, QuietFinish
<1>6. ASSUME NEW w, Release(t, c, w), Quiet(conn[c], w)
      PROVE  AllBecome /\ Kept
  BY <1>1, <1>3, <1>4, <1>6, HandlerBecomes, KeptPlainly DEF Becomes
<1>7. ASSUME ResetConnection(t, c, f.obj) PROVE AllBecome /\ Kept
  BY <1>1, <1>3, <1>4, <1>5, <1>7, ResetBecomes, KeptPlainly
<1>8. CASE f.status = "AGAIN"
  BY <1>2, <1>5, <1>6, <1>8
<1>9. CASE f.status = "UPGRADE"
  BY <1>2, <1>5, <1>6, <1>9
<1>10. CASE f.status \notin {"AGAIN", "UPGRADE"}
  BY <1>2, <1>7, <1>10
<1> QED
  BY <1>8, <1>9, <1>10

LEMMA TakeKeeps ==
    ASSUME IInv, TakeTask \/ TakeFrame \/ Subscribe
    PROVE  AllBecome /\ Kept
<1>1. /\ UNCHANGED <<conn, chat_que, task, targets, audience, clients_map_>>
      /\ \E t \in {"worker", "ws"}, label \in {"run", "insert"} : \E c : Goto(t, label, c)
  BY DEF TakeTask, TakeFrame, Subscribe, taskVars, roomVars
<1>2. pc'["task"] = pc["task"] /\ hand'["task"] = hand["task"]
  BY <1>1, GotoKeeps, ThreadsAre
<1> QED
  BY <1>1, <1>2, NoneBecomes, KeptPlainly

LEMMA InsertKeeps ==
    ASSUME IInv, Insert
    PROVE  AllBecome /\ Kept
<1> DEFINE c == hand["worker"]
           room == req[c].room
<1>1. /\ UNCHANGED <<conn, chat_que, task, targets, audience>>
      /\ clients_map_' = [clients_map_ EXCEPT ![room] = clients_map_[room] \cup {c}]
      /\ Goto("worker", "flush", c)
  BY DEF Insert, taskVars
<1>2. pc'["task"] = pc["task"] /\ hand'["task"] = hand["task"]
  BY <1>1, GotoKeeps, ThreadsAre
<1>3. \A any \in Room : clients_map_[any] \subseteq clients_map_'[any]
  BY <1>1 DEF IInv, RoomTypeOK
<1> QED
  BY <1>1, <1>2, <1>3, NoneBecomes DEF Kept

LEMMA RunTaskKeeps ==
    ASSUME IInv, RunTask
    PROVE  AllBecome /\ Kept
<1> DEFINE c == hand["worker"]
           r == conn[c]
           page == WriteErrorMessage(r, <<"page", 0>>)
           upgrade == Write([r EXCEPT !.status = "UPGRADE"], <<"handshake", 0>>)
<1>1. /\ pc["worker"] = "run"
      /\ UNCHANGED <<chat_que, task, targets, audience, clients_map_>>
  BY DEF RunTask, taskVars, roomVars
<1>2. "worker" \in Thread \ {"task"} /\ c \in Conn /\ Good(r)
  BY <1>1, AllGood, ThreadsAre DEF IInv, Core, ThreadTypeOK
<1>3. \/ Release("worker", c, r)
      \/ r.fd # NULL /\ \E label, w :
             /\ Hold("worker", label, c, w)
             /\ w \in {r, upgrade, Respond(r, TRUE), Respond(r, FALSE), Respond(page, FALSE)}
  BY DEF RunTask, Open
<1>4. r.fd # NULL =>
          \A w \in {r, upgrade, Respond(r, TRUE), Respond(r, FALSE), Respond(page, FALSE)} :
              Quiet(r, w)
  BY <1>2, QuietUpdates, QuietUpgrade, QuietRespond, QuietPage
<1> HIDE DEF c, page, upgrade
<1> QED
  BY <1>1, <1>2, <1>3, <1>4, HandlerBecomes, KeptPlainly, QuietUpdates DEF Becomes

LEMMA RunFrameKeeps ==
    ASSUME IInv, RunFrame
    PROVE  AllBecome /\ Kept
<1> DEFINE c == hand["ws"]
           r == conn[c]
<1>1. /\ pc["ws"] = "run"
      /\ UNCHANGED <<chat_que, task, targets, audience, clients_map_>>
  BY DEF RunFrame, taskVars, roomVars
<1>2. "ws" \in Thread \ {"task"} /\ c \in Conn /\ Good(r)
  BY <1>1, AllGood, ThreadsAre DEF IInv, Core, ThreadTypeOK
<1>3. \/ Release("ws", c, r)
      \/ \E label : Hold("ws", label, c, r) \/ Hold("ws", label, c, Answer(r, frame))
  BY DEF RunFrame
<1>4. Quiet(r, r) /\ Quiet(r, Answer(r, frame))
  BY <1>2, QuietUpdates, QuietAnswer
<1> HIDE DEF c
<1> QED
  BY <1>1, <1>2, <1>3, <1>4, HandlerBecomes, KeptPlainly DEF Becomes

-----------------------------------------------------------------------------
(* OInv is kept.                                                           *)

\* The messages in a stream were there before.
LEMMA OldMessage ==
    ASSUME NEW r, Good(r), NEW w, Good(w), Becomes(r, w),
           NEW i \in DOMAIN Stream(w), IsMessage(Stream(w)[i])
    PROVE  i \in DOMAIN Stream(r) /\ Stream(w)[i] = Stream(r)[i]
<1>1. CASE Quiet(r, w)
  BY <1>1, StreamBytes DEF Quiet
<1>2. CASE w = Fresh
  BY <1>2, FreshStream
<1> QED
  BY <1>1, <1>2 DEF Becomes

LEMMA GetsKept ==
    ASSUME NEW r, Good(r), NEW w, Good(w), NEW n, Gets(r, n),
           Len(Stream(r)) <= Len(Stream(w)),
           \A i \in 1..Len(Stream(r)) : Stream(w)[i] = Stream(r)[i]
    PROVE  Gets(w, n)
<1>1. PICK i, j \in 1..Len(Stream(r)) :
          /\ i < j /\ Stream(r)[i][1] = <<"handshake", 0>>
          /\ Stream(r)[j][1] = <<"message", n>>
  BY StreamBytes DEF Gets
<1>2. i \in DOMAIN Stream(w) /\ j \in DOMAIN Stream(w)
  BY StreamBytes
<1> QED
  BY <1>1, <1>2 DEF Gets

LEMMA StreamsKept ==
    ASSUME IInv, IInv', AllBecome, HandshakeFirst, InOrder
    PROVE  HandshakeFirst' /\ InOrder'
<1> SUFFICES ASSUME NEW c \in Conn
             PROVE  /\ Upgraded(conn'[c]) => Shaken(Stream(conn'[c]))
                    /\ Ordered(Stream(conn'[c]))
  BY DEF HandshakeFirst, InOrder
<1> DEFINE r == conn[c]
           w == conn'[c]
<1>1. Good(r) /\ Good(w) /\ Becomes(r, w)
  BY AllGood DEF AllBecome, IInv, Core, ObjectTypeOK, StreamIsWhole, Good
<1>2. Ordered(Stream(r)) /\ (Upgraded(r) => Shaken(Stream(r)))
  BY DEF HandshakeFirst, InOrder
<1> HIDE DEF r, w
<1>3. Ordered(Stream(w))
  BY <1>1, <1>2, OldMessage DEF Ordered
<1>4. CASE Quiet(r, w)
  <2>1. ASSUME Shaken(Stream(r)) PROVE Shaken(Stream(w))
    <3>1. PICK i \in 1..Len(Stream(r)) : Stream(r)[i][1] = <<"handshake", 0>>
      BY <1>1, <2>1, StreamBytes DEF Shaken
    <3>2. i \in DOMAIN Stream(w) /\ Stream(w)[i] = Stream(r)[i]
      BY <1>1, <1>4, StreamBytes DEF Quiet
    <3> QED
      BY <3>1, <3>2 DEF Shaken
  <2> QED
    BY <1>2, <1>3, <1>4, <2>1 DEF Quiet, r, w
<1>5. CASE w = Fresh
  BY <1>3, <1>5, GoodFresh DEF w
<1> QED
  BY <1>1, <1>4, <1>5 DEF Becomes

\* What the proofs below need to know of the types.
LEMMA OrderTypes ==
    ASSUME IInv
    PROVE  /\ chat_que \in Seq(Message) /\ DOMAIN chat_que = 1..Len(chat_que)
           /\ Len(chat_que) \in Nat /\ Len(audience) \in Nat
           /\ audience \in Seq(SUBSET Client) /\ DOMAIN audience = 1..Len(audience)
           /\ \A i \in DOMAIN chat_que : chat_que[i].n \in Nat /\ chat_que[i].room \in Room
           /\ Working => task.n \in Nat /\ task.room \in Room /\ task \in Message
           /\ pc["task"] \in {"idle", "lookup", "write"}
           /\ pc["task"] = "write" => hand["task"] \in Conn
           /\ targets \subseteq Conn
<1>1. chat_que \in Seq(Message) /\ audience \in Seq(SUBSET Client)
  BY DEF IInv, ChatTypeOK
<1>2. \A m \in Message : m.n \in Nat /\ m.room \in Room
  BY ChatBounds DEF Message
<1>3. \A i \in DOMAIN chat_que : chat_que[i] \in Message
  BY <1>1
<1>4. pc["task"] \in {"idle", "lookup", "write"} /\ (pc["task"] = "write" => hand["task"] \in Conn)
  BY ThreadsAre DEF IInv, Core, ThreadTypeOK
<1>5. Working => task \in Message
  BY DEF IInv, TaskTypeOK, Working
<1> QED
  BY <1>1, <1>2, <1>3, <1>4, <1>5 DEF IInv, TaskTypeOK

LEMMA KeptStep ==
    ASSUME IInv, IInv', OInv, AllBecome, Kept
    PROVE  OInv'
<1> USE DEF OInv
<1>1. HandshakeFirst' /\ InOrder'
  BY StreamsKept
<1>2. /\ chat_que' = chat_que /\ task' = task /\ targets' = targets
      /\ pc'["task"] = pc["task"] /\ hand'["task"] = hand["task"]
      /\ Len(audience') = Len(audience) /\ DOMAIN audience' = DOMAIN audience
      /\ \A n \in DOMAIN audience : audience'[n] \subseteq audience[n]
  <2>1. DOMAIN audience' = 1..Len(audience') /\ DOMAIN audience = 1..Len(audience)
    BY DEF IInv, ChatTypeOK
  <2> QED
    BY <2>1 DEF Kept
<1>3. (Working' <=> Working) /\ Waiting' = Waiting
  BY <1>2 DEF Working, Waiting
<1>4. Numbers'
  BY <1>2, <1>3 DEF Numbers
<1>5. \A c \in Conn, n \in Nat : MayHave(c, n)' <=> MayHave(c, n)
  BY <1>2, <1>3 DEF MayHave
<1>6. NumbersSent'
  <2> SUFFICES ASSUME NEW c \in Conn, NEW i \in DOMAIN Stream(conn'[c]),
                      IsMessage(Stream(conn'[c])[i]),
                      NEW x, x = Number(Stream(conn'[c])[i])
               PROVE  MayHave(c, x)'
    BY DEF NumbersSent
  <2>1. i \in DOMAIN Stream(conn[c]) /\ Stream(conn'[c])[i] = Stream(conn[c])[i]
    BY OldMessage, AllGood DEF AllBecome, IInv, Core, ObjectTypeOK, StreamIsWhole, Good
  <2>2. MayHave(c, x)
    BY <2>1 DEF NumbersSent
  <2> QED
    BY <1>2, <1>3, <2>1, <2>2 DEF MayHave
<1>7. Served'
  <2> SUFFICES ASSUME NEW n \in DOMAIN audience', NEW k \in audience'[n]
               PROVE  \E c \in Conn : conn'[c].fd = k /\ Upgraded(conn'[c]) /\ WillGet(c, n)'
    BY DEF Served
  <2>1. n \in DOMAIN audience /\ k \in audience[n] /\ k # NULL
    BY <1>2, OrderTypes, NoClientAssumption
  <2>2. PICK c \in Conn : conn[c].fd = k /\ Upgraded(conn[c]) /\ WillGet(c, n)
    BY <2>1 DEF Served
  <2>3. Quiet(conn[c], conn'[c])
    BY <2>2 DEF AllBecome, Becomes
  <2>4. Gets(conn[c], n) => Gets(conn'[c], n)
    BY <2>3, AllGood, GetsKept DEF Quiet, IInv, Core, ObjectTypeOK, StreamIsWhole, Good
  <2>5. \A room \in Room : c \in clients_map_[room] => c \in clients_map_'[room]
    BY <2>1, <2>2 DEF Kept
  <2>6. Done(n)' => Done(n)
    BY <1>2 DEF Done
  <2>7. WillGet(c, n)'
    <3>1. \A i \in DOMAIN chat_que :
              chat_que[i].n = n => c \in clients_map_'[chat_que[i].room]
      BY <2>2, <2>5, OrderTypes DEF WillGet
    <3>2. Working /\ task.n = n =>
              IF pc["task"] = "lookup" THEN c \in clients_map_'[task.room]
              ELSE c \in Waiting \/ Gets(conn'[c], n)
      BY <2>2, <2>4, <2>5, OrderTypes DEF WillGet
    <3> QED
      BY <1>2, <1>3, <2>2, <2>4, <2>6, <3>1, <3>2 DEF WillGet
  <2> QED
    BY <2>1, <2>2, <2>3, <2>7 DEF Quiet
<1> QED
  BY <1>1, <1>4, <1>6, <1>7

\* A new message has the highest number, and its audience is in its room.
LEMMA PushStep ==
    ASSUME IInv, IInv', OInv, \A c \in Conn : Quiet(conn[c], conn'[c]),
           NEW room \in Room, TaskPush(room), UNCHANGED <<task, targets, clients_map_>>,
           pc'["task"] = pc["task"], hand'["task"] = hand["task"]
    PROVE  OInv'
<1> USE DEF OInv
<1> DEFINE m == Len(audience) + 1
           message == [n |-> m, room |-> room]
           l == Len(chat_que)
<1>1. HandshakeFirst' /\ InOrder'
  BY StreamsKept DEF AllBecome, Becomes
<1>2. /\ chat_que' = Append(chat_que, message)
      /\ audience' = Append(audience, {conn[c].fd : c \in clients_map_[room]})
  BY DEF TaskPush
<1>3. /\ Len(audience') = m /\ DOMAIN audience' = 1..m /\ m \in Nat
      /\ audience'[m] = {conn[c].fd : c \in clients_map_[room]}
      /\ \A n \in 1..Len(audience) : audience'[n] = audience[n]
      /\ DOMAIN audience = 1..Len(audience)
  BY <1>2, OrderTypes
<1>4. /\ DOMAIN chat_que' = 1..(l + 1) /\ l \in Nat /\ DOMAIN chat_que = 1..l
      /\ chat_que'[l + 1] = message
      /\ \A i \in 1..l : chat_que'[i] = chat_que[i]
      /\ \A i \in 1..l : chat_que[i].n \in Nat /\ chat_que[i].n < m
  BY <1>2, OrderTypes DEF Numbers
<1>5. message.n = m /\ message.room = room
  OBVIOUS
<1>6. Working => task.n \in Nat /\ task.n < m
  BY OrderTypes DEF Numbers
<1>7. (Working' <=> Working) /\ Waiting' = Waiting
  BY DEF Working, Waiting
<1> HIDE DEF m, message, l
<1>8. Numbers'
  <2>1. \A i \in 1..(l + 1) :
            /\ chat_que'[i].n <= m
            /\ Working => task.n < chat_que'[i].n
            /\ \A j \in 1..(l + 1) : i < j => chat_que'[i].n < chat_que'[j].n
    <3>1. \A i \in 1..l : Working => task.n < chat_que[i].n
      BY <1>4 DEF Numbers
    <3>2. \A i, j \in 1..l : i < j => chat_que[i].n < chat_que[j].n
      BY <1>4 DEF Numbers
    <3>3. \A i \in 1..(l + 1) : i \in 1..l \/ i = l + 1
      BY <1>4
    <3>4. \A i \in 1..(l + 1) : chat_que'[i].n <= m
      BY <1>3, <1>4, <1>5, <3>3
    <3>5. Working => \A i \in 1..(l + 1) : task.n < chat_que'[i].n
      BY <1>4, <1>5, <1>6, <3>1, <3>3
    <3>6. ASSUME NEW i \in 1..(l + 1), NEW j \in 1..(l + 1), i < j
          PROVE  chat_que'[i].n < chat_que'[j].n
      <4>1. i \in 1..l
        BY <1>4, <3>3, <3>6
      <4>2. CASE j \in 1..l
        BY <1>4, <3>2, <3>6, <4>1, <4>2
      <4>3. CASE j = l + 1
        BY <1>4, <1>5, <4>1, <4>3
      <4> QED
        BY <3>3, <4>2, <4>3
    <3> QED
      BY <3>4, <3>5, <3>6
  <2>2. Working => task.n <= m
    BY <1>3, <1>6
  <2> QED
    BY <1>3, <1>4, <1>7, <2>1, <2>2 DEF Numbers, Working
<1>9. NumbersSent'
  <2> SUFFICES ASSUME NEW c \in Conn, NEW i \in DOMAIN Stream(conn'[c]),
                      IsMessage(Stream(conn'[c])[i]),
                      NEW x, x = Number(Stream(conn'[c])[i])
               PROVE  MayHave(c, x)'
    BY DEF NumbersSent
  <2>1. i \in DOMAIN Stream(conn[c]) /\ Stream(conn'[c])[i] = Stream(conn[c])[i]
    BY OldMessage, AllGood DEF Becomes, IInv, Core, ObjectTypeOK, StreamIsWhole, Good
  <2>2. MayHave(c, x)
    BY <2>1 DEF NumbersSent
  <2>3. x \in Nat
    <3>1. Stream(conn[c])[i] \in Bytes /\ IsMessage(Stream(conn[c])[i])
      BY <2>1, AllGood, StreamBytes
    <3> QED
      BY <2>1, <3>1, ChatBounds DEF Bytes, IsMessage, Number
  <2>4. x <= m /\ x < m
    BY <1>3, <2>2, <2>3, OrderTypes DEF MayHave, m
  <2> QED
    BY <1>3, <1>4, <1>5, <1>7, <2>2, <2>4 DEF MayHave
<1>10. Served'
  <2> SUFFICES ASSUME NEW n \in 1..m, NEW k \in audience'[n]
               PROVE  \E c \in Conn : conn'[c].fd = k /\ Upgraded(conn'[c]) /\ WillGet(c, n)'
    BY <1>3 DEF Served
  <2>1. CASE n # m
    <3>1. n \in DOMAIN audience /\ k \in audience[n] /\ k # NULL
      BY <1>3, <2>1, OrderTypes, NoClientAssumption DEF m
    <3>2. PICK c \in Conn : conn[c].fd = k /\ Upgraded(conn[c]) /\ WillGet(c, n)
      BY <3>1 DEF Served
    <3>3. Gets(conn[c], n) => Gets(conn'[c], n)
      BY AllGood, GetsKept DEF Quiet, IInv, Core, ObjectTypeOK, StreamIsWhole, Good
    <3>4. Done(n)' => Done(n)
      BY <1>4, <3>1 DEF Done
    <3>5. WillGet(c, n)'
      BY <1>4, <1>5, <1>7, <2>1, <3>2, <3>3, <3>4 DEF WillGet
    <3> QED
      BY <3>1, <3>2, <3>5 DEF Quiet
  <2>2. CASE n = m
    <3>1. PICK c \in clients_map_[room] : conn[c].fd = k
      BY <1>3, <2>2
    <3>2. c \in Conn /\ conn[c].fd # NULL /\ Upgraded(conn[c])
      BY DEF IInv, Members, Open, RoomTypeOK
    <3>3. ~Done(n)'
      BY <1>4, <1>5, <2>2 DEF Done
    <3>4. \A i \in 1..(l + 1) : chat_que'[i].n = n => i = l + 1
      BY <1>3, <1>4, <2>2
    <3>5. ~(Working /\ task.n = n)
      BY <1>3, <1>6, <2>2
    <3>6. WillGet(c, n)'
      BY <1>4, <1>5, <1>7, <3>3, <3>4, <3>5 DEF WillGet
    <3> QED
      BY <3>1, <3>2, <3>6 DEF Quiet
  <2> QED
    BY <2>1, <2>2
<1> QED
  BY <1>1, <1>8, <1>9, <1>10

LEMMA PublishKeeps ==
    ASSUME IInv, IInv', OInv, Publish
    PROVE  OInv'
<1> DEFINE c == hand["worker"]
           w == Respond(conn[c], TRUE)
<1>1. /\ pc["worker"] = "publish" /\ TaskPush(req[c].room) /\ Hold("worker", "flush", c, w)
      /\ UNCHANGED <<task, targets, clients_map_>>
  BY DEF Publish, roomVars
<1>2. "worker" \in Thread \ {"task"} /\ Busy("worker")
  BY <1>1, ThreadsAre DEF Busy
<1>3. /\ c \in Conn /\ conn[c].fd # NULL /\ Good(conn[c])
      /\ req[c] # NULL /\ req[c].handler = "publish"
  BY <1>1, <1>2, HandIs DEF HandOf
<1>4. req[c].room \in Room
  BY <1>3 DEF IInv, Core, ObjectTypeOK, Request
<1>5. Quiet(conn[c], w)
  BY <1>3, QuietRespond
<1> HIDE DEF c, w
<1>6. \A d \in Conn : Quiet(conn[d], conn'[d])
  <2>1. \A d \in Conn : conn'[d] = IF d = c THEN w ELSE conn[d]
    BY <1>1, <1>3 DEF Hold, IInv, Core, ObjectTypeOK
  <2> QED
    BY <1>5, <2>1, AllGood, QuietUpdates
<1>7. pc'["task"] = pc["task"] /\ hand'["task"] = hand["task"]
  BY <1>1, <1>2, GotoKeeps DEF Hold
<1> QED
  BY <1>1, <1>4, <1>6, <1>7, PushStep

LEMMA PostKeeps ==
    ASSUME IInv, IInv', OInv, Post
    PROVE  OInv'
<1> DEFINE c == hand["ws"]
<1>1. /\ pc["ws"] = "post" /\ Goto("ws", "flush", c)
      /\ UNCHANGED <<conn, task, targets, clients_map_>>
      /\ \/ Found(c) /\ TaskPush(channel_index_map_[c])
         \/ UNCHANGED <<chat_que, audience>>
  BY DEF Post, roomVars
<1>2. "ws" \in Thread \ {"task"} /\ c \in Conn
  BY <1>1, ThreadsAre, HandIs DEF Busy
<1> HIDE DEF c
<1>3. pc'["task"] = pc["task"] /\ hand'["task"] = hand["task"]
  BY <1>1, <1>2, GotoKeeps
<1>4. CASE Found(c) /\ TaskPush(channel_index_map_[c])
  <2>1. channel_index_map_[c] \in Room
    BY <1>2, <1>4 DEF Found, IInv, RoomTypeOK
  <2>2. \A d \in Conn : Quiet(conn[d], conn'[d])
    BY <1>1, AllGood, QuietUpdates
  <2> QED
    BY <1>1, <1>3, <1>4, <2>1, <2>2, PushStep
<1>5. CASE UNCHANGED <<chat_que, audience>>
  BY <1>1, <1>3, <1>5, NoneBecomes, KeptPlainly, KeptStep
<1> QED
  BY <1>1, <1>4, <1>5

\* The first message of the queue becomes the one in hand.
LEMMA TakeMessageOrder ==
    ASSUME IInv, IInv', OInv, TakeMessage
    PROVE  OInv'
<1> USE DEF OInv
<1> DEFINE l == Len(chat_que)
<1>1. /\ pc["task"] = "idle" /\ chat_que # <<>> /\ task' = chat_que[1]
      /\ chat_que' = Tail(chat_que) /\ pc'["task"] = "lookup"
      /\ UNCHANGED <<conn, audience, clients_map_, targets>>
  <2>1. /\ pc["task"] = "idle" /\ chat_que # <<>> /\ task' = Head(chat_que)
        /\ chat_que' = Tail(chat_que) /\ Goto("task", "lookup", NULL)
        /\ UNCHANGED <<conn, audience, clients_map_, targets>>
    BY DEF TakeMessage, Pop, roomVars
  <2>2. pc'["task"] = "lookup"
    BY <2>1, ThreadsAre DEF Goto, IInv, Core, ThreadTypeOK
  <2> QED
    BY <2>1, <2>2, OrderTypes
<1>2. /\ l \in Nat /\ l >= 1 /\ DOMAIN chat_que = 1..l /\ DOMAIN chat_que' = 1..(l - 1)
      /\ \A i \in 1..(l - 1) : chat_que'[i] = chat_que[i + 1] /\ i + 1 \in 1..l
      /\ \A i \in 1..l : chat_que[i].n \in Nat
  BY <1>1, OrderTypes
<1>3. task' \in Message /\ task' # NULL /\ task = NULL
  BY <1>1, OrderTypes, MessageAssumption DEF Numbers, Working
<1>4. ~Working /\ Working' /\ Waiting = {} /\ Waiting' = {} /\ pc'["task"] # "write"
  BY <1>1 DEF Working, Waiting
<1> HIDE DEF l
<1>5. HandshakeFirst' /\ InOrder'
  BY <1>1, NoneBecomes, StreamsKept
<1>6. \A i, j \in 1..l : i < j => chat_que[i].n < chat_que[j].n
  BY <1>2 DEF Numbers
<1>7. \A i \in 1..(l - 1) : task'.n < chat_que'[i].n
  BY <1>1, <1>2, <1>6
<1>8. \A i \in 1..l : chat_que[i].n <= Len(audience)
  BY <1>2 DEF Numbers
<1>9. Numbers'
  <2>1. task'.n <= Len(audience')
    BY <1>1, <1>2, <1>8
  <2>2. \A i \in 1..(l - 1) :
            /\ chat_que'[i].n <= Len(audience')
            /\ \A j \in 1..(l - 1) : i < j => chat_que'[i].n < chat_que'[j].n
    <3>1. ASSUME NEW i \in 1..(l - 1) PROVE chat_que'[i].n <= Len(audience')
      BY <1>1, <1>2, <1>8
    <3>2. ASSUME NEW i \in 1..(l - 1), NEW j \in 1..(l - 1), i < j
          PROVE  chat_que'[i].n < chat_que'[j].n
      <4>1. i + 1 \in 1..l /\ j + 1 \in 1..l /\ i + 1 < j + 1
        BY <1>2, <3>2
      <4> QED
        BY <1>2, <1>6, <4>1
    <3> QED
      BY <3>1, <3>2
  <2> QED
    BY <1>2, <1>3, <1>4, <1>7, <2>1, <2>2 DEF Numbers
<1>10. NumbersSent'
  <2> SUFFICES ASSUME NEW c \in Conn, NEW i \in DOMAIN Stream(conn[c]),
                      IsMessage(Stream(conn[c])[i]),
                      NEW x, x = Number(Stream(conn[c])[i])
               PROVE  MayHave(c, x)'
    BY <1>1 DEF NumbersSent
  <2>1. MayHave(c, x)
    BY DEF NumbersSent
  <2>2. x \in Nat
    <3>1. Stream(conn[c])[i] \in Bytes
      BY AllGood, StreamBytes
    <3> QED
      BY <3>1, ChatBounds DEF Bytes, IsMessage, Number
  <2>3. x < task'.n
    BY <1>1, <1>2, <2>1 DEF MayHave
  <2>4. \A j \in 1..(l - 1) : x < chat_que'[j].n
    BY <1>2, <2>1 DEF MayHave
  <2>5. x <= task'.n /\ x <= Len(audience')
    BY <1>1, <1>2, <2>1, <2>2, <2>3 DEF MayHave
  <2> QED
    BY <1>2, <2>3, <2>4, <2>5 DEF MayHave
<1>11. Served'
  <2> SUFFICES ASSUME NEW n \in DOMAIN audience, NEW k \in audience[n]
               PROVE  \E c \in Conn : conn[c].fd = k /\ Upgraded(conn[c]) /\ WillGet(c, n)'
    BY <1>1 DEF Served
  <2>1. PICK c \in Conn : conn[c].fd = k /\ Upgraded(conn[c]) /\ WillGet(c, n)
    BY DEF Served
  <2>2. Done(n)' => Done(n)
    <3> SUFFICES ASSUME Done(n)', NEW i \in 1..l PROVE chat_que[i].n # n
      BY <1>2, <1>3 DEF Done
    <3>1. CASE i = 1
      BY <1>1, <1>3, <3>1 DEF Done
    <3>2. CASE i # 1
      <4>1. i - 1 \in 1..(l - 1) /\ chat_que'[i - 1] = chat_que[(i - 1) + 1]
        BY <1>2, <3>2
      <4> QED
        BY <1>2, <4>1 DEF Done
    <3> QED
      BY <3>1, <3>2
  <2>3. task'.n = n => c \in clients_map_[task'.room]
    BY <1>1, <1>2, <2>1 DEF WillGet
  <2>4. \A i \in 1..(l - 1) : chat_que'[i].n = n => c \in clients_map_[chat_que'[i].room]
    BY <1>2, <2>1 DEF WillGet
  <2>5. Gets(conn[c], n)' <=> Gets(conn[c], n)
    BY <1>1 DEF Gets
  <2>6. WillGet(c, n)'
    BY <1>1, <1>2, <2>1, <2>2, <2>3, <2>4, <2>5 DEF WillGet
  <2> QED
    BY <2>1, <2>6
<1> QED
  BY <1>5, <1>9, <1>10, <1>11

LEMMA NextTargetIs ==
    ASSUME IInv, NEW rest \in SUBSET Conn, NextTarget(rest)
    PROVE  \/ rest = {} /\ pc'["task"] = "idle" /\ task' = NULL /\ targets' = {}
           \/ /\ pc'["task"] = "write" /\ task' = task
              /\ targets' \cup {hand'["task"]} = rest /\ hand'["task"] \notin targets'
<1>1. \A label, c : Goto("task", label, c) => pc'["task"] = label /\ hand'["task"] = c
  BY ThreadsAre DEF Goto, IInv, Core, ThreadTypeOK
<1>2. CASE rest = {}
  BY <1>1, <1>2 DEF NextTarget
<1>3. CASE rest # {}
  <2>1. PICK c \in rest : Goto("task", "write", c) /\ targets' = rest \ {c} /\ task' = task
    BY <1>3 DEF NextTarget
  <2> QED
    BY <1>1, <2>1
<1> QED
  BY <1>2, <1>3

\* TaskThread goes on to the members in rest.  All who are still to get the
\* message are among them.
LEMMA TargetOrder ==
    ASSUME IInv, IInv', OInv, NEW rest \in SUBSET Conn, NextTarget(rest),
           pc["task"] \in {"lookup", "write"},
           UNCHANGED <<chat_que, audience, clients_map_>>,
           HandshakeFirst', InOrder',
           \A c \in Conn : conn'[c].fd = conn[c].fd /\ (Upgraded(conn[c]) => Upgraded(conn'[c])),
           \A c \in Conn, n \in Nat : Gets(conn[c], n) => Gets(conn'[c], n),
           \A c \in Conn : \A i : i \in DOMAIN Stream(conn'[c]) /\ IsMessage(Stream(conn'[c])[i]) =>
               LET x == Number(Stream(conn'[c])[i])
               IN  /\ x \in Nat /\ x <= task.n /\ x <= Len(audience)
                   /\ \A j \in DOMAIN chat_que : x < chat_que[j].n
                   /\ c \in rest => x < task.n,
           \A c \in Conn :
               conn[c].fd # NULL /\ Upgraded(conn[c]) /\ WillGet(c, task.n)
               => c \in rest \/ Gets(conn'[c], task.n)
    PROVE  OInv'
<1> USE DEF OInv
<1>1. Working /\ task \in Message /\ task.n \in Nat /\ task # NULL
  BY OrderTypes DEF Working, Numbers
<1>2. \/ rest = {} /\ pc'["task"] = "idle" /\ task' = NULL /\ targets' = {}
      \/ /\ pc'["task"] = "write" /\ task' = task
         /\ targets' \cup {hand'["task"]} = rest /\ hand'["task"] \notin targets'
  BY NextTargetIs
<1>3. Waiting' = rest /\ pc'["task"] # "lookup"
  BY <1>2 DEF Waiting
<1>4. Working' => task' = task
  BY <1>2 DEF Working
<1>5. Numbers'
  <2>1. task' = NULL <=> ~Working'
    BY <1>1, <1>2 DEF Working
  <2>2. pc'["task"] = "write" => hand'["task"] \notin targets'
    BY <1>2
  <2> QED
    BY <1>1, <1>4, <2>1, <2>2 DEF Numbers
<1>6. NumbersSent'
  <2> SUFFICES ASSUME NEW c \in Conn, NEW i \in DOMAIN Stream(conn'[c]),
                      IsMessage(Stream(conn'[c])[i]),
                      NEW x, x = Number(Stream(conn'[c])[i])
               PROVE  MayHave(c, x)'
    BY DEF NumbersSent
  <2>1. /\ x <= task.n /\ x <= Len(audience) /\ (c \in rest => x < task.n)
        /\ \A j \in DOMAIN chat_que : x < chat_que[j].n
    OBVIOUS
  <2>2. c \in rest => Working'
    BY <1>2 DEF Working
  <2> QED
    BY <1>3, <1>4, <2>1, <2>2 DEF MayHave
<1>7. Served'
  <2> SUFFICES ASSUME NEW n \in DOMAIN audience, NEW k \in audience[n]
               PROVE  \E c \in Conn : conn'[c].fd = k /\ Upgraded(conn'[c]) /\ WillGet(c, n)'
    BY DEF Served
  <2>1. n \in Nat /\ k # NULL
    BY OrderTypes, NoClientAssumption
  <2>2. PICK c \in Conn : conn[c].fd = k /\ Upgraded(conn[c]) /\ WillGet(c, n)
    BY DEF Served
  <2>3. \A i \in DOMAIN chat_que : chat_que[i].n = n => c \in clients_map_[chat_que[i].room]
    BY <2>2 DEF WillGet
  <2>4. task.n = n => c \in rest \/ Gets(conn'[c], n)
    BY <2>1, <2>2
  <2>5. Done(n)' => task.n = n \/ Done(n)
    BY DEF Done
  <2>6. Done(n)' /\ task.n = n => ~Working'
    BY <1>1, <1>4, OrderTypes DEF Done, Working, Numbers
  <2>7. ~Working' => rest = {}
    BY <1>2 DEF Working
  <2>8. Done(n)' => Gets(conn'[c], n)
    BY <2>1, <2>2, <2>4, <2>5, <2>6, <2>7 DEF WillGet
  <2>9. Working' /\ task.n = n => c \in Waiting' \/ Gets(conn'[c], n)
    BY <1>3, <2>4
  <2>10. WillGet(c, n)'
    BY <1>3, <1>4, <2>3, <2>8, <2>9 DEF WillGet
  <2> QED
    BY <2>2, <2>10
<1> QED
  BY <1>5, <1>6, <1>7

LEMMA LookupOrder ==
    ASSUME IInv, IInv', OInv, Lookup
    PROVE  OInv'
<1> USE DEF OInv
<1> DEFINE rest == clients_map_[task.room]
<1>1. /\ pc["task"] = "lookup" /\ NextTarget(rest)
      /\ UNCHANGED <<conn, chat_que, audience, clients_map_>>
  BY DEF Lookup, roomVars
<1>2. Working /\ task.n \in Nat /\ rest \in SUBSET Conn
  BY <1>1, OrderTypes DEF Working, IInv, RoomTypeOK
<1>3. HandshakeFirst' /\ InOrder'
  BY <1>1, NoneBecomes, StreamsKept
<1>4. ASSUME NEW c \in Conn, NEW i, i \in DOMAIN Stream(conn[c]), IsMessage(Stream(conn[c])[i]),
             NEW x, x = Number(Stream(conn[c])[i])
      PROVE  /\ x \in Nat /\ x < task.n /\ x <= Len(audience)
             /\ \A j \in DOMAIN chat_que : x < chat_que[j].n
  <2>1. MayHave(c, x)
    BY <1>4 DEF NumbersSent
  <2>2. Stream(conn[c])[i] \in Bytes
    BY <1>4, AllGood, StreamBytes
  <2>3. x \in Nat
    BY <1>4, <2>2, ChatBounds DEF Bytes, IsMessage, Number
  <2> QED
    BY <1>1, <1>2, <2>1, <2>3 DEF MayHave
<1>5. \A c \in Conn : WillGet(c, task.n) => c \in rest
  BY <1>1, <1>2 DEF WillGet
<1> HIDE DEF rest
<1>6. ASSUME NEW c \in Conn, NEW i, i \in DOMAIN Stream(conn'[c]), IsMessage(Stream(conn'[c])[i])
      PROVE  LET x == Number(Stream(conn'[c])[i])
             IN  /\ x \in Nat /\ x <= task.n /\ x <= Len(audience)
                 /\ \A j \in DOMAIN chat_que : x < chat_que[j].n
                 /\ c \in rest => x < task.n
  <2> DEFINE x == Number(Stream(conn[c])[i])
  <2>1. conn' = conn
    BY <1>1
  <2>2. x \in Nat /\ x < task.n /\ x <= Len(audience) /\ \A j \in DOMAIN chat_que : x < chat_que[j].n
    BY <1>4, <1>6, <2>1
  <2> HIDE DEF x
  <2>3. x <= task.n
    BY <1>2, <2>2
  <2> QED
    BY <2>1, <2>2, <2>3 DEF x
<1>7. /\ \A c \in Conn : conn'[c].fd = conn[c].fd /\ (Upgraded(conn[c]) => Upgraded(conn'[c]))
      /\ \A c \in Conn, n \in Nat : Gets(conn[c], n) => Gets(conn'[c], n)
  BY <1>1
<1> QED
  BY <1>1, <1>2, <1>3, <1>5, <1>6, <1>7, TargetOrder

\* A message with a higher number than those before keeps a stream in order.
LEMMA OrderedAndMore ==
    ASSUME NEW s, NEW t, NEW n \in Nat, NEW l \in Nat, DOMAIN s = 1..l, DOMAIN t = 1..(l + Units),
           Ordered(s),
           \A i \in 1..l : t[i] = s[i] /\ (IsMessage(s[i]) => Number(s[i]) < n),
           \A j \in 1..Units : t[l + j] = <<<<"message", n>>, j>>
    PROVE  Ordered(t)
<1> SUFFICES ASSUME NEW i \in 1..(l + Units), NEW j \in 1..(l + Units), i < j,
                    IsMessage(t[i]), IsMessage(t[j])
             PROVE  \/ Number(t[i]) < Number(t[j])
                    \/ t[i][1] = t[j][1] /\ t[i][2] < t[j][2]
  BY DEF Ordered
<1>1. Units \in Nat
  BY UnitsAssumption
<1>2. CASE j <= l
  <2>1. i \in 1..l /\ j \in 1..l
    BY <1>1, <1>2
  <2> QED
    BY <2>1 DEF Ordered
<1>3. CASE j > l
  <2>1. j - l \in 1..Units /\ l + (j - l) = j
    BY <1>1, <1>3
  <2>2. t[j] = <<<<"message", n>>, j - l>>
    BY <2>1
  <2>3. CASE i <= l
    <3>1. i \in 1..l /\ t[i] = s[i] /\ Number(s[i]) < n
      BY <2>3
    <3> QED
      BY <2>2, <3>1 DEF Number
  <2>4. CASE i > l
    <3>1. i - l \in 1..Units /\ l + (i - l) = i
      BY <1>1, <2>4
    <3>2. t[i] = <<<<"message", n>>, i - l>>
      BY <3>1
    <3> QED
      BY <1>1, <2>1, <2>2, <3>1, <3>2
  <2> QED
    BY <2>3, <2>4
<1> QED
  BY <1>1, <1>2, <1>3

LEMMA WriteSafeOrder ==
    ASSUME IInv, IInv', OInv, WriteRawDataSafe
    PROVE  OInv'
<1> USE DEF OInv
<1> DEFINE c == hand["task"]
           n == task.n
           item == <<"message", n>>
           r == conn[c]
           w == Write(r, item)
           s == Stream(r)
           t == Stream(conn'[c])
           l == Len(s)
<1>1. /\ pc["task"] = "write" /\ NextTarget(targets)
      /\ UNCHANGED <<chat_que, audience, clients_map_>>
  BY DEF WriteRawDataSafe, roomVars
<1>2. PICK f \in Flush(w) : conn' = [conn EXCEPT ![c] = f.obj]
  BY DEF WriteRawDataSafe
<1>3. /\ c \in Conn /\ Good(r) /\ n \in Nat /\ Working /\ targets \in SUBSET Conn
      /\ task \in Message
  BY <1>1, OrderTypes, AllGood DEF Working
<1>4. item \in Item
  BY <1>3, ItemsAre DEF Message
<1>5. Good(w) /\ w.fd = r.fd /\ w.status = r.status
  BY <1>3, <1>4, GoodWrite
<1>6. /\ \A d \in Conn : conn'[d] = IF d = c THEN f.obj ELSE conn[d]
      /\ conn'[c] = f.obj
  BY <1>2, <1>3 DEF IInv, Core, ObjectTypeOK
<1>7. Good(conn'[c]) /\ conn'[c].fd = r.fd /\ conn'[c].status = r.status /\ t = Stream(w)
  BY <1>2, <1>5, <1>6, GoodFlush, FlushStream DEF Good
<1>8. /\ l \in Nat /\ DOMAIN s = 1..l /\ DOMAIN t = 1..Len(t) /\ Units \in Nat /\ Units >= 1
      /\ \A i \in 1..l : s[i] \in Bytes
  BY <1>3, <1>7, StreamBytes, UnitsAssumption
<1>9. /\ r.fd = NULL => t = s
      /\ r.fd # NULL => /\ Len(t) = l + Units /\ \A i \in 1..l : t[i] = s[i]
                        /\ \A j \in 1..Units : t[l + j] = <<item, j>>
  BY <1>3, <1>4, <1>7, WriteStream
<1>10. \A d \in Conn \ {c} : conn'[d] = conn[d]
  BY <1>6
<1>11. c \in Waiting /\ Waiting = targets \cup {c} /\ c \notin targets
  BY <1>1 DEF Waiting, Numbers
<1>12. ASSUME NEW d \in Conn, NEW i, i \in DOMAIN Stream(conn[d]), IsMessage(Stream(conn[d])[i]),
              NEW x, x = Number(Stream(conn[d])[i])
       PROVE  /\ x \in Nat /\ x <= n /\ x <= Len(audience)
              /\ \A j \in DOMAIN chat_que : x < chat_que[j].n
              /\ d \in Waiting => x < n
  <2>1. MayHave(d, x)
    BY <1>12 DEF NumbersSent
  <2>2. Stream(conn[d])[i] \in Bytes
    BY <1>12, AllGood, StreamBytes
  <2>3. x \in Nat
    BY <1>12, <2>2, ChatBounds DEF Bytes, IsMessage, Number
  <2> QED
    BY <1>3, <2>1, <2>3 DEF MayHave
<1>13. \A i \in 1..l : IsMessage(s[i]) => Number(s[i]) < n
  BY <1>3, <1>8, <1>11, <1>12
<1>14. Ordered(s) /\ (Upgraded(r) => Shaken(s))
  BY <1>3 DEF InOrder, HandshakeFirst
<1>15. n <= Len(audience) /\ \A j \in DOMAIN chat_que : n < chat_que[j].n
  BY <1>3 DEF Numbers
<1> HIDE DEF c, n, item, r, w, s, t, l
<1>16. Ordered(t) /\ (Upgraded(r) => Shaken(t))
  <2>1. CASE r.fd = NULL
    BY <1>9, <1>14, <2>1
  <2>2. CASE r.fd # NULL
    <3>1. \A j \in 1..Units : t[l + j] = <<<<"message", n>>, j>>
      BY <1>9, <2>2 DEF item
    <3>2. DOMAIN t = 1..(l + Units) /\ \A i \in 1..l : t[i] = s[i]
      BY <1>8, <1>9, <2>2
    <3>3. \A i \in 1..l : t[i] = s[i] /\ (IsMessage(s[i]) => Number(s[i]) < n)
      BY <1>13, <3>2
    <3>4. Ordered(t)
      BY <1>3, <1>8, <1>14, <3>1, <3>2, <3>3, OrderedAndMore
    <3>5. l \in Nat /\ Units \in Nat /\ DOMAIN s = 1..l
      BY <1>8
    <3>6. \A i \in DOMAIN s : i \in DOMAIN t /\ t[i] = s[i]
      BY <3>2, <3>5
    <3> QED
      BY <1>14, <3>4, <3>6 DEF Shaken
  <2> QED
    BY <2>1, <2>2
<1>17. HandshakeFirst' /\ InOrder'
  <2> SUFFICES ASSUME NEW d \in Conn
               PROVE  Ordered(Stream(conn'[d])) /\ (Upgraded(conn'[d]) => Shaken(Stream(conn'[d])))
    BY DEF HandshakeFirst, InOrder
  <2>1. CASE d = c
    BY <1>7, <1>16, <2>1 DEF t, Upgraded
  <2>2. CASE d # c
    BY <1>10, <2>2 DEF HandshakeFirst, InOrder
  <2> QED
    BY <2>1, <2>2
<1>18. \A d \in Conn : conn'[d].fd = conn[d].fd /\ (Upgraded(conn[d]) => Upgraded(conn'[d]))
  BY <1>7, <1>10 DEF r, Upgraded
<1>19. \A d \in Conn, x \in Nat : Gets(conn[d], x) => Gets(conn'[d], x)
  <2> SUFFICES ASSUME NEW x \in Nat, Gets(r, x) PROVE Gets(conn'[c], x)
    BY <1>10 DEF r
  <2>1. Len(s) <= Len(t) /\ \A i \in 1..Len(s) : t[i] = s[i]
    BY <1>8, <1>9 DEF l
  <2> QED
    BY <1>3, <1>7, <2>1, GetsKept DEF s, t
<1>20. ASSUME NEW d \in Conn, NEW i, i \in DOMAIN Stream(conn'[d]), IsMessage(Stream(conn'[d])[i])
       PROVE  LET x == Number(Stream(conn'[d])[i])
              IN  /\ x \in Nat /\ x <= n /\ x <= Len(audience)
                  /\ \A j \in DOMAIN chat_que : x < chat_que[j].n
                  /\ d \in targets => x < n
  <2>1. CASE i \in DOMAIN Stream(conn[d]) /\ Stream(conn'[d])[i] = Stream(conn[d])[i]
    BY <1>11, <1>12, <1>20, <2>1
  <2>2. CASE ~(i \in DOMAIN Stream(conn[d]) /\ Stream(conn'[d])[i] = Stream(conn[d])[i])
    <3>1. d = c
      BY <1>10, <1>20, <2>2
    <3>2. i \in DOMAIN t /\ ~(i \in DOMAIN s /\ t[i] = s[i])
      BY <1>20, <2>2, <3>1 DEF s, t, r
    <3>3. r.fd # NULL /\ i > l /\ i \in 1..(l + Units)
      BY <1>8, <1>9, <3>2
    <3>4. i - l \in 1..Units /\ l + (i - l) = i
      BY <1>8, <3>3
    <3>5. Number(t[i]) = n
      BY <1>9, <3>3, <3>4 DEF Number, item
    <3> QED
      BY <1>3, <1>11, <1>15, <3>1, <3>5 DEF t
  <2> QED
    BY <2>1, <2>2
<1>21. ASSUME NEW d \in Conn, conn[d].fd # NULL, Upgraded(conn[d]), WillGet(d, n)
       PROVE  d \in targets \/ Gets(conn'[d], n)
  <2>1. d \in targets \cup {c} \/ Gets(conn[d], n)
    BY <1>1, <1>3, <1>11, <1>21 DEF WillGet, n
  <2>2. CASE d = c
    <3>1. PICK i \in 1..l : s[i][1] = <<"handshake", 0>>
      BY <1>8, <1>14, <1>21, <2>2 DEF Shaken, r
    <3>2. /\ i \in DOMAIN t /\ l + 1 \in DOMAIN t /\ i < l + 1
          /\ t[i] = s[i] /\ t[l + 1] = <<item, 1>>
      BY <1>8, <1>9, <1>21, <2>2, <3>1 DEF r
    <3> QED
      BY <2>2, <3>1, <3>2 DEF Gets, t, item
  <2> QED
    BY <1>3, <1>19, <2>1, <2>2
<1> QED
  BY <1>1, <1>3, <1>17, <1>18, <1>19, <1>20, <1>21, TargetOrder DEF n

LEMMA InitOInv == Init => OInv
<1> SUFFICES ASSUME Init PROVE OInv
  OBVIOUS
<1>1. \A c \in Conn : conn[c] = Fresh /\ Stream(conn[c]) = <<>> /\ ~Upgraded(conn[c])
  BY GoodFresh, FreshStream DEF Init
<1>2. pc["task"] = "idle"
  BY ThreadsAre DEF Init
<1> QED
  BY <1>1, <1>2
     DEF Init, OInv, HandshakeFirst, Numbers, NumbersSent, Served, InOrder, Ordered, Working

LEMMA NextOInv == IInv /\ IInv' /\ OInv /\ [Next]_vars => OInv'
<1> SUFFICES ASSUME IInv, IInv', OInv, [Next]_vars PROVE OInv'
  OBVIOUS
<1>1. CASE LoopNext
  <2>1. AllBecome /\ Kept
    BY <1>1, AcceptKeeps, ReadKeeps, CloseKeeps, ResetKeeps DEF LoopNext
  <2> QED
    BY <2>1, KeptStep
<1>2. CASE WorkerNext /\ ~Publish
  <2>1. AllBecome /\ Kept
    BY <1>2, TakeKeeps, RunTaskKeeps, InsertKeeps, FlushKeeps, ResetKeeps DEF WorkerNext
  <2> QED
    BY <2>1, KeptStep
<1>3. CASE WsNext /\ ~Post
  <2>1. AllBecome /\ Kept
    BY <1>3, TakeKeeps, RunFrameKeeps, LeaveKeeps, FlushKeeps, ResetKeeps DEF WsNext
  <2> QED
    BY <2>1, KeptStep
<1>4. CASE Publish \/ Post
  BY <1>4, PublishKeeps, PostKeeps
<1>5. CASE TaskNext
  BY <1>5, TakeMessageOrder, LookupOrder, WriteSafeOrder DEF TaskNext
<1>6. CASE UNCHANGED vars
  <2>1. UNCHANGED <<conn, chat_que, task, targets, audience, clients_map_, pc, hand>>
    BY <1>6 DEF vars, taskVars, roomVars, threadVars
  <2> QED
    BY <2>1, NoneBecomes, KeptPlainly, KeptStep
<1> QED
  BY <1>1, <1>2, <1>3, <1>4, <1>5, <1>6 DEF Next

LEMMA OrderInvariant == Spec => []OInv
BY InitIInv, NextIInv, InitOInv, NextOInv, PTL DEF Spec

(***************************************************************************)
(* Every session gets its messages in the order in which they were queued, *)
(* and none twice: TaskThread takes them in that order, and while it has a *)
(* message in hand no connection it has yet to write to has a later one.   *)
(***************************************************************************)
THEOREM MessagesInOrder == Spec => []InOrder
<1>1. OInv => InOrder
  BY DEF OInv
<1> QED
  BY <1>1, OrderInvariant, PTL

(***************************************************************************)
(* Once TaskThread is done with a message, everyone has got it who was in  *)
(* the room when it was queued and has not left, after the handshake: in   *)
(* chat_que, in hand and during the writes each of them is kept on a       *)
(* connection that will get it.                                            *)
(***************************************************************************)
THEOREM NobodyIsSkipped == Spec => []NobodySkipped
<1>1. OInv => NobodySkipped
  BY DEF OInv, Served, NobodySkipped, WillGet
<1> QED
  BY <1>1, OrderInvariant, PTL
=============================================================================
