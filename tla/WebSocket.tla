------------------------------ MODULE WebSocket ------------------------------
(***************************************************************************)
(* The input of one WebSocket (src/websocket.cpp): the socket, edge-       *)
(* triggered epoll, ReadData, which reads in chunks until the socket is    *)
(* empty, and Parse, which cuts the bytes into frames, collects payloads   *)
(* in cache_str_ and hands messages to WebSocketWorkerThread.              *)
(*                                                                         *)
(* A frame is known by its place in what the client sends, and a payload   *)
(* by its frame: a text is the sequence of frames whose payloads were put  *)
(* together, and of the bytes only their number matters.  ReadData runs    *)
(* under the connection's mtx_, and all that others see of it are the      *)
(* tasks it queues and what it leaves on the socket: one read is an action *)
(* and so is one round of Parse.                                           *)
(*                                                                         *)
(* Variants.  An uncommented definition right before a commented one is a  *)
(* mistake that could be made in the code the latter models; no action     *)
(* uses it, and the properties are tested on the models it gives in the    *)
(* other's place.                                                          *)
(***************************************************************************)
EXTENDS Integers, SequencesExt

CONSTANTS
    Frame,      \* the frames a client may send
    CHUNK,      \* READ_BUFFER_SIZE
    MaxBuffer,  \* max_buffer_size_
    MaxFrames   \* bound: how many frames the client sends

Opcode == {"CONTINUATION", "TEXT_FRAME", "BINARY_FRAME", "CLOSE", "PING",
           "PONG", "reserved"}

\* header is header_size: at least 2, and 14 at most.  Bound: len is as long
\* as its frame is, below 2^63, as the protocol wants.
ASSUME FrameAssumption ==
    Frame \subseteq [opcode : Opcode, fin : BOOLEAN, header : 2..14, len : Nat]
ASSUME SizeAssumption ==
    CHUNK \in Nat \ {0} /\ MaxBuffer \in Nat /\ MaxFrames \in Nat

VARIABLES
    sent,       \* the frames the client has sent
    start,      \* and at which byte of what it has sent each of them begins
    flight,     \* how many of their bytes have not arrived yet
    insock,     \* how many have arrived and not been read
    gone,       \* the client has closed its end
    edge,       \* epoll has an edge of the socket to report
    pc,         \* what the event loop thread does next
    full,       \* the last read of ReadData returned CHUNK bytes
    rbuf,       \* rbuf_.size()
    erased,     \* how many bytes Parse has erased from rbuf_
    cache,      \* cache_str_
    cache_len,  \* cache_str_.length()
    queue       \* the tasks pushed so far

vars == <<sent, start, flight, insock, gone, edge, pc, full, rbuf, erased,
          cache, cache_len, queue>>

netVars == <<sent, start, flight, gone>>
parseVars == <<rbuf, erased, cache, cache_len, queue>>

Text == Seq(Nat \ {0})

TypeOK ==
    /\ sent \in Seq(Frame)
    /\ start \in Seq(Nat) /\ Len(start) = Len(sent)
    /\ flight \in Nat /\ insock \in Nat
    /\ rbuf \in Nat /\ erased \in Nat /\ cache_len \in Nat
    /\ gone \in BOOLEAN /\ edge \in BOOLEAN /\ full \in BOOLEAN
    /\ pc \in {"idle", "read", "parse", "closed"}
    /\ cache \in Text
    /\ queue \in Seq([opcode : Opcode, msg : Text])

Init ==
    /\ sent = <<>> /\ start = <<>> /\ flight = 0 /\ insock = 0 /\ gone = FALSE
    /\ edge = FALSE
    /\ pc = "idle" /\ full = FALSE
    /\ rbuf = 0 /\ erased = 0 /\ cache = <<>> /\ cache_len = 0 /\ queue = <<>>

Size(f) == f.header + f.len

-----------------------------------------------------------------------------
(* The client and the network.                                             *)

\* All the bytes of the frames sent, wherever they are.
Bytes == erased + rbuf + insock + flight

SendFrame(f) ==
    /\ ~gone /\ Len(sent) < MaxFrames
    /\ sent' = Append(sent, f)
    /\ start' = Append(start, Bytes)
    /\ flight' = flight + Size(f)
    /\ UNCHANGED <<insock, gone, edge, pc, full, parseVars>>

\* n bytes arrive.
Arrive(n) ==
    /\ pc # "closed"
    /\ flight' = flight - n
    /\ insock' = insock + n
    /\ edge' = TRUE
    /\ UNCHANGED <<sent, start, gone, pc, full, parseVars>>

\* The client closes its end, and that arrives after everything it sent.
Leave ==
    /\ ~gone /\ flight = 0
    /\ gone' = TRUE
    /\ edge' = TRUE
    /\ UNCHANGED <<sent, start, flight, insock, pc, full, parseVars>>

-----------------------------------------------------------------------------
(* ReadData.                                                               *)

\* The event loop calls OnRead for the edge.
OnRead ==
    /\ pc = "idle" /\ edge
    /\ edge' = FALSE
    /\ pc' = "read"
    /\ UNCHANGED <<netVars, insock, full, parseVars>>

\* Connection::Readn fills the chunk or empties the socket.
Readn ==
    /\ pc = "read" /\ (insock < CHUNK => ~gone)
    /\ LET n == IF insock < CHUNK THEN insock ELSE CHUNK
       IN  /\ insock' = insock - n
           /\ rbuf' = rbuf + n
           /\ full' = (n = CHUNK)
           /\ pc' = IF n = 0 THEN "idle" ELSE "parse"
    /\ UNCHANGED <<netVars, edge, erased, cache, cache_len, queue>>

\* At end of file it fails, what it has read before is not looked at, and the
\* connection is reset.
ReadnFails ==
    /\ pc = "read" /\ insock < CHUNK /\ gone
    /\ pc' = "closed"
    /\ UNCHANGED <<netVars, insock, edge, full, parseVars>>

-----------------------------------------------------------------------------
(* Parse.                                                                  *)

HeaderArrived(i) == start[i] = erased /\ rbuf >= sent[i].header
\* rbuf_ begins with the i-th frame, and holds all of it.
Whole(i) == start[i] = erased /\ rbuf >= Size(sent[i])

HasFrame == \E i \in DOMAIN sent : Whole(i)

ReadOnOnce == pc' = "idle"
\* ReadData's loop: read on if there may be more to read.
ReadOn == pc' = IF full THEN "read" ELSE "idle"

ParseNothing ==
    /\ pc = "parse" /\ ~HasFrame
    /\ ReadOn
    /\ UNCHANGED <<netVars, insock, edge, full, parseVars>>

FitsAlone(f) == f.len <= MaxBuffer
\* The payload may be put into cache_str_.
Fits(f) == cache_len + f.len <= MaxBuffer

\* Too much for cache_str_: ReadData returns ERROR and the connection is reset.
ParseTooLarge(i) ==
    /\ pc = "parse" /\ Whole(i)
    /\ ~Fits(sent[i])
    /\ pc' = "closed"
    /\ UNCHANGED <<netVars, insock, edge, full, parseVars>>

IsData(f) == f.opcode \in {"CONTINUATION", "TEXT_FRAME", "BINARY_FRAME"}

CollectDropping(text, len) == cache' = <<>> /\ cache_len' = 0
\* cache_str_ becomes text, of length len.
Collect(text, len) == cache' = text /\ cache_len' = len

ClearCache == cache' = <<>> /\ cache_len' = 0

Push(opcode, text) == queue' = Append(queue, [opcode |-> opcode, msg |-> text])

\* What becomes of text, which is cache_str_ and the payload of f, when f is
\* a data frame; when it is a ping; and when it is a pong, a close or has an
\* opcode that Parse does not know, which is taken for a close.
ParseData(f, text, len) ==
    /\ IsData(f)
    /\ IF f.fin THEN Push(f.opcode, text) /\ ClearCache
       ELSE Collect(text, len) /\ UNCHANGED queue

ParsePing(f, text) ==
    f.opcode = "PING" /\ Push("PING", text) /\ ClearCache

ParseOther(f, text, len) ==
    /\ f.opcode \in {"PONG", "CLOSE", "reserved"}
    /\ Push(IF f.opcode = "PONG" THEN "PONG" ELSE "CLOSE", text)
    /\ Collect(text, len)

ParseFrame(i) ==
    /\ pc = "parse" /\ Whole(i)
    /\ LET f == sent[i]
           text == Append(cache, i)
           len == cache_len + f.len
       IN  /\ Fits(f)
           /\ \/ ParseData(f, text, len)
              \/ ParsePing(f, text)
              \/ ParseOther(f, text, len)
           /\ rbuf' = rbuf - Size(f)
           /\ erased' = erased + Size(f)
    /\ UNCHANGED <<netVars, insock, edge, pc, full>>

ServerNext ==
    \/ OnRead \/ Readn \/ ReadnFails \/ ParseNothing
    \/ \E i \in DOMAIN sent : ParseTooLarge(i) \/ ParseFrame(i)

ClientNext ==
    \/ \E f \in Frame : SendFrame(f)
    \/ \E n \in 1..flight : Arrive(n)
    \/ Leave

Next == ServerNext \/ ClientNext

Spec == Init /\ [][Next]_vars

-----------------------------------------------------------------------------
(* Safety.                                                                 *)

(***************************************************************************)
(* When ReadData is left, nothing that has arrived is left behind without  *)
(* an edge that will bring the event loop back: with edge-triggered epoll  *)
(* bytes left on the socket, or a whole frame left in rbuf_, would wait    *)
(* for the client to send more.                                            *)
(***************************************************************************)
NothingStranded ==
    pc = "idle" => /\ insock > 0 \/ gone => edge
                   /\ ~HasFrame

\* The i-th frame has been dealt with.
Parsed(i) == start[i] < erased

\* Frames that call for a handler, and frames that end what is collected.
Queues(f) == IsData(f) => f.fin
Ends(f) == (IsData(f) /\ f.fin) \/ f.opcode = "PING"

\* text is the payloads of the frames from lo to hi, all of them, where what
\* is collected begins with lo.
Gathered(text, lo, hi) ==
    /\ text = [i \in 1..(hi - lo + 1) |-> lo + i - 1]
    /\ lo = 1 \/ Ends(sent[lo - 1])
    /\ \A i \in lo..(hi - 1) : ~Ends(sent[i])

(***************************************************************************)
(* However the bytes were cut into reads, Parse takes the frames off rbuf_ *)
(* one by one, and what it queues is determined by them: every frame that  *)
(* ends a message, and every control frame, queues one task, in their      *)
(* order, with the payloads collected up to it, none missing, none twice.  *)
(***************************************************************************)
Reassembly ==
    /\ erased = Bytes \/ \E i \in DOMAIN sent : start[i] = erased
    /\ \A q \in DOMAIN queue :
           \E hi \in DOMAIN sent :
               /\ Parsed(hi) /\ Queues(sent[hi])
               /\ \E lo \in 1..hi : Gathered(queue[q].msg, lo, hi)
    /\ \A q, r \in DOMAIN queue : q < r => Last(queue[q].msg) < Last(queue[r].msg)
    /\ \A i \in DOMAIN sent :
           Parsed(i) /\ Queues(sent[i])
           => \E q \in DOMAIN queue : Last(queue[q].msg) = i

\* Payloads gathered over many frames are kept within SetMaxBufferSize.
CacheIsBounded == cache_len <= MaxBuffer

-----------------------------------------------------------------------------
(* What does not hold.                                                     *)

(***************************************************************************)
(* The handlers of pings and pongs get the payload of their frame, and a   *)
(* message consists of data frames, wherever the control frames come       *)
(* ("ping/pong support", and RFC 6455, which the code refers to).          *)
(***************************************************************************)
ControlFramesApart ==
    \A q \in DOMAIN queue :
        LET msg == queue[q].msg
        IN  IF queue[q].opcode \in {"PING", "PONG"}
            THEN Len(msg) = 1
            ELSE queue[q].opcode # "CLOSE" =>
                     \A i \in DOMAIN msg : IsData(sent[msg[i]])
=============================================================================
