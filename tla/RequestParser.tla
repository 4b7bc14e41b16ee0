---------------------------- MODULE RequestParser ----------------------------
(***************************************************************************)
(* The input of one HTTP session (src/request.cpp): the socket, edge-      *)
(* triggered epoll, ReadData, which reads the header in chunks, looks at   *)
(* its limits and reads the body, and Parse, which goes over the header    *)
(* byte by byte and remembers in parse_status_ where a chunk ended.        *)
(*                                                                         *)
(* The client sends lines: a request line, header lines, the empty line    *)
(* that ends the header, and then the body, which Parse does not see.  Of  *)
(* a line matters which header it is, how long it is, what it says of the  *)
(* length of the body, and whether it holds a byte that Parse refuses; so  *)
(* a round of Parse takes as much of a line as there is.  ReadData runs    *)
(* under the connection's mtx_, and all that others see of it are the task *)
(* it queues and what it leaves on the socket.                             *)
(*                                                                         *)
(* Variants.  An uncommented definition right before a commented one is a  *)
(* mistake that could be made in the code the latter models; no action     *)
(* uses it, and the properties are tested on the models it gives in the    *)
(* other's place.                                                          *)
(***************************************************************************)
EXTENDS Integers, SequencesExt

CONSTANTS
    Line,       \* the lines a client may send
    CHUNK,      \* READ_BUFFER_SIZE
    LOOKAHEAD,  \* how many bytes Parse wants to see of a "C..." header: 9
    WIDTH,      \* one more than content_length_ can hold: 2^32
    MaxHeader,  \* max_header_size_
    MaxPost,    \* max_post_size_
    MaxLines    \* bound: how many lines the client sends

Kind == {"request", "content_length", "other", "end", "body"}

\* value is the number a Content-Length line gives and scale is 10 to the number
\* of its digits; bad says whether there is a byte in the line that Parse takes
\* nowhere ("byte"), or not as a digit of the length ("value").  A header has a
\* name of two letters at least.  Content-Type and Sec-WebSocket-Key, whose
\* values are kept and nothing else, are "other".
ASSUME LineAssumption ==
    Line \subseteq [kind : Kind, size : Nat \ {0, 1}, value : Nat, scale : Nat,
                    bad : {"no", "byte", "value"}]
ASSUME LimitAssumption ==
    /\ {CHUNK, LOOKAHEAD, WIDTH} \subseteq Nat \ {0}
    /\ {MaxHeader, MaxPost, MaxLines} \subseteq Nat

VARIABLES
    sent,           \* the lines the client has sent
    start,          \* and at which byte of what it has sent each begins
    flight,         \* how many bytes have not arrived yet
    insock,         \* how many have arrived and not been read
    gone,           \* the client has closed its end
    edge,           \* epoll has an edge of the socket to report
    pc,             \* what the event loop thread does next
    full,           \* the last read returned CHUNK bytes
    status,         \* status_
    rbuf,           \* rbuf_len_
    cuts,           \* auxiliary: what rbuf_len_ was after each read
    parse_status,   \* parse_status_: what Parse takes the line it is in for
    parse_offset,   \* parse_offset_
    content_length, \* content_length_
    header_len,     \* header_len_
    tasks           \* how often TaskPush was called

vars == <<sent, start, flight, insock, gone, edge, pc, full, status, rbuf, cuts,
          parse_status, parse_offset, content_length, header_len, tasks>>

clientVars == <<sent, start, flight, gone>>
parseVars == <<parse_status, parse_offset, content_length, header_len>>

TypeOK ==
    /\ sent \in Seq(Line) /\ start \in Seq(Nat) /\ Len(start) = Len(sent)
    /\ flight \in Nat /\ insock \in Nat
    /\ gone \in BOOLEAN /\ edge \in BOOLEAN /\ full \in BOOLEAN
    /\ pc \in {"idle", "read", "parse", "check", "read_body", "closed"}
    /\ status \in {"HEADER_RECEIVING", "BODY_RECEIVING", "BODY_RECEIVED"}
    /\ rbuf \in Nat /\ cuts \in SUBSET Nat
    /\ parse_status \in Kind
    /\ parse_offset \in 0..rbuf
    /\ content_length \in 0..(WIDTH - 1)
    /\ header_len \in 0..rbuf
    /\ tasks \in 0..1

Init ==
    /\ sent = <<>> /\ start = <<>> /\ flight = 0 /\ insock = 0
    /\ gone = FALSE /\ edge = FALSE
    /\ pc = "idle" /\ full = FALSE
    /\ status = "HEADER_RECEIVING" /\ rbuf = 0 /\ cuts = {}
    /\ parse_status = "request" /\ parse_offset = 0
    /\ content_length = 0 /\ header_len = 0 /\ tasks = 0

-----------------------------------------------------------------------------
(* The client and the network.                                             *)

\* All the bytes sent, wherever they are.
Bytes == rbuf + insock + flight

\* What may come next is what an input falls into when it is cut at the ends
\* of its lines, up to the empty one.
Follows(l) ==
    IF sent = <<>> THEN l.kind = "request"
    ELSE IF Last(sent).kind \in {"end", "body"} THEN l.kind = "body"
    ELSE l.kind \notin {"request", "body"}

SendLine(l) ==
    /\ ~gone /\ Len(sent) < MaxLines /\ Follows(l)
    /\ sent' = Append(sent, l)
    /\ start' = Append(start, Bytes)
    /\ flight' = flight + l.size
    /\ UNCHANGED <<insock, gone, edge, pc, full, status, rbuf, cuts, parseVars,
                   tasks>>

\* n bytes arrive.
Arrive(n) ==
    /\ pc # "closed"
    /\ flight' = flight - n
    /\ insock' = insock + n
    /\ edge' = TRUE
    /\ UNCHANGED <<sent, start, gone, pc, full, status, rbuf, cuts, parseVars,
                   tasks>>

\* The client closes its end, and that arrives after everything it sent.
Leave ==
    /\ ~gone /\ flight = 0
    /\ gone' = TRUE
    /\ edge' = TRUE
    /\ UNCHANGED <<sent, start, flight, insock, pc, full, status, rbuf, cuts,
                   parseVars, tasks>>

-----------------------------------------------------------------------------
(* ReadData, while the header is received.                                 *)

\* The event loop calls OnRead for the edge.  While the handler has the
\* request, whatever comes closes the session.
OnRead ==
    /\ pc = "idle" /\ edge
    /\ edge' = FALSE
    /\ pc' = CASE status = "HEADER_RECEIVING" -> "read"
               [] status = "BODY_RECEIVING" -> "check"
               [] status = "BODY_RECEIVED" -> "closed"
    /\ UNCHANGED <<clientVars, insock, full, status, rbuf, cuts, parseVars,
                   tasks>>

\* Connection::Readn fills the chunk or empties the socket; it has read n.
Readn(n) ==
    /\ insock < CHUNK => ~gone /\ n = insock
    /\ insock >= CHUNK => n = CHUNK
    /\ insock' = insock - n
    /\ full' = (n = CHUNK)
    /\ rbuf' = rbuf + n
    /\ cuts' = IF n = 0 THEN cuts ELSE cuts \cup {rbuf + n}
    /\ UNCHANGED <<clientVars, edge>>

\* At end of file it fails, and the connection is reset.
ReadnFails ==
    /\ pc \in {"read", "read_body"} /\ insock < CHUNK /\ gone
    /\ pc' = "closed"
    /\ UNCHANGED <<clientVars, insock, edge, full, status, rbuf, cuts,
                   parseVars, tasks>>

ChunkTooLong(n) == n > MaxHeader
\* The limit is on all that has been read before the header was complete, the
\* beginning of the body included.
HeaderTooLong(n) == rbuf + n > MaxHeader

\* "closed" here is an error page, and then the end of the session.
ReadHeader(n) ==
    /\ pc = "read" /\ Readn(n)
    /\ pc' = IF n = 0 THEN "idle"
             ELSE IF HeaderTooLong(n) THEN "closed" ELSE "parse"
    /\ UNCHANGED <<status, parseVars, tasks>>

\* Parse has come to the end of rbuf_: read on if there may be more to read.
ReadOn == pc' = IF full THEN "read" ELSE "idle"

ParseNothing ==
    /\ pc = "parse" /\ parse_offset = rbuf
    /\ ReadOn
    /\ UNCHANGED <<clientVars, insock, edge, full, status, rbuf, cuts,
                   parseVars, tasks>>

-----------------------------------------------------------------------------
(* Parse.                                                                  *)

End(i) == start[i] + sent[i].size
InLine(i) == start[i] <= parse_offset /\ parse_offset < End(i)

\* What Parse takes the i-th line for when it begins it.  To tell the headers
\* that begin with "Content-" it looks ahead, and passes over the line if
\* there is not enough to look at yet.
Looked(i) ==
    IF sent[i].kind = "content_length" /\ rbuf - start[i] < LOOKAHEAD
    THEN "other" ELSE sent[i].kind

TakenForgotten(i) == IF parse_offset = start[i] THEN Looked(i) ELSE "other"
\* What it takes the line for that it is in: it remembers that from one chunk
\* to the next.
TakenFor(i) == IF parse_offset = start[i] THEN Looked(i) ELSE parse_status

\* There is a byte in the line that Parse refuses.
Refused(i) ==
    \/ sent[i].bad = "byte"
    \/ sent[i].bad = "value" /\ TakenFor(i) = "content_length"

ParseError(i) ==
    /\ pc = "parse" /\ InLine(i) /\ parse_offset < rbuf
    /\ Refused(i)
    /\ pc' = "closed"
    /\ UNCHANGED <<clientVars, insock, edge, full, status, rbuf, cuts,
                   parseVars, tasks>>

\* A part of the line, without what Parse refuses.
ParsePart(i) ==
    /\ pc = "parse" /\ InLine(i)
    /\ parse_offset < rbuf /\ rbuf < End(i)
    /\ parse_status' = TakenFor(i)
    /\ parse_offset' = rbuf
    /\ UNCHANGED <<clientVars, insock, edge, pc, full, status, rbuf, cuts,
                   content_length, header_len, tasks>>

AddLengthUnbounded(l) == content_length' = content_length * l.scale + l.value
\* The digits are appended to those content_length_ has, in 32 bits.
AddLength(l) ==
    content_length' = (content_length * l.scale + l.value) % WIDTH

\* The rest of a line of the header.
ParseLine(i) ==
    /\ pc = "parse" /\ InLine(i) /\ End(i) <= rbuf
    /\ ~Refused(i) /\ sent[i].kind # "end"
    /\ parse_status' = TakenFor(i)
    /\ parse_offset' = End(i)
    /\ IF TakenFor(i) = "content_length"
       THEN AddLength(sent[i]) ELSE UNCHANGED content_length
    /\ UNCHANGED <<clientVars, insock, edge, pc, full, status, rbuf, cuts,
                   header_len, tasks>>

\* The rest of the empty line: the header is complete.
ParseEnd(i) ==
    /\ pc = "parse" /\ InLine(i) /\ End(i) <= rbuf
    /\ ~Refused(i) /\ sent[i].kind = "end"
    /\ parse_status' = "end"
    /\ parse_offset' = End(i)
    /\ header_len' = End(i)
    /\ status' = "BODY_RECEIVING"
    /\ pc' = "check"
    /\ UNCHANGED <<clientVars, insock, edge, full, rbuf, cuts, content_length,
                   tasks>>

-----------------------------------------------------------------------------
(* ReadData, while the body is received.                                   *)

\* A body too long: an error page, and the end of the session.
BodyTooLong ==
    /\ pc = "check" /\ content_length > MaxPost
    /\ pc' = "closed"
    /\ UNCHANGED <<clientVars, insock, edge, full, status, rbuf, cuts,
                   parseVars, tasks>>

WholeWithHeader(len) == len >= content_length
WholeAndMore(len) == len - header_len > content_length
\* rbuf_, len bytes long, holds the whole body.
Whole(len) == len - header_len >= content_length

\* The request goes to the worker.
TaskPush ==
    /\ status' = "BODY_RECEIVED"
    /\ tasks' = tasks + 1
    /\ pc' = "idle"

CheckBody ==
    /\ pc = "check" /\ content_length <= MaxPost
    /\ IF Whole(rbuf)
       THEN TaskPush
       ELSE pc' = "read_body" /\ UNCHANGED <<status, tasks>>
    /\ UNCHANGED <<clientVars, insock, edge, full, rbuf, cuts, parseVars>>

ReadBody(n) ==
    /\ pc = "read_body" /\ Readn(n)
    /\ IF n > 0 /\ Whole(rbuf + n)
       THEN TaskPush
       ELSE /\ pc' = IF n = CHUNK THEN "read_body" ELSE "idle"
            /\ UNCHANGED <<status, tasks>>
    /\ UNCHANGED parseVars

ServerNext ==
    \/ OnRead \/ ReadnFails \/ ParseNothing \/ BodyTooLong \/ CheckBody
    \/ \E n \in 0..CHUNK : ReadHeader(n) \/ ReadBody(n)
    \/ \E i \in DOMAIN sent :
           ParseError(i) \/ ParsePart(i) \/ ParseLine(i) \/ ParseEnd(i)

ClientNext ==
    \/ \E l \in Line : SendLine(l)
    \/ \E n \in 1..flight : Arrive(n)
    \/ Leave

Next == ServerNext \/ ClientNext

Spec == Init /\ [][Next]_vars

-----------------------------------------------------------------------------
(* Safety.                                                                 *)

(***************************************************************************)
(* A request that has arrived goes to the worker: when ReadData is left    *)
(* before that, nothing more of it is on the socket without an edge that   *)
(* will bring the event loop back, rbuf_ has been parsed to its end, and   *)
(* the header or a part of the body is missing.                            *)
(***************************************************************************)
RequestNotStranded ==
    pc = "idle" /\ status # "BODY_RECEIVED" =>
        /\ insock > 0 \/ gone => edge
        /\ status = "HEADER_RECEIVING" => parse_offset = rbuf
        /\ status = "BODY_RECEIVING" => rbuf - header_len < content_length

(***************************************************************************)
(* The worker gets a request once, and gets the whole of it: all lines up  *)
(* to the empty one were parsed and none refused, the body that Body       *)
(* returns begins where the client's begins and is as long as announced,   *)
(* and header and length are within their limits.                          *)
(***************************************************************************)
HandedOverWhole ==
    /\ tasks = 1 <=> status = "BODY_RECEIVED"
    /\ tasks = 1 =>
           /\ \E i \in DOMAIN sent : /\ sent[i].kind = "end"
                                     /\ End(i) = header_len
                                     /\ \A j \in 1..i : sent[j].bad # "byte"
           /\ rbuf >= header_len + content_length
           /\ header_len <= MaxHeader
           /\ content_length <= MaxPost

(***************************************************************************)
(* What one client can make the server keep in rbuf_ is bounded by         *)
(* SetMaxHeaderSize and SetMaxPostSize, up to one chunk.                   *)
(***************************************************************************)
BufferIsBounded ==
    \/ rbuf <= MaxHeader
    \/ status # "HEADER_RECEIVING" /\ rbuf < header_len + MaxPost + CHUNK
    \/ pc = "closed" /\ rbuf <= MaxHeader + CHUNK

\* The i-th line tells the length, and no read cut it where Parse looks ahead.
Recognised(i) ==
    /\ sent[i].kind = "content_length"
    /\ \A n \in cuts : n - start[i] <= 0 \/ n - start[i] >= LOOKAHEAD

\* The length that the first k lines tell: the digits, one after the other.
Told[k \in 0..Len(sent)] ==
    IF k = 0 THEN 0
    ELSE IF Recognised(k) THEN Told[k - 1] * sent[k].scale + sent[k].value
    ELSE Told[k - 1]

(***************************************************************************)
(* The length of the body is what the client announced, in 32 bits,        *)
(* however the header was cut into reads, but for cuts in the first nine   *)
(* bytes of a line: such a Content-Length is passed over.  Two such lines  *)
(* are read as one number.                                                 *)
(***************************************************************************)
LengthAsAnnounced ==
    status # "HEADER_RECEIVING" =>
        \E i \in DOMAIN sent : /\ sent[i].kind = "end" /\ End(i) = header_len
                               /\ content_length = Told[i] % WIDTH
=============================================================================
