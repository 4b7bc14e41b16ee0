-------------------------- MODULE ConnectionOutput --------------------------
(***************************************************************************)
(* What a Connection sends (src/connection.cpp, src/response.cpp): the     *)
(* buffers of write_buffer_chain_, which handlers, callbacks and other     *)
(* threads append and Flush hands to the socket, piece by piece.           *)
(*                                                                         *)
(* Of a buffer only what it is and which of its bytes it is count; sent    *)
(* holds what the socket has taken of them.  How much the socket takes at  *)
(* a time, and whether it fails, is open.  Bound: all buffers are Units    *)
(* bytes long.                                                             *)
(*                                                                         *)
(* Variants.  An uncommented definition right before a commented one is a  *)
(* mistake that could be made in the code the latter models; no action     *)
(* uses it, and the properties are tested on the models it gives in the    *)
(* other's place.                                                          *)
(***************************************************************************)
EXTENDS Integers, SequencesExt

CONSTANTS
    Conn,       \* the Connection objects
    Client,     \* clients, each connecting once; a client is its socket
    NULL,       \* no socket (fd_ = -1)
    Item,       \* what can be written: the contents of a WriteBuffer
    Units       \* bound: the length of every buffer

ASSUME NoClientAssumption == NULL \notin Client \cup Conn
ASSUME UnitsAssumption == Units \in Nat \ {0}

VARIABLE conn   \* the Connection objects

\* WriteBuffer, done being write_len.
Buffer == [item : Item, done : 0..(Units - 1)]

\* finish is finish_ of the Response; sent is auxiliary.
Object == [fd : Client \cup {NULL}, status : {"HTTP", "UPGRADE"},
           finish : BOOLEAN, ev_writable : BOOLEAN,
           chain : Seq(Buffer), sent : Seq(Item \X (1..Units))]

\* What Connection::Reset leaves.
Fresh == [fd |-> NULL, status |-> "HTTP", finish |-> FALSE,
          ev_writable |-> FALSE, chain |-> <<>>, sent |-> <<>>]

Open(c) == conn[c].fd # NULL

-----------------------------------------------------------------------------
(* Writing.  All of it is done on an object r, whose mtx_ is held.         *)

\* Connection::WriteString and WriteData.
Write(r, item) ==
    IF r.fd = NULL THEN r
    ELSE [r EXCEPT !.chain = Append(@, [item |-> item, done |-> 0])]

Upgraded(r) == r.status = "UPGRADE"

\* Response::WriteErrorMessage: the page, and nothing after it.
WriteErrorMessage(r, page) == [Write(r, page) EXCEPT !.finish = TRUE]

\* Response::Flush of a response with or without a body, which WorkerThread
\* calls unless the connection has been upgraded.
RespFlush(r, header, body, written) ==
    IF Upgraded(r) THEN r
    ELSE IF written THEN [Write(Write(r, header), body) EXCEPT !.finish = TRUE]
    ELSE [r EXCEPT !.finish = TRUE]

-----------------------------------------------------------------------------
(* Flush.                                                                  *)

\* How far into the chain the head has been written, and how many bytes of
\* the chain have not.
Offset(r) == IF r.chain = <<>> THEN 0 ELSE Head(r.chain).done
Left(r) == Len(r.chain) * Units - Offset(r)

\* The bytes of the chain that are still to be sent.
Unsent(r) ==
    [i \in 1..Left(r) |->
        LET at == (Offset(r) + i) - 1
        IN  <<r.chain[(at \div Units) + 1].item, (at % Units) + 1>>]

ChainUnpopped(r, n) ==
    IF r.chain = <<>> THEN <<>> ELSE [r.chain EXCEPT ![1].done = Offset(r) + n]

ChainRestarting(r, n) ==
    LET at == Offset(r) + n
    IN  SubSeq(r.chain, (at \div Units) + 1, Len(r.chain))
\* The chain when n more bytes have been written: the buffers that have been
\* written to the end are popped, and write_len of the next one is set.
Chain(r, n) ==
    LET at == Offset(r) + n
        rest == SubSeq(r.chain, (at \div Units) + 1, Len(r.chain))
    IN  IF rest = <<>> THEN rest
        ELSE [rest EXCEPT ![1].done = at % Units]

\* The socket has taken n bytes.
Written(r, n) ==
    [r EXCEPT !.chain = Chain(r, n), !.sent = @ \o SubSeq(Unsent(r), 1, n)]

\* ConnStatus once everything is written.
Drained(r) == IF Upgraded(r) THEN "UPGRADE" ELSE IF r.finish THEN "END" ELSE "AGAIN"

\* Connection::Flush and Writen: the outcomes, each the ConnStatus returned and
\* the object.  Writen stops early if the socket is full or fails.
Flush(r) ==
    IF r.fd = NULL THEN {[status |-> "CLOSE", obj |-> r]}
    ELSE {[status |-> Drained(r), obj |-> Written(r, Left(r))]}
         \cup {[status |-> s, obj |-> Written(r, n)] :
                   s \in {"AGAIN", "ERROR"}, n \in 0..(Left(r) - 1)}

-----------------------------------------------------------------------------

\* All that a session has sent and is going to send.
Stream(r) == r.sent \o Unsent(r)

\* s consists of whole buffers.
Whole(s) ==
    /\ Len(s) % Units = 0
    /\ \A i \in DOMAIN s :
           /\ s[i][2] = ((i - 1) % Units) + 1
           /\ s[i][2] > 1 => s[i][1] = s[i - 1][1]

(***************************************************************************)
(* Nothing that is written to a session is lost, repeated or torn apart by *)
(* something else, however often Flush is interrupted and whichever thread *)
(* goes on with it: what was sent and what is left are whole buffers.      *)
(***************************************************************************)
StreamIsWhole == \A c \in Conn : Whole(Stream(conn[c]))
=============================================================================
