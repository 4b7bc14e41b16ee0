------------------------------ MODULE ChatRoom ------------------------------
(***************************************************************************)
(* The chat room of src/examples/chat_room.cpp on one EventLoop: sessions  *)
(* subscribe to a room and become WebSockets, messages come in as frames   *)
(* or as POSTs, and TaskThread sends each to all the members of its room.  *)
(*                                                                         *)
(* The threads are the loop (which accepts, reads and closes; the timeout  *)
(* thread closes in the same way), WorkerThread, WebSocketWorkerThread and *)
(* TaskThread.  A handler holds the connection's mtx_ from beginning to    *)
(* end, and takes clients_mtx_ or task_mtx_ inside it; a handler is one    *)
(* action up to the next mutex it takes.  task_mtx_ is held for one        *)
(* operation on the queue, inside one action.                              *)
(*                                                                         *)
(* Variants.  An uncommented definition right before a commented one is a  *)
(* mistake that could be made in the code the latter models; no action     *)
(* uses it, and the properties are tested on the models it gives in the    *)
(* other's place.                                                          *)
(***************************************************************************)
EXTENDS ConnectionOutput

CONSTANTS
    Room,           \* the channels
    MaxFrames,      \* bound: how many frames the clients send, together
    MaxMessages     \* bound: how many messages there are

ASSUME RoomAssumption == NULL \notin Room
ASSUME ChatBounds ==
    /\ MaxFrames \in Nat /\ MaxMessages \in Nat
    /\ Item = ({"handshake", "pong", "echo", "header", "body", "page"} \X {0})
              \cup ({"message"} \X (1..MaxMessages))

VARIABLES
    req,                \* the request each connection has received
    fresh,              \* clients that have not connected
    frames,             \* how many frames have been sent
    mtx_,               \* who holds the mtx_ of each connection
    clients_mtx_,       \* who holds clients_mtx_
    task_que,           \* the event loop's queues: connections with a request,
    ws_task_que,        \* and frames
    chat_que,           \* ChatRoom's task_que_
    clients_map_,       \* the members of each room
    channel_index_map_, \* the room each WebSocket has subscribed to, ever
    pc,                 \* what each thread does next
    hand,               \* the connection it does it to
    frame,              \* the kind of frame WebSocketWorkerThread has in hand
    task,               \* the message TaskThread has in hand, and the members
    targets,            \* it has yet to send it to
    audience            \* auxiliary: for each message, those that were members
                        \* of its room when it was queued and still are

inVars == <<req, fresh, frames>>
lockVars == <<mtx_, clients_mtx_>>
queVars == <<task_que, ws_task_que>>
roomVars == <<clients_map_, channel_index_map_>>
taskVars == <<chat_que, task, targets>>
threadVars == <<pc, hand, frame>>
vars == <<conn, inVars, lockVars, queVars, roomVars, taskVars, threadVars, audience>>

Thread == {"loop", "worker", "ws", "task"}

ASSUME ThreadAssumption == NULL \notin Thread

Labels(t) ==
    CASE t = "loop" -> {"idle", "onclose"}
      [] t = "worker" -> {"idle", "run", "subscribe", "insert", "publish",
                          "flush", "onclose"}
      [] t = "ws" -> {"idle", "run", "post", "leave", "flush", "onclose"}
      [] t = "task" -> {"idle", "lookup", "write"}

Request == [handler : {"subscribe", "publish"}, room : Room]
           \cup [handler : {"index"}, room : {NULL}]
Kind == {"text", "empty", "ping", "pong", "close"}
Message == [n : 1..MaxMessages, room : Room]

ASSUME MessageAssumption == NULL \notin Message

TypeOK ==
    /\ conn \in [Conn -> Object]
    /\ req \in [Conn -> Request \cup {NULL}]
    /\ fresh \in SUBSET Client /\ frames \in 0..MaxFrames
    /\ mtx_ \in [Conn -> Thread \cup {NULL}]
    /\ clients_mtx_ \in Thread \cup {NULL}
    /\ task_que \in Seq(Conn)
    /\ ws_task_que \in Seq([conn : Conn, kind : Kind])
    /\ chat_que \in Seq(Message)
    /\ clients_map_ \in [Room -> SUBSET Conn]
    /\ channel_index_map_ \in [Conn -> Room \cup {NULL}]
    /\ pc \in [Thread -> UNION {Labels(t) : t \in Thread}]
    /\ \A t \in Thread : pc[t] \in Labels(t)
    /\ hand \in [Thread -> Conn \cup {NULL}]
    /\ \A t \in Thread : pc[t] \notin {"idle", "lookup"} => hand[t] \in Conn
    /\ frame \in Kind \cup {NULL} /\ (pc["ws"] = "run" => frame \in Kind)
    /\ task \in Message \cup {NULL} /\ (pc["task"] # "idle" => task \in Message)
    /\ targets \in SUBSET Conn
    /\ audience \in Seq(SUBSET Client) /\ Len(audience) <= MaxMessages

Init ==
    /\ conn = [c \in Conn |-> Fresh]
    /\ req = [c \in Conn |-> NULL]
    /\ fresh = Client /\ frames = 0
    /\ mtx_ = [c \in Conn |-> NULL] /\ clients_mtx_ = NULL
    /\ task_que = <<>> /\ ws_task_que = <<>> /\ chat_que = <<>>
    /\ clients_map_ = [r \in Room |-> {}]
    /\ channel_index_map_ = [c \in Conn |-> NULL]
    /\ pc = [t \in Thread |-> "idle"] /\ hand = [t \in Thread |-> NULL]
    /\ frame = NULL /\ task = NULL /\ targets = {}
    /\ audience = <<>>

Goto(t, label, c) ==
    /\ pc' = [pc EXCEPT ![t] = label]
    /\ hand' = [hand EXCEPT ![t] = c]

\* The thread goes on with c, which it has locked, or is done with it.
Hold(t, label, c, r) ==
    /\ conn' = [conn EXCEPT ![c] = r]
    /\ mtx_' = [mtx_ EXCEPT ![c] = t]
    /\ Goto(t, label, c)
Release(t, c, r) ==
    /\ conn' = [conn EXCEPT ![c] = r]
    /\ mtx_' = [mtx_ EXCEPT ![c] = NULL]
    /\ Goto(t, "idle", NULL)

\* EventLoop::ResetConnection of the connection c, which t has locked: of a
\* WebSocket OnClose comes first, and takes clients_mtx_.
ResetConnection(t, c, r) ==
    IF r.fd # NULL /\ Upgraded(r)
    THEN Hold(t, "onclose", c, r) /\ UNCHANGED req
    ELSE Release(t, c, Fresh) /\ req' = [req EXCEPT ![c] = NULL]

-----------------------------------------------------------------------------
(* The event loop, and the clients.                                        *)

Accept(k, c) ==
    /\ pc["loop"] = "idle" /\ mtx_[c] = NULL
    /\ ~Open(c) /\ k \in fresh
    /\ conn' = [conn EXCEPT ![c].fd = k]
    /\ fresh' = fresh \ {k}
    /\ UNCHANGED <<req, frames, lockVars, queVars, roomVars, taskVars,
                   threadVars, audience>>

\* OnRead of a request.
ReadRequest(c, q) ==
    /\ pc["loop"] = "idle" /\ mtx_[c] = NULL
    /\ Open(c) /\ ~Upgraded(conn[c]) /\ req[c] = NULL
    /\ req' = [req EXCEPT ![c] = q]
    /\ task_que' = Append(task_que, c)
    /\ UNCHANGED <<conn, fresh, frames, lockVars, ws_task_que, roomVars,
                   taskVars, threadVars, audience>>

\* OnRead of a frame.
ReadFrame(c, kind) ==
    /\ pc["loop"] = "idle" /\ mtx_[c] = NULL
    /\ Open(c) /\ Upgraded(conn[c]) /\ frames < MaxFrames
    /\ frames' = frames + 1
    /\ ws_task_que' = Append(ws_task_que, [conn |-> c, kind |-> kind])
    /\ UNCHANGED <<conn, req, fresh, lockVars, task_que, roomVars, taskVars,
                   threadVars, audience>>

\* OnRead at end of file, or the timeout.
Close(c) ==
    /\ pc["loop"] = "idle" /\ mtx_[c] = NULL /\ Open(c)
    /\ ResetConnection("loop", c, conn[c])
    /\ UNCHANGED <<fresh, frames, clients_mtx_, queVars, roomVars, taskVars,
                   frame, audience>>

\* OnWrite: a WebSocket is closed, too, as soon as all is written.
OnWrite(c) ==
    /\ pc["loop"] = "idle" /\ mtx_[c] = NULL /\ conn[c].ev_writable
    /\ \E f \in Flush(conn[c]) :
           IF f.status = "AGAIN"
           THEN conn' = [conn EXCEPT ![c] = f.obj] /\ UNCHANGED <<mtx_, pc, hand, req>>
           ELSE ResetConnection("loop", c, f.obj)
    /\ UNCHANGED <<fresh, frames, clients_mtx_, queVars, roomVars, taskVars,
                   frame, audience>>

-----------------------------------------------------------------------------
(* What the handlers and callbacks share.                                  *)

\* What becomes of the rooms when ws leaves the one it is indexed under.
ForgetRoom(ws) ==
    [clients_map_ EXCEPT ![channel_index_map_[ws]] = {}]
\* ChatRoom::OnClose of ws; channel_index_map_ keeps it.
Forget(ws) ==
    IF channel_index_map_[ws] = NULL THEN clients_map_
    ELSE [clients_map_ EXCEPT ![channel_index_map_[ws]] = @ \ {ws}]

OnClose(ws) ==
    /\ clients_mtx_ = NULL
    /\ clients_map_' = Forget(ws)
    /\ audience' = [n \in DOMAIN audience |-> audience[n] \ {conn[ws].fd}]
    /\ UNCHANGED <<clients_mtx_, channel_index_map_>>

\* The rest of ResetConnection.
Reset(t) ==
    LET c == hand[t]
    IN  /\ pc[t] = "onclose"
        /\ OnClose(c)
        /\ Release(t, c, Fresh)
        /\ req' = [req EXCEPT ![c] = NULL]
        /\ UNCHANGED <<fresh, frames, queVars, taskVars, frame>>

\* ChatRoom::TaskPush.  Bound: at most MaxMessages.
TaskPush(room) ==
    /\ Len(audience) < MaxMessages
    /\ chat_que' = Append(chat_que, [n |-> Len(audience) + 1, room |-> room])
    /\ audience' = Append(audience,
           {conn[c].fd : c \in IF room \in Room THEN clients_map_[room] ELSE {}})

\* The end of the handler of t: Connection::Flush, and what comes of it.
FlushConn(t) ==
    LET c == hand[t]
    IN  /\ pc[t] = "flush"
        /\ \E f \in Flush(conn[c]) :
               CASE f.status = "AGAIN" ->
                        /\ Release(t, c, [f.obj EXCEPT !.ev_writable = TRUE])
                        /\ UNCHANGED req
                 [] f.status = "UPGRADE" -> Release(t, c, f.obj) /\ UNCHANGED req
                 [] OTHER -> ResetConnection(t, c, f.obj)
        /\ UNCHANGED <<fresh, frames, clients_mtx_, queVars, roomVars, taskVars,
                       frame, audience>>

-----------------------------------------------------------------------------
(* WorkerThread and the handlers Index, Subscribe and Publish.             *)

TakeTask ==
    /\ pc["worker"] = "idle" /\ task_que # <<>>
    /\ task_que' = Tail(task_que)
    /\ Goto("worker", "run", Head(task_que))
    /\ UNCHANGED <<conn, inVars, lockVars, ws_task_que, roomVars, taskVars,
                   frame, audience>>

Respond(r, written) == RespFlush(r, <<"header", 0>>, <<"body", 0>>, written)

\* The request is that of the session in the connection now, if it has one.
RunTask ==
    LET c == hand["worker"]
        r == conn[c]
        Serves(handler) == req[c] # NULL /\ req[c].handler = handler
    IN  /\ pc["worker"] = "run" /\ mtx_[c] = NULL
        /\ \/ ~Open(c) /\ Release("worker", c, r)
           \/ Open(c) /\ Serves("index")
              /\ Hold("worker", "flush", c, Respond(r, TRUE))
           \/ Open(c) /\ Serves("subscribe")
              /\ \/ Hold("worker", "subscribe", c,
                         Write([r EXCEPT !.status = "UPGRADE"], <<"handshake", 0>>))
                 \* no Sec-WebSocket-Key
                 \/ Hold("worker", "flush", c,
                         Respond(WriteErrorMessage(r, <<"page", 0>>), FALSE))
           \/ Open(c) /\ Serves("publish")
              /\ \/ Hold("worker", "publish", c, r)
                 \* not a POST
                 \/ Hold("worker", "flush", c, Respond(r, FALSE))
           \/ Open(c) /\ req[c] = NULL
              /\ Hold("worker", "flush", c,
                      Respond(WriteErrorMessage(r, <<"page", 0>>), FALSE))
        /\ UNCHANGED <<inVars, clients_mtx_, queVars, roomVars, taskVars,
                       frame, audience>>

\* Subscribe takes clients_mtx_ and changes channel_index_map_,
Subscribe ==
    /\ pc["worker"] = "subscribe" /\ clients_mtx_ = NULL
    /\ clients_mtx_' = "worker"
    /\ Goto("worker", "insert", hand["worker"])
    /\ UNCHANGED <<conn, inVars, mtx_, queVars, roomVars, taskVars, frame, audience>>

IndexKeeping(ws, room) ==
    IF channel_index_map_[ws] = NULL
    THEN [channel_index_map_ EXCEPT ![ws] = room] ELSE channel_index_map_
Index(ws, room) == [channel_index_map_ EXCEPT ![ws] = room]

\* and clients_map_.
Insert ==
    LET c == hand["worker"]
        room == req[c].room
    IN  /\ pc["worker"] = "insert"
        /\ channel_index_map_' = Index(c, room)
        /\ clients_map_' = [clients_map_ EXCEPT ![room] = @ \cup {c}]
        /\ clients_mtx_' = NULL
        /\ Goto("worker", "flush", c)
        /\ UNCHANGED <<conn, inVars, mtx_, queVars, taskVars, frame, audience>>

Publish ==
    LET c == hand["worker"]
    IN  /\ pc["worker"] = "publish"
        /\ TaskPush(req[c].room)
        /\ Hold("worker", "flush", c, Respond(conn[c], TRUE))
        /\ UNCHANGED <<inVars, clients_mtx_, queVars, roomVars, task, targets, frame>>

-----------------------------------------------------------------------------
(* WebSocketWorkerThread and the callbacks OnMessage, Ping and OnClose.    *)

TakeFrame ==
    /\ pc["ws"] = "idle" /\ ws_task_que # <<>>
    /\ ws_task_que' = Tail(ws_task_que)
    /\ frame' = Head(ws_task_que).kind
    /\ Goto("ws", "run", Head(ws_task_que).conn)
    /\ UNCHANGED <<conn, inVars, lockVars, task_que, roomVars, taskVars, audience>>

\* The label of the next step of the callback for a frame.
NextSafe(kind) ==
    CASE kind \in {"text", "empty"} -> "run" [] kind = "close" -> "leave" [] OTHER -> "flush"
Callback(kind) ==
    CASE kind = "text" -> "post" [] kind = "close" -> "leave" [] OTHER -> "flush"

\* What the callback writes: OnMessage sends an empty message back.
Answer(r, kind) ==
    CASE kind = "empty" -> Write(r, <<"echo", 0>>)
      [] kind = "ping" -> Write(r, <<"pong", 0>>)
      [] OTHER -> r

\* The callbacks are those of the session in the connection now: none, if it
\* has not subscribed.
RunFrame ==
    LET c == hand["ws"]
        r == conn[c]
    IN  /\ pc["ws"] = "run" /\ mtx_[c] = NULL
        /\ IF ~Open(c) THEN Release("ws", c, r)
           ELSE IF Upgraded(r) THEN Hold("ws", Callback(frame), c, Answer(r, frame))
           ELSE Hold("ws", "flush", c, r)
        /\ UNCHANGED <<inVars, clients_mtx_, queVars, roomVars, taskVars, frame, audience>>

\* Looking ws up in channel_index_map_ finds it.
Found(ws) == channel_index_map_[ws] # NULL

\* OnMessage: channel_index_map_ is read under task_mtx_, and what is read
\* while Subscribe changes it may be not found.
Post ==
    LET c == hand["ws"]
    IN  /\ pc["ws"] = "post"
        /\ \/ /\ Found(c)
              /\ TaskPush(channel_index_map_[c])
           \/ /\ ~Found(c) \/ clients_mtx_ = "worker"
              /\ UNCHANGED <<chat_que, audience>>
        /\ Goto("ws", "flush", c)
        /\ UNCHANGED <<conn, inVars, lockVars, queVars, roomVars, task, targets, frame>>

\* The client has sent CLOSE: OnClose, the connection staying open.
Leave ==
    LET c == hand["ws"]
    IN  /\ pc["ws"] = "leave"
        /\ OnClose(c)
        /\ Goto("ws", "flush", c)
        /\ UNCHANGED <<conn, inVars, mtx_, queVars, taskVars, frame>>

-----------------------------------------------------------------------------
(* TaskThread.                                                             *)

PopKeeping(q) == q
\* task_que_.pop().
Pop(q) == Tail(q)

TakeMessage ==
    /\ pc["task"] = "idle" /\ chat_que # <<>>
    /\ task' = Head(chat_que)
    /\ chat_que' = Pop(chat_que)
    /\ Goto("task", "lookup", NULL)
    /\ UNCHANGED <<conn, inVars, lockVars, queVars, roomVars, targets, frame, audience>>

\* On to one of the members in rest, in the order of their addresses: any.
NextTarget(rest) ==
    IF rest = {}
    THEN Goto("task", "idle", NULL) /\ targets' = {} /\ task' = NULL
    ELSE /\ \E c \in rest : Goto("task", "write", c) /\ targets' = rest \ {c}
         /\ UNCHANGED task

LookupHolding ==
    /\ pc["task"] = "lookup" /\ clients_mtx_ = NULL
    /\ NextTarget(clients_map_[task.room])
    /\ clients_mtx_' = IF clients_map_[task.room] = {} THEN NULL ELSE "task"
    /\ UNCHANGED <<conn, inVars, mtx_, queVars, roomVars, chat_que, frame, audience>>
\* The members are copied under clients_mtx_.
Lookup ==
    /\ pc["task"] = "lookup" /\ clients_mtx_ = NULL
    /\ NextTarget(clients_map_[task.room])
    /\ UNCHANGED <<conn, inVars, lockVars, queVars, roomVars, chat_que, frame, audience>>

\* WriteRawDataSafe, to whatever session the connection has by now; what Flush
\* returns is dropped.
WriteRawDataSafe ==
    LET c == hand["task"]
    IN  /\ pc["task"] = "write" /\ mtx_[c] = NULL
        /\ \E f \in Flush(Write(conn[c], <<"message", task.n>>)) :
               conn' = [conn EXCEPT ![c] = f.obj]
        /\ NextTarget(targets)
        /\ UNCHANGED <<inVars, lockVars, queVars, roomVars, chat_que, frame, audience>>

-----------------------------------------------------------------------------

LoopNext ==
    \/ \E c \in Conn :
           \/ Close(c) \/ OnWrite(c)
           \/ \E k \in Client : Accept(k, c)
           \/ \E q \in Request : ReadRequest(c, q)
           \/ \E kind \in Kind : ReadFrame(c, kind)
    \/ Reset("loop")

WorkerNext ==
    \/ TakeTask \/ RunTask \/ Subscribe \/ Insert \/ Publish
    \/ FlushConn("worker") \/ Reset("worker")

WsNext ==
    \/ TakeFrame \/ RunFrame \/ Post \/ Leave
    \/ FlushConn("ws") \/ Reset("ws")

TaskNext == TakeMessage \/ Lookup \/ WriteRawDataSafe

Next == LoopNext \/ WorkerNext \/ WsNext \/ TaskNext

Spec == Init /\ [][Next]_vars

-----------------------------------------------------------------------------
(* Safety.                                                                 *)

(***************************************************************************)
(* The members of a room are open WebSockets that have subscribed to it    *)
(* last: nobody is left in clients_map_ when the session ends, in          *)
(* whichever thread, and nobody is in two rooms, although                  *)
(* channel_index_map_, by which OnClose finds the room, still has the      *)
(* entries of the sessions before.                                         *)
(***************************************************************************)
MembersAreOpen ==
    \A room \in Room : \A ws \in clients_map_[room] :
        /\ Open(ws) /\ Upgraded(conn[ws])
        /\ channel_index_map_[ws] = room

\* Of a byte: whether it belongs to a message, and to which one.
IsMessage(b) == b[1][1] = "message"
Number(b) == b[1][2]

Ordered(s) ==
    \A i, j \in DOMAIN s :
        i < j /\ IsMessage(s[i]) /\ IsMessage(s[j])
        => \/ Number(s[i]) < Number(s[j])
           \/ s[i][1] = s[j][1] /\ s[i][2] < s[j][2]

(***************************************************************************)
(* A session gets the messages in the order in which they were queued, and *)
(* none twice, though POSTs, frames and recycled connections come between. *)
(***************************************************************************)
InOrder == \A c \in Conn : Ordered(Stream(conn[c]))

\* TaskThread is done with message n.
Done(n) ==
    /\ n \in DOMAIN audience
    /\ task # NULL => task.n # n
    /\ \A i \in DOMAIN chat_que : chat_que[i].n # n

\* The session of r gets message n, after the handshake.
Gets(r, n) ==
    LET s == Stream(r)
    IN  \E i, j \in DOMAIN s :
            /\ i < j
            /\ s[i][1] = <<"handshake", 0>> /\ s[j][1] = <<"message", n>>

(***************************************************************************)
(* A message reaches everyone who was in the room when it was queued and   *)
(* has not left, and reaches nobody before the handshake: no member is     *)
(* skipped because another one leaves, because a write to another one      *)
(* fails, or because it has only just subscribed.                          *)
(***************************************************************************)
NobodySkipped ==
    \A n \in DOMAIN audience : Done(n) =>
        \A k \in audience[n] : \E c \in Conn : conn[c].fd = k /\ Gets(conn[c], n)

\* The thread that has the mutex t is going to lock, if there is one.
WaitsFor(t) ==
    CASE pc[t] \in {"run", "write"} -> mtx_[hand[t]]
      [] pc[t] \in {"subscribe", "onclose", "leave", "lookup"} -> clients_mtx_
      [] OTHER -> NULL

(***************************************************************************)
(* No threads wait for each other in a circle: handlers and callbacks take *)
(* clients_mtx_ while they hold an mtx_, so nobody may take an mtx_ while  *)
(* it holds clients_mtx_, and a callback may not lock its own connection   *)
(* again (which WriteStringSafe and the other Safe functions do).          *)
(***************************************************************************)
NoLockCycle ==
    \A S \in SUBSET Thread : S # {} => \E t \in S : WaitsFor(t) \notin S
=============================================================================
