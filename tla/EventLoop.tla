------------------------------ MODULE EventLoop ------------------------------
(***************************************************************************)
(* One EventLoop of src/event_loop.cpp: the thread that polls, accepts,    *)
(* reads and writes (Loop), the thread that closes idle connections        *)
(* (CheckConnectionTimeout), and the threads that run the application's    *)
(* HTTP handlers (WorkerThread) and WebSocket callbacks                    *)
(* (WebSocketWorkerThread), with the Connection objects they share, the    *)
(* pool, the two task queues, edge-triggered epoll and the clients.        *)
(*                                                                         *)
(* Atomicity.  A thread locks the connection's mtx_ for the whole of its   *)
(* handler.  Inside one handler the other threads can see, besides the     *)
(* connection, only the pool and the queues, each behind a mutex held for  *)
(* one operation; so a handler is one action up to its last operation on   *)
(* the pool or a queue, and ResetConnection, which does two, is two: the   *)
(* socket and the object are reset and FreeListPush done (ResetConnection) *)
(* and then ActiveListErase (EraseClosed), mtx_ being held in between.     *)
(* ActiveListUpdate runs before the lock is taken and is two actions.      *)
(*                                                                         *)
(* Variants.  An uncommented definition right before a commented one is a  *)
(* mistake that could be made in the code the latter models (a forgotten   *)
(* close, a lock taken twice); no action uses it, and the properties are   *)
(* tested on the models it gives in the other's place.                     *)
(***************************************************************************)
EXTENDS ConnectionPool

CONSTANTS
    Client,     \* clients, each connecting once; a client is its socket
    LISTEN,     \* the pseudo connection listen_c_ of the listening socket
    MaxSends,   \* bound: how often the clients send, together
    Acts        \* what the application does: its handlers respond, upgrade or
                \* close, another thread of it pushes messages

ASSUME ClientAssumption == NULL \notin Client /\ LISTEN \notin Conn \cup Client
ASSUME BoundAssumption ==
    MaxSends \in Nat /\ Acts \subseteq {"respond", "upgrade", "close", "push"}

VARIABLES
    conn,           \* the Connection objects
    task_que,       \* requests for WorkerThread
    ws_task_que,    \* frames for WebSocketWorkerThread
    pc,             \* what each thread does next
    at,             \* the connection each thread has in hand
    clifd,          \* the socket Accept has taken and not yet given an object
    batch,          \* the events of the last Poll not yet dispatched
    task,           \* the item each worker took from its queue
    sock,           \* the sockets, as the kernel and the clients see them
    ready,          \* epoll's ready list: sockets with an unreported edge
    attached        \* auxiliary: clients whose WebSocket the application
                    \* holds: it upgraded them and was not told of their end

queVars == <<task_que, ws_task_que>>
netVars == <<sock, ready>>
vars == <<freeVars, activeVars, conn, queVars, pc, at, clifd, batch, task,
          netVars, attached>>

Thread == {"loop", "timeout", "worker", "ws"}

Status == {"HEADER_RECEIVING", "BODY_RECEIVING", "BODY_RECEIVED", "UPGRADE"}

\* active is active_time_ as the timeout thread judges it: 0 ("never"), or
\* less ("recent") or not less ("idle") than idle_timeout_ seconds ago; wbuf
\* says whether write_buffer_chain_ holds anything, error whether error_code_
\* is set; queued is auxiliary: the session's request was queued.
Object == [fd : Client \cup {NULL}, status : Status,
           active : {"never", "recent", "idle"}, wbuf : BOOLEAN,
           finish : BOOLEAN, error : BOOLEAN, ev_writable : BOOLEAN,
           queued : BOOLEAN]

\* A new Connection, and one that Connection::Reset has returned to that.
Fresh(finish) ==
         [fd |-> NULL, status |-> "HEADER_RECEIVING", active |-> "never",
          wbuf |-> FALSE, finish |-> finish, error |-> FALSE,
          ev_writable |-> FALSE, queued |-> FALSE]

\* A queue item is a pointer; client, the session it was queued for, is
\* auxiliary.
Task == [conn : Conn, client : Client]

Socket == [phase : {"new", "backlog", "open", "closed"}, sent : Nat,
           unread : BOOLEAN, gone : BOOLEAN, blocked : BOOLEAN]

NewSocket == [phase |-> "new", sent |-> 0, unread |-> FALSE, gone |-> FALSE,
              blocked |-> FALSE]
ClosedSocket == [NewSocket EXCEPT !.phase = "closed"]

Event == [conn : Conn \cup {LISTEN}, mask : SUBSET {"in", "out"}]

Labels(t) ==
    {"erase"} \cup
    IF t = "loop" THEN {"poll", "accept", "init", "push", "read"}
    ELSE IF t = "timeout" THEN {"start", "first", "peek", "sweep", "next"}
    ELSE {"idle", "run"}

\* Where a thread has a connection in hand.
HandFull == {"init", "push", "read", "peek", "sweep", "run", "erase"}

TypeOK ==
    /\ PoolTypeOK
    /\ conn \in [Conn -> Object]
    /\ task_que \in Seq(Task)
    /\ ws_task_que \in Seq(Task)
    /\ pc \in [Thread -> UNION {Labels(t) : t \in Thread}] /\ \A t \in Thread : pc[t] \in Labels(t)
    /\ at \in [Thread -> Ptr]
    /\ \A t \in Thread : pc[t] \in HandFull => at[t] \in Conn
    /\ clifd \in Client \cup {NULL}
    /\ batch \in SUBSET Event
    /\ task \in [{"worker", "ws"} -> Task \cup {NULL}]
    /\ sock \in [Client -> Socket]
    /\ ready \in SUBSET (Client \cup {LISTEN})
    /\ attached \in SUBSET Client

Init ==
    /\ PoolInit
    /\ conn = [c \in Conn |-> Fresh(FALSE)]
    /\ task_que = <<>>
    /\ ws_task_que = <<>>
    /\ pc = [t \in Thread |-> CASE t = "loop" -> "poll"
                                [] t = "timeout" -> "start"
                                [] OTHER -> "idle"]
    /\ at = [t \in Thread |-> NULL]
    /\ clifd = NULL
    /\ batch = {}
    /\ task = [t \in {"worker", "ws"} |-> NULL]
    /\ sock = [k \in Client |-> NewSocket]
    /\ ready = {}
    /\ attached = {}

LocksNothing(c) == FALSE
\* Some thread is inside a handler that has c->mtx_ locked.
Locked(c) == \E t \in Thread : pc[t] = "erase" /\ at[t] = c

Goto(t, label, c) ==
    /\ pc' = [pc EXCEPT ![t] = label]
    /\ at' = [at EXCEPT ![t] = c]

Rest(t) == CASE t = "loop" -> "poll" [] t = "timeout" -> "next"
             [] OTHER -> "idle"

-----------------------------------------------------------------------------
(* The clients and the kernel.                                             *)

Open(c) == conn[c].fd # NULL
Owner(k) == {c \in Conn : conn[c].fd = k}

\* Readable: data, or end of file.
Readable(k) == sock[k].unread \/ sock[k].gone

\* A wakeup of a registered socket puts it on the ready list.
Wake(k) == ready' = IF Owner(k) # {} THEN ready \cup {k} ELSE ready

EnvUnchanged ==
    UNCHANGED <<freeVars, activeVars, conn, queVars, pc, at, clifd, batch,
                task, attached>>

Connect(k) ==
    /\ sock[k].phase = "new"
    /\ sock' = [sock EXCEPT ![k].phase = "backlog"]
    /\ ready' = ready \cup {LISTEN}
    /\ EnvUnchanged

Sent == MapThenSumSet(LAMBDA k : sock[k].sent, Client)

Send(k) ==
    /\ sock[k].phase \in {"backlog", "open"}
    /\ ~sock[k].gone /\ Sent < MaxSends
    /\ sock' = [sock EXCEPT ![k].sent = @ + 1, ![k].unread = TRUE]
    /\ Wake(k)
    /\ EnvUnchanged

Leave(k) ==
    /\ sock[k].phase \in {"backlog", "open"} /\ ~sock[k].gone
    /\ sock' = [sock EXCEPT ![k].gone = TRUE]
    /\ Wake(k)
    /\ EnvUnchanged

\* The client reads, so that the server can write again.
Drain(k) ==
    /\ sock[k].blocked
    /\ sock' = [sock EXCEPT ![k].blocked = FALSE]
    /\ IF \E c \in Owner(k) : conn[c].ev_writable
       THEN ready' = ready \cup {k} ELSE UNCHANGED ready
    /\ EnvUnchanged

\* idle_timeout_ seconds pass after the last activity on c.
Age(c) ==
    /\ conn[c].active = "recent"
    /\ conn' = [conn EXCEPT ![c].active = "idle"]
    /\ UNCHANGED <<freeVars, activeVars, queVars, pc, at, clifd, batch, task,
                   netVars, attached>>

-----------------------------------------------------------------------------
(* What the handlers share.                                                *)

\* The object r with nothing left in write_buffer_chain_.
Drained(r) == [r EXCEPT !.wbuf = FALSE]

\* Connection::Flush of an object r whose socket is open: the outcomes, each
\* the ConnStatus returned, the object, and whether the socket is now full.
FlushedAll(r) ==
    [status |-> IF r.status = "UPGRADE" THEN "UPGRADE"
                ELSE IF r.finish THEN "END" ELSE "AGAIN",
     obj |-> Drained(r), full |-> FALSE]
FlushedPart(r) ==
    [status |-> IF sock[r.fd].gone THEN "ERROR" ELSE "AGAIN",
     obj |-> r, full |-> ~sock[r.fd].gone]

Flush(r) ==
    (IF r.wbuf /\ sock[r.fd].blocked THEN {} ELSE {FlushedAll(r)})
    \cup (IF r.wbuf THEN {FlushedPart(r)} ELSE {})

OnCloseTooLate(r) == UNCHANGED attached
\* The session of object r ends: on_close_func_ is called if it is a WebSocket.
OnClose(r) ==
    attached' = IF r.status = "UPGRADE" THEN attached \ {r.fd} ELSE attached

ResetUnclosed(c, fd, finish) ==
    conn' = [conn EXCEPT ![c] = Fresh(finish)] /\ UNCHANGED netVars
ResetKeepingChain(c, fd, finish) ==
    /\ conn' = [conn EXCEPT ![c] = [Fresh(finish) EXCEPT !.wbuf = @ \/ conn[c].wbuf]]
    /\ sock' = [sock EXCEPT ![fd] = ClosedSocket]
    /\ ready' = ready \ {fd}
\* Connection::Reset of c, whose socket is fd; finish is what is then made of
\* finish_.  Closing a socket takes it off the ready list.
Reset(c, fd, finish) ==
    /\ conn' = [conn EXCEPT ![c] = Fresh(finish)]
    /\ sock' = [sock EXCEPT ![fd] = ClosedSocket]
    /\ ready' = ready \ {fd}

\* EventLoop::ResetConnection by thread t, up to FreeListPush, of the open
\* connection c whose object is r.  OnClose comes before Reset, which clears
\* the status it looks at.
ResetConnectionTo(t, c, r, finish) ==
    /\ OnClose(r)
    /\ Reset(c, r.fd, finish)
    /\ FreeListPush(c)
    /\ Goto(t, "erase", c)
    /\ UNCHANGED activeVars

ResetConnection(t, c, r) == ResetConnectionTo(t, c, r, FALSE)

EraseClosedRelocking(t) ==
    /\ pc[t] = "erase" /\ ~Locked(at[t])
    /\ ActiveListErase(at[t])
    /\ Goto(t, Rest(t), NULL)
    /\ UNCHANGED <<freeVars, conn, queVars, clifd, batch, task, netVars, attached>>
\* The rest of ResetConnection, and the release of mtx_.
EraseClosed(t) ==
    /\ pc[t] = "erase"
    /\ ActiveListErase(at[t])
    /\ Goto(t, Rest(t), NULL)
    /\ UNCHANGED <<freeVars, conn, queVars, clifd, batch, task, netVars, attached>>

\* Thread t leaves its handler with c open, its object r and its socket s;
\* wake says that the socket goes on epoll's ready list.
Keep(t, c, r, s, wake) ==
    /\ conn' = [conn EXCEPT ![c] = r]
    /\ sock' = [sock EXCEPT ![r.fd] = s]
    /\ ready' = IF wake THEN ready \cup {r.fd} ELSE ready
    /\ Goto(t, Rest(t), NULL)
    /\ attached' = IF r.status = "UPGRADE" THEN attached \cup {r.fd} ELSE attached
    /\ UNCHANGED <<freeVars, activeVars>>

\* Thread t finds the connection it has locked closed and leaves its handler.
Skip(t) ==
    /\ Goto(t, Rest(t), NULL)
    /\ UNCHANGED <<freeVars, activeVars, conn, netVars, attached>>

-----------------------------------------------------------------------------
(* The event loop thread: Loop, Accept, OnRead, OnWrite.                   *)

\* What epoll_wait reports of a socket on the ready list: its present state.
\* EPOLLHUP is passed on as MEVENT_OUT.
Mask(k) == (IF Readable(k) THEN {"in"} ELSE {})
           \cup (IF sock[k].gone \/ (~sock[k].blocked
                        /\ \E c \in Owner(k) : conn[c].ev_writable)
                 THEN {"out"} ELSE {})

Backlog == {k \in Client : sock[k].phase = "backlog"}

Reported(e) ==
    IF e.conn = LISTEN
    THEN LISTEN \in ready /\ Backlog # {} /\ e.mask = {"in"}
    ELSE LET k == conn[e.conn].fd
         IN  k \in ready /\ e.mask = Mask(k) /\ e.mask # {}

Poll ==
    /\ pc["loop"] = "poll" /\ batch = {} /\ ready # {}
    /\ batch' = {e \in Event : Reported(e)}
    /\ ready' = {}
    /\ UNCHANGED <<freeVars, activeVars, conn, queVars, pc, at, clifd, task,
                   sock, attached>>

\* The next event of the batch; the kernel reports them in any order.
Dispatch(e) ==
    /\ pc["loop"] = "poll" /\ e \in batch
    /\ batch' = batch \ {e}

DispatchListen(e) ==
    /\ Dispatch(e) /\ e.conn = LISTEN
    /\ Goto("loop", "accept", NULL)
    /\ UNCHANGED <<freeVars, activeVars, conn, queVars, clifd, task, netVars,
                   attached>>

\* An event that is readable is not looked at for writing.  ActiveListUpdate
\* moves the connection to the tail of the active list, its two halves each
\* under active_list_mtx_ and neither under mtx_, whether or not another
\* thread closes or has closed the connection.
DispatchIn(e) ==
    /\ Dispatch(e) /\ e.conn # LISTEN /\ "in" \in e.mask
    /\ ActiveListErase(e.conn)
    /\ Goto("loop", "push", e.conn)
    /\ UNCHANGED <<freeVars, conn, queVars, clifd, task, netVars, attached>>

MoveToTail ==
    /\ pc["loop"] = "push"
    /\ ActiveListPush(at["loop"])
    /\ Goto("loop", "read", at["loop"])
    /\ UNCHANGED <<freeVars, conn, queVars, clifd, batch, task, netVars, attached>>

OnWrite(e) ==
    LET c == e.conn
    IN  /\ Dispatch(e) /\ c # LISTEN /\ "in" \notin e.mask
        /\ ~Locked(c)
        /\ IF ~Open(c)
           THEN Skip("loop")
           ELSE \E f \in Flush(conn[c]) :
                    IF f.status = "AGAIN"
                    THEN Keep("loop", c, f.obj,
                              [sock[f.obj.fd] EXCEPT !.blocked = @ \/ f.full],
                              FALSE)
                    ELSE ResetConnection("loop", c, f.obj)
        /\ UNCHANGED <<queVars, clifd, task>>

AcceptNone ==
    /\ pc["loop"] = "accept" /\ Backlog = {}
    /\ Goto("loop", "poll", NULL)
    /\ UNCHANGED <<freeVars, activeVars, conn, queVars, clifd, batch, task,
                   netVars, attached>>

\* accept() and FreeListPop.
AcceptConn(k) ==
    /\ pc["loop"] = "accept" /\ k \in Backlog
    /\ sock' = [sock EXCEPT ![k].phase = "open"]
    /\ clifd' = k
    /\ \E c \in Conn : /\ FreeListPopReuse(c) \/ FreeListPopNew(c)
                       /\ Goto("loop", "init", c)
    /\ UNCHANGED <<activeVars, conn, queVars, batch, task, ready, attached>>

AcceptRefuseUnclosed(k) ==
    /\ pc["loop"] = "accept" /\ k \in Backlog
    /\ FreeListPopFull
    /\ sock' = [sock EXCEPT ![k].phase = "open"]
    /\ Goto("loop", "poll", NULL)
    /\ UNCHANGED <<activeVars, conn, queVars, clifd, batch, task, ready, attached>>
\* The pool is exhausted: the client is closed and Accept returns, the rest
\* of the backlog staying where it is.
AcceptRefuse(k) ==
    /\ pc["loop"] = "accept" /\ k \in Backlog
    /\ FreeListPopFull
    /\ sock' = [sock EXCEPT ![k] = ClosedSocket]
    /\ Goto("loop", "poll", NULL)
    /\ UNCHANGED <<activeVars, conn, queVars, clifd, batch, task, ready, attached>>

\* The object gets its socket, the socket is registered (an edge that is
\* already there is reported) and the connection enters the active list.
AcceptInit ==
    LET c == at["loop"]
    IN  /\ pc["loop"] = "init" /\ ~Locked(c)
        /\ conn' = [conn EXCEPT ![c].fd = clifd, ![c].active = "recent"]
        /\ ready' = IF Readable(clifd) THEN ready \cup {clifd} ELSE ready
        /\ ActiveListPush(c)
        /\ clifd' = NULL
        /\ Goto("loop", "accept", NULL)
        /\ UNCHANGED <<freeVars, queVars, batch, task, sock, attached>>

AcceptFailReturning ==
    LET c == at["loop"]
    IN  /\ pc["loop"] = "init" /\ ~Locked(c)
        /\ Reset(c, clifd, FALSE)
        /\ FreeListPush(c)
        /\ clifd' = NULL
        /\ Goto("loop", "poll", NULL)
        /\ UNCHANGED <<activeVars, queVars, batch, task, attached>>
\* A system call on the new socket failed.
AcceptFail ==
    LET c == at["loop"]
    IN  /\ pc["loop"] = "init" /\ ~Locked(c)
        /\ Reset(c, clifd, FALSE)
        /\ FreeListPush(c)
        /\ clifd' = NULL
        /\ Goto("loop", "accept", NULL)
        /\ UNCHANGED <<activeVars, queVars, batch, task, attached>>

\* OnRead.  Bound: one read hands at most one frame to the WebSocket, and
\* everything sent before it is taken off the socket by it.
ReadNothing(c, r) ==
    /\ ~Readable(r.fd)
    /\ \/ r.status \in {"HEADER_RECEIVING", "UPGRADE"}
       \/ r.status = "BODY_RECEIVING" /\ ~r.error
    /\ Keep("loop", c, r, sock[r.fd], FALSE)
    /\ UNCHANGED queVars

ReadCloseIgnored(c, r) ==
    /\ sock[r.fd].gone
    /\ r.status # "BODY_RECEIVED" /\ ~(r.status = "BODY_RECEIVING" /\ r.error)
    /\ Keep("loop", c, r, sock[r.fd], FALSE)
    /\ UNCHANGED queVars
\* End of file or an error of the socket.
ReadClose(c, r) ==
    /\ sock[r.fd].gone
    /\ r.status # "BODY_RECEIVED" /\ ~(r.status = "BODY_RECEIVING" /\ r.error)
    /\ ResetConnection("loop", c, r)
    /\ UNCHANGED queVars

HasData(r) == sock[r.fd].unread /\ ~sock[r.fd].gone
Emptied(r) == [sock[r.fd] EXCEPT !.unread = FALSE]

\* Part of a request (status says how far it got), or part of a frame.
ReadPart(c, r) ==
    /\ HasData(r) /\ r.status # "BODY_RECEIVED"
    /\ r.error => r.status = "UPGRADE"
    /\ \E s \in {r.status, "BODY_RECEIVING"} :
           /\ s # r.status => r.status = "HEADER_RECEIVING"
           /\ Keep("loop", c, [r EXCEPT !.status = s], Emptied(r), FALSE)
    /\ UNCHANGED queVars

ReadRequestUnmarked(c, r) ==
    /\ HasData(r) /\ ~r.error
    /\ r.status \in {"HEADER_RECEIVING", "BODY_RECEIVING"}
    /\ task_que' = Append(task_que, [conn |-> c, client |-> r.fd])
    /\ Keep("loop", c, [r EXCEPT !.queued = TRUE], Emptied(r), FALSE)
    /\ UNCHANGED ws_task_que
\* The rest of a request: Connection::TaskPush.
ReadRequest(c, r) ==
    /\ HasData(r) /\ ~r.error
    /\ r.status \in {"HEADER_RECEIVING", "BODY_RECEIVING"}
    /\ task_que' = Append(task_que, [conn |-> c, client |-> r.fd])
    /\ Keep("loop", c, [r EXCEPT !.status = "BODY_RECEIVED", !.queued = TRUE],
            Emptied(r), FALSE)
    /\ UNCHANGED ws_task_que

\* A frame: Connection::WebSocketTaskPush.
ReadFrame(c, r) ==
    /\ HasData(r) /\ r.status = "UPGRADE"
    /\ ws_task_que' = Append(ws_task_que, [conn |-> c, client |-> r.fd])
    /\ Keep("loop", c, r, Emptied(r), FALSE)
    /\ UNCHANGED task_que

\* ReadData returned ERROR, leaving object r and socket s.  With an error code
\* the error page is written, and what cannot be sent of it waits for an event
\* nobody asked for.
OnError(c, r, s) ==
    /\ IF ~r.error
       THEN ResetConnection("loop", c, r)
       ELSE \E f \in Flush([r EXCEPT !.wbuf = TRUE, !.finish = TRUE]) :
                IF f.status = "AGAIN"
                THEN Keep("loop", c, f.obj, [s EXCEPT !.blocked = TRUE], FALSE)
                ELSE ResetConnection("loop", c, f.obj)
    /\ UNCHANGED queVars

\* The request is being handled: whatever the event was, it is given up.
ReadBusy(c, r) == r.status = "BODY_RECEIVED" /\ OnError(c, r, sock[r.fd])

\* A header that is malformed or too large, or announces too large a body.
ReadBadHeader(c, r) ==
    /\ HasData(r) /\ r.status = "HEADER_RECEIVING"
    /\ \E s \in {"HEADER_RECEIVING", "BODY_RECEIVING"} :
           /\ r.error => s = r.status
           /\ OnError(c, [r EXCEPT !.status = s, !.error = TRUE], Emptied(r))

\* The body is still too large.
ReadBadBody(c, r) ==
    r.status = "BODY_RECEIVING" /\ r.error /\ OnError(c, r, sock[r.fd])

\* A message too large for the WebSocket's buffer.
ReadOversized(c, r) ==
    HasData(r) /\ r.status = "UPGRADE" /\ OnError(c, r, Emptied(r))

\* ReadData sets active_time_ before it looks at the socket.
OnRead ==
    LET c == at["loop"]
        r == [conn[c] EXCEPT !.active = "recent"]
    IN  /\ pc["loop"] = "read" /\ ~Locked(c)
        /\ \/ ~Open(c) /\ Skip("loop") /\ UNCHANGED queVars
           \/ /\ Open(c)
              /\ \/ ReadNothing(c, r) \/ ReadClose(c, r)
                 \/ ReadPart(c, r) \/ ReadRequest(c, r) \/ ReadFrame(c, r)
                 \/ ReadBusy(c, r) \/ ReadBadHeader(c, r) \/ ReadBadBody(c, r)
                 \/ ReadOversized(c, r)
        /\ UNCHANGED <<clifd, batch, task>>

LoopNext ==
    \/ Poll \/ MoveToTail \/ AcceptNone \/ AcceptInit \/ AcceptFail \/ OnRead
    \/ \E e \in batch : DispatchListen(e) \/ DispatchIn(e) \/ OnWrite(e)
    \/ \E k \in Client : AcceptConn(k) \/ AcceptRefuse(k)
    \/ EraseClosed("loop")

-----------------------------------------------------------------------------
(* The timeout thread: CheckConnectionTimeout.  Its sleeps are the time it *)
(* stays at "start"; that a connection is idle is judged when it is looked *)
(* at, where the code compares with a clock read at the start of the sweep.*)

TimeoutUnchanged ==
    UNCHANGED <<queVars, clifd, batch, task>>

StartSweep ==
    /\ pc["timeout"] = "start"
    /\ ActiveListTimeoutCheck
    /\ Goto("timeout", "first", NULL)
    /\ UNCHANGED <<freeVars, conn, netVars, attached>>
    /\ TimeoutUnchanged

CheckNextUnguarded ==
    /\ pc["timeout"] \in {"first", "next"}
    /\ ActiveListCheckNext
    /\ Goto("timeout", IF pc["timeout"] = "first" THEN "peek" ELSE "sweep",
            active_list_lookup_cursor)
    /\ UNCHANGED <<freeVars, conn, netVars, attached>>
    /\ TimeoutUnchanged
\* The connection at the cursor, to be looked at for the first time in the
\* sweep ("peek") or after another ("sweep"); at the end, the next sweep.
CheckNext ==
    /\ pc["timeout"] \in {"first", "next"}
    /\ ActiveListCheckNext
    /\ Goto("timeout", IF active_list_lookup_cursor = NULL THEN "start"
                       ELSE IF pc["timeout"] = "first" THEN "peek" ELSE "sweep",
            active_list_lookup_cursor)
    /\ UNCHANGED <<freeVars, conn, netVars, attached>>
    /\ TimeoutUnchanged

\* If the first connection is not idle no other is: sleep and start again.
Peek ==
    LET c == at["timeout"]
    IN  /\ pc["timeout"] = "peek" /\ ~Locked(c)
        /\ IF conn[c].active = "recent"
           THEN Goto("timeout", "start", NULL)
           ELSE Goto("timeout", "sweep", c)
        /\ UNCHANGED <<freeVars, activeVars, conn, netVars, attached>>
        /\ TimeoutUnchanged

SweepUnchecked ==
    LET c == at["timeout"]
    IN  /\ pc["timeout"] = "sweep" /\ ~Locked(c)
        /\ IF conn[c].active = "recent"
           THEN /\ Goto("timeout", "start", NULL)
                /\ UNCHANGED <<freeVars, activeVars, conn, netVars, attached>>
           ELSE ResetConnection("timeout", c, conn[c])
        /\ TimeoutUnchanged
\* Close the connection if it is idle, pass over it if it is closed, and end
\* the sweep if it is neither.
Sweep ==
    LET c == at["timeout"]
    IN  /\ pc["timeout"] = "sweep" /\ ~Locked(c)
        /\ CASE conn[c].active = "never" -> Skip("timeout")
             [] conn[c].active = "idle" -> ResetConnection("timeout", c, conn[c])
             [] conn[c].active = "recent" ->
                    /\ Goto("timeout", "start", NULL)
                    /\ UNCHANGED <<freeVars, activeVars, conn, netVars, attached>>
        /\ TimeoutUnchanged

TimeoutNext == StartSweep \/ CheckNext \/ Peek \/ Sweep \/ EraseClosed("timeout")

-----------------------------------------------------------------------------
(* The worker threads: WorkerThread and WebSocketWorkerThread.             *)

FlushedUnasked(t, c, f) ==
    IF f.status \in {"AGAIN", "UPGRADE"}
    THEN Keep(t, c, f.obj, [sock[f.obj.fd] EXCEPT !.blocked = @ \/ f.full], FALSE)
    ELSE ResetConnection(t, c, f.obj)
\* What a worker does with the result f of Connection::Flush: on AGAIN the
\* connection is registered for writing too, if it is not already, and an
\* edge that is already there is reported again (EPOLL_CTL_MOD).
Flushed(t, c, f) ==
    CASE f.status = "AGAIN" ->
            LET s == [sock[f.obj.fd] EXCEPT !.blocked = @ \/ f.full]
            IN  Keep(t, c, [f.obj EXCEPT !.ev_writable = TRUE], s,
                     ~f.obj.ev_writable /\ (Readable(f.obj.fd) \/ ~s.blocked))
      [] f.status = "UPGRADE" -> Keep(t, c, f.obj, sock[f.obj.fd], FALSE)
      [] OTHER -> ResetConnection(t, c, f.obj)

TakeTask ==
    /\ pc["worker"] = "idle" /\ task_que # <<>>
    /\ task' = [task EXCEPT !["worker"] = Head(task_que)]
    /\ task_que' = Tail(task_que)
    /\ Goto("worker", "run", Head(task_que).conn)
    /\ UNCHANGED <<freeVars, activeVars, conn, ws_task_que, clifd, batch,
                   netVars, attached>>

\* The handler writes a response (or there is none and WorkerThread writes
\* the 404), and Response::Flush queues it, except on an upgraded connection.
Respond(c, r) ==
    /\ "respond" \in Acts
    /\ LET w == IF r.status = "UPGRADE" THEN r
                ELSE [r EXCEPT !.wbuf = TRUE, !.finish = TRUE]
       IN  \E f \in Flush(w) : Flushed("worker", c, f)

\* The handler calls WebSocket::Upgrade, which queues the handshake, and sets
\* its callbacks.  Bound: the key is taken to be the last header to arrive.
Upgrade(c, r) ==
    /\ "upgrade" \in Acts
    /\ r.status # "HEADER_RECEIVING"
    /\ \E f \in Flush([r EXCEPT !.status = "UPGRADE", !.wbuf = TRUE]) :
           Flushed("worker", c, f)

\* The handler calls Connection::Close.  Response::Flush still runs, on the
\* object that has been reset.
Close(c, r) ==
    /\ "close" \in Acts
    /\ ResetConnectionTo("worker", c, r, TRUE)

RunTask ==
    LET c == at["worker"]
    IN  /\ pc["worker"] = "run" /\ ~Locked(c)
        /\ IF ~Open(c)
           THEN Skip("worker")
           ELSE Respond(c, conn[c]) \/ Upgrade(c, conn[c]) \/ Close(c, conn[c])
        /\ task' = [task EXCEPT !["worker"] = NULL]
        /\ UNCHANGED <<queVars, clifd, batch>>

TakeFrame ==
    /\ pc["ws"] = "idle" /\ ws_task_que # <<>>
    /\ task' = [task EXCEPT !["ws"] = Head(ws_task_que)]
    /\ ws_task_que' = Tail(ws_task_que)
    /\ Goto("ws", "run", Head(ws_task_que).conn)
    /\ UNCHANGED <<freeVars, activeVars, conn, task_que, clifd, batch,
                   netVars, attached>>

\* The callback for the frame's opcode writes a frame, or nothing; on a
\* connection that is not, or no longer, a WebSocket it is null.
Callback(c, r) ==
    /\ \E w \in IF r.status = "UPGRADE" THEN {r, [r EXCEPT !.wbuf = TRUE]} ELSE {r} :
       \E f \in Flush(w) : Flushed("ws", c, f)

\* The callback calls Connection::Close.
CallbackClose(c, r) ==
    /\ "close" \in Acts
    /\ r.status = "UPGRADE"
    /\ ResetConnection("ws", c, r)

RunFrame ==
    LET c == at["ws"]
    IN  /\ pc["ws"] = "run" /\ ~Locked(c)
        /\ IF ~Open(c)
           THEN Skip("ws")
           ELSE Callback(c, conn[c]) \/ CallbackClose(c, conn[c])
        /\ task' = [task EXCEPT !["ws"] = NULL]
        /\ UNCHANGED <<queVars, clifd, batch>>

WorkerNext == TakeTask \/ RunTask \/ EraseClosed("worker")
WsNext == TakeFrame \/ RunFrame \/ EraseClosed("ws")

-----------------------------------------------------------------------------
(* A thread of the application sends on a WebSocket it holds: SendPongSafe,*)
(* SendPingSafe, WriteStringSafe and WriteRawDataSafe, which do the same.  *)
(* What Flush returns is dropped: an error closes nothing, and nobody asks *)
(* for the event that would let the rest be written.                       *)

Push(c) ==
    /\ "push" \in Acts
    /\ conn[c].fd \in attached /\ ~Locked(c)
    /\ \E f \in Flush([conn[c] EXCEPT !.wbuf = TRUE]) :
           /\ conn' = [conn EXCEPT ![c] = f.obj]
           /\ sock' = [sock EXCEPT ![f.obj.fd].blocked = @ \/ f.full]
    /\ UNCHANGED <<freeVars, activeVars, queVars, pc, at, clifd, batch, task,
                   ready, attached>>

-----------------------------------------------------------------------------

EnvNext ==
    \/ \E k \in Client : Connect(k) \/ Send(k) \/ Leave(k) \/ Drain(k)
    \/ \E c \in Conn : Age(c)

AppNext == \E c \in Conn : Push(c)

Next == LoopNext \/ TimeoutNext \/ WorkerNext \/ WsNext \/ AppNext \/ EnvNext

Spec == Init /\ [][Next]_vars

\* Each thread is scheduled for ever; the clients owe nothing.
FairSpec ==
    /\ Spec
    /\ WF_vars(LoopNext)
    /\ WF_vars(TimeoutNext)
    /\ WF_vars(WorkerNext)
    /\ WF_vars(WsNext)

-----------------------------------------------------------------------------
(* Safety.                                                                 *)

\* The connection Accept has popped and not yet given its socket.
Accepting(c) == pc["loop"] = "init" /\ at["loop"] = c

(***************************************************************************)
(* Every allocated connection has exactly one owner: the free list, a      *)
(* client, or Accept while it sets it up.  None is handed out twice and    *)
(* none is lost, although four threads race to close a connection          *)
(* (ResetConnection does nothing once the socket is closed) and a closed   *)
(* connection is back on the free list before it has left the active list. *)
(***************************************************************************)
OneOwner ==
    \A c \in Conn :
        /\ Open(c) => c \in created /\ ~OnFreeList(c) /\ ~Accepting(c)
        /\ Accepting(c) => c \in created /\ ~OnFreeList(c)
        /\ OnFreeList(c) => c \in created
        /\ c \in created => Open(c) \/ Accepting(c) \/ OnFreeList(c)

(***************************************************************************)
(* A socket taken from the backlog has one holder until it is closed:      *)
(* Accept, and then one connection.  A descriptor is not leaked, and not   *)
(* closed under another connection that has it.                            *)
(***************************************************************************)
Taken(k) == pc["loop"] = "init" /\ clifd = k

OneHolderPerSocket ==
    \A k \in Client :
        /\ sock[k].phase = "open" <=> Taken(k) \/ Owner(k) # {}
        /\ Taken(k) => Owner(k) = {}
        /\ \A c, d \in Owner(k) : c = d

(***************************************************************************)
(* A connection whose teardown has not finished is not touched: it stays   *)
(* closed and clean, even when Accept has already popped it from the free  *)
(* list, until the thread that closes it has erased it from the active     *)
(* list.                                                                   *)
(***************************************************************************)
TeardownExclusive ==
    \A t \in Thread : pc[t] = "erase" =>
        /\ ~Open(at[t])
        /\ \A u \in Thread \ {t} : pc[u] = "erase" => at[u] # at[t]

\* A closed connection carries nothing over to its next client but finish_.
ClosedIsClean ==
    \A c \in Conn : ~Open(c) => conn[c] \in {Fresh(FALSE), Fresh(TRUE)}

(***************************************************************************)
(* A session queues its request once: while it waits for the handler and   *)
(* afterwards, more data closes it or is the WebSocket's.                  *)
(***************************************************************************)
RequestQueuedOnce ==
    [][Len(task_que') > Len(task_que) => ~conn[Last(task_que').conn].queued]_vars

(***************************************************************************)
(* Accept does not leave a client in the backlog without an edge that will *)
(* bring the loop back: epoll reports the listening socket once for all    *)
(* that wait, and one whose setup fails must not end the round.  Only an   *)
(* exhausted pool does (FreeListPop returned NULL): the clients behind     *)
(* wait until another one connects.                                        *)
(***************************************************************************)
AcceptTakesAll ==
    [][ pc["loop"] \in {"accept", "init"} /\ pc'["loop"] = "poll"
        => \/ \A k \in Client : sock'[k].phase # "backlog"
           \/ LISTEN \in ready'
           \/ free_list_head' = NULL /\ count' > MaxConn ]_vars

(***************************************************************************)
(* The application is told (on_close_func_) of the end of every session    *)
(* that became a WebSocket, whichever thread closes it and for whatever    *)
(* reason: a WebSocket it still holds is open, and still is one.           *)
(***************************************************************************)
EveryWebSocketNotified ==
    \A k \in attached : \E c \in Owner(k) : conn[c].status = "UPGRADE"

-----------------------------------------------------------------------------
(* Liveness.                                                               *)

\* The session of a client that has left is closed.
GoneIsClosed ==
    \A k \in Client :
        (\E c \in Conn : conn[c].fd = k) /\ sock[k].gone ~> sock[k].phase = "closed"

\* No request and no frame waits in a queue for ever, whatever the other
\* threads do to its connection: it is taken, and the worker comes back, never
\* waiting for ever for an mtx_ (ResetConnection takes the pool's mutexes while
\* it holds one).
QueuesAreServed ==
    /\ task_que # <<>> ~> pc["worker"] = "run"
    /\ ws_task_que # <<>> ~> pc["ws"] = "run"
    /\ []<>(pc["worker"] = "idle")
    /\ []<>(pc["ws"] = "idle")

\* What is left of a response that did not fit into the socket goes on being
\* sent: when the client has made room the event loop writes again, on an
\* edge that the worker has to ask for and that is reported once, until the
\* socket is full again or the session is closed.  (Not so for the pages that
\* OnRead writes and the frames of a WebSocket.)
Unsent(c, k) ==
    /\ conn[c].fd = k /\ conn[c].status = "BODY_RECEIVED"
    /\ conn[c].queued /\ conn[c].wbuf /\ ~sock[k].blocked

ResponsesAreSent ==
    \A c \in Conn, k \in Client :
        Unsent(c, k) ~> conn[c].fd # k \/ sock[k].blocked

-----------------------------------------------------------------------------
(* What does not hold.                                                     *)

(***************************************************************************)
(* Every open connection is on the active list (the timeout thread finds   *)
(* idle connections there and nowhere else), but for the moment in which   *)
(* the loop moves it to the tail.                                          *)
(***************************************************************************)
OpenIsActive ==
    \A c \in Conn :
        Open(c) /\ ~(pc["loop"] = "push" /\ at["loop"] = c)
        => c \in ToSet(ActiveList)

(***************************************************************************)
(* A handler runs on the session that submitted the request, or not at all.*)
(***************************************************************************)
RunsOwnRequest ==
    [][\A t \in {"worker", "ws"} :
           pc[t] = "run" /\ pc'[t] # "run"
           => conn[at[t]].fd \in {NULL, task[t].client}]_vars
=============================================================================
