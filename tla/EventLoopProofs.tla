--------------------------- MODULE EventLoopProofs ---------------------------
(***************************************************************************)
(* The event loop never hands a connection to two clients, never loses     *)
(* one, never tears one down twice and never forgets to tell the           *)
(* application of the end of a WebSocket: for any number of connections,   *)
(* clients and sends, whatever state the active list is in.                *)
(*                                                                         *)
(* The inductive invariant IInv is the conjunction of the type invariant   *)
(* and of all safety invariants: each needs the others.  That              *)
(* ResetConnection pushes a connection that is not on the free list is     *)
(* OneOwner for an open connection; that nobody reopens a connection       *)
(* during its teardown is TeardownExclusive; that a pop yields a clean     *)
(* object is ClosedIsClean.  The handlers are of three kinds, one lemma    *)
(* each: they close their connection (Resets), keep it (Keeps), or touch   *)
(* nothing the invariant speaks of (Quiet); Accept's steps are apart.      *)
(*                                                                         *)
(* The action properties come last.  RequestQueuedOnce needs an invariant  *)
(* of its own beside IInv: a session whose request was queued has left the *)
(* states in which OnRead looks for one (QueuedIsRequest).                 *)
(* AcceptTakesAll follows from the control of the loop alone: of the steps *)
(* that leave Accept only two lead back to Poll.                           *)
(***************************************************************************)
EXTENDS EventLoop, ConnectionPoolProofs

ThreadTypeOK ==
    /\ pc \in [Thread -> UNION {Labels(t) : t \in Thread}] /\ \A t \in Thread : pc[t] \in Labels(t)
    /\ at \in [Thread -> Ptr]
    /\ \A t \in Thread : pc[t] \in HandFull => at[t] \in Conn

ObjectTypeOK ==
    /\ conn \in [Conn -> Object]
    /\ sock \in [Client -> Socket]
    /\ ready \in SUBSET (Client \cup {LISTEN})
    /\ attached \in SUBSET Client

QueueTypeOK ==
    /\ task_que \in Seq(Task)
    /\ ws_task_que \in Seq(Task)
    /\ clifd \in Client \cup {NULL}
    /\ batch \in SUBSET Event
    /\ task \in [{"worker", "ws"} -> Task \cup {NULL}]

LEMMA TypeSplits ==
    TypeOK <=> /\ FreeTypeOK /\ ActiveTypeOK
               /\ ThreadTypeOK /\ ObjectTypeOK /\ QueueTypeOK
BY PoolTypeSplits DEF TypeOK, ThreadTypeOK, ObjectTypeOK, QueueTypeOK

LEMMA TypeJoins ==
    /\ FreeTypeOK' /\ ActiveTypeOK'
    /\ ThreadTypeOK' /\ ObjectTypeOK' /\ QueueTypeOK'
    => TypeOK'
BY DEF TypeOK, PoolTypeOK, FreeTypeOK, ActiveTypeOK, ThreadTypeOK, ObjectTypeOK,
       QueueTypeOK

Safe ==
    /\ FreeListWellFormed
    /\ OneOwner
    /\ OneHolderPerSocket
    /\ TeardownExclusive
    /\ ClosedIsClean
    /\ EveryWebSocketNotified

IInv == TypeOK /\ (clifd \in Client <=> pc["loop"] = "init") /\ Safe

\* What a step has to establish but for the types of the queues.
HandlerOK ==
    /\ FreeTypeOK' /\ ActiveTypeOK' /\ ThreadTypeOK' /\ ObjectTypeOK'
    /\ (clifd \in Client <=> pc["loop"] = "init")'
    /\ Safe'

-----------------------------------------------------------------------------
(* Threads and objects.                                                    *)

LEMMA ThreadsApart ==
    /\ "loop" \in Thread /\ "timeout" \in Thread /\ "worker" \in Thread /\ "ws" \in Thread
    /\ \A t \in Thread : /\ Rest(t) \in Labels(t) /\ "erase" \in Labels(t)
                         /\ Rest(t) \notin HandFull
                         /\ t # "loop" => "init" \notin Labels(t)
BY DEF Thread, Rest, Labels, HandFull

\* A thread that goes on leaves the others where they are.
LEMMA GotoMoves ==
    ASSUME ThreadTypeOK, NEW t \in Thread, NEW label \in Labels(t), NEW c \in Ptr,
           label \in HandFull => c \in Conn,
           Goto(t, label, c)
    PROVE  /\ ThreadTypeOK'
           /\ \A u \in Thread : /\ pc'[u] = IF u = t THEN label ELSE pc[u]
                                /\ at'[u] = IF u = t THEN c ELSE at[u]
<1>1. label \in UNION {Labels(u) : u \in Thread}
  OBVIOUS
<1>2. \A u \in Thread : /\ pc'[u] = IF u = t THEN label ELSE pc[u]
                        /\ at'[u] = IF u = t THEN c ELSE at[u]
  BY DEF Goto, ThreadTypeOK
<1>3. pc' \in [Thread -> UNION {Labels(u) : u \in Thread}] /\ at' \in [Thread -> Ptr]
  BY <1>1 DEF Goto, ThreadTypeOK
<1> QED
  BY <1>2, <1>3 DEF ThreadTypeOK

LEMMA FreshIsClean ==
    \A finish \in BOOLEAN :
        /\ Fresh(finish) \in Object /\ Fresh(finish).fd = NULL
        /\ Fresh(finish) \in {Fresh(FALSE), Fresh(TRUE)}
BY DEF Fresh, Object, Status

LEMMA SocketTypes == NewSocket \in Socket /\ ClosedSocket \in Socket
BY DEF NewSocket, ClosedSocket, Socket

\* Flush writes to the socket and changes nothing else of the object.
LEMMA FlushOutcome ==
    ASSUME NEW r \in Object, NEW f \in Flush(r)
    PROVE  /\ f.obj \in Object /\ f.obj.fd = r.fd /\ f.obj.status = r.status
           /\ f.full \in BOOLEAN
<1>1. /\ Drained(r) \in Object
      /\ Drained(r).fd = r.fd
      /\ Drained(r).status = r.status
  BY DEF Object, Drained
<1>2. /\ FlushedAll(r).obj = Drained(r) /\ FlushedPart(r).obj = r
      /\ FlushedAll(r).full \in BOOLEAN /\ FlushedPart(r).full \in BOOLEAN
  BY DEF FlushedAll, FlushedPart
<1>3. f = FlushedAll(r) \/ f = FlushedPart(r)
  BY DEF Flush
<1>4. /\ f.obj = r \/ f.obj = Drained(r)
      /\ f.full \in BOOLEAN
  BY <1>2, <1>3
<1> QED
  BY <1>1, <1>4

-----------------------------------------------------------------------------
(* The three kinds of handlers.                                            *)

\* ResetConnection, whichever thread calls it and however it got there.
LEMMA Resets ==
    ASSUME IInv, UNCHANGED clifd,
           NEW t \in Thread, NEW c \in Conn, NEW r \in Object,
           NEW finish \in BOOLEAN,
           pc[t] \notin {"erase", "init"}, ~Locked(c), Open(c),
           r.fd = conn[c].fd,
           conn[c].status = "UPGRADE" => r.status = "UPGRADE",
           ResetConnectionTo(t, c, r, finish)
    PROVE  HandlerOK
<1> USE ConnAssumption, ClientAssumption
<1>1. /\ FreeTypeOK /\ ActiveTypeOK /\ ThreadTypeOK /\ ObjectTypeOK
      /\ Safe /\ (clifd \in Client <=> pc["loop"] = "init")
  BY TypeSplits DEF IInv
<1>2. /\ FreeListPush(c) /\ Goto(t, "erase", c) /\ UNCHANGED activeVars
      /\ conn' = [conn EXCEPT ![c] = Fresh(finish)]
      /\ sock' = [sock EXCEPT ![r.fd] = ClosedSocket]
      /\ ready' = ready \ {r.fd}
      /\ attached' = IF r.status = "UPGRADE" THEN attached \ {r.fd} ELSE attached
  BY DEF ResetConnectionTo, Reset, OnClose
<1>3. r.fd \in Client
  BY DEF Object, Open
<1>4. ~OnFreeList(c)
  BY <1>1 DEF Safe, OneOwner
<1>5. /\ FreeTypeOK' /\ FreeListWellFormed' /\ created' = created
      /\ \A d \in Conn : OnFreeList(d)' <=> OnFreeList(d) \/ d = c
  BY <1>1, <1>2, <1>4, PushFreeList DEF Safe
<1>6. /\ ThreadTypeOK'
      /\ \A u \in Thread : /\ pc'[u] = IF u = t THEN "erase" ELSE pc[u]
                           /\ at'[u] = IF u = t THEN c ELSE at[u]
  BY <1>1, <1>2, ThreadsApart, GotoMoves DEF Ptr
<1>7. ActiveTypeOK'
  BY <1>1, <1>2, ActiveListTypes
<1>8. /\ Fresh(finish) \in Object /\ Fresh(finish).fd = NULL
      /\ Fresh(finish) \in {Fresh(FALSE), Fresh(TRUE)}
  BY FreshIsClean
<1>9. /\ \A d \in Conn : conn'[d] = IF d = c THEN Fresh(finish) ELSE conn[d]
      /\ \A k \in Client : sock'[k] = IF k = r.fd THEN ClosedSocket ELSE sock[k]
  BY <1>1, <1>2, <1>3 DEF ObjectTypeOK
<1>10. ObjectTypeOK'
  BY <1>1, <1>2, <1>3, <1>8, SocketTypes DEF ObjectTypeOK
<1>11. /\ pc'["loop"] = "init" <=> pc["loop"] = "init"
       /\ pc["loop"] = "init" => at'["loop"] = at["loop"]
  BY <1>6, ThreadsApart
<1>12. OneOwner'
  BY <1>1, <1>5, <1>8, <1>9, <1>11 DEF Safe, OneOwner, Open, Accepting
<1>13. \A k \in Client : Owner(k)' = Owner(k) \ {c}
  BY <1>8, <1>9 DEF Owner
<1>14. Owner(r.fd) = {c}
  BY <1>1, <1>3 DEF Safe, OneHolderPerSocket, Owner
<1>15. OneHolderPerSocket'
  <2> SUFFICES ASSUME NEW k \in Client
               PROVE  /\ sock'[k].phase = "open" <=> Taken(k)' \/ Owner(k)' # {}
                      /\ Taken(k)' => Owner(k)' = {}
                      /\ \A d, e \in Owner(k)' : d = e
    BY DEF OneHolderPerSocket
  <2>1. Taken(k)' <=> Taken(k)
    BY <1>11 DEF Taken
  <2>2. CASE k = r.fd
    <3>1. Owner(k)' = {} /\ ~Taken(k)
      BY <1>1, <1>13, <1>14, <2>2 DEF Safe, OneHolderPerSocket
    <3>2. sock'[k].phase = "closed"
      BY <1>9, <2>2 DEF ClosedSocket, NewSocket
    <3> QED
      BY <2>1, <3>1, <3>2
  <2>3. CASE k # r.fd
    <3>1. Owner(k)' = Owner(k)
      BY <1>13, <2>3 DEF Owner
    <3> QED
      BY <1>1, <1>9, <2>1, <2>3, <3>1 DEF Safe, OneHolderPerSocket
  <2> QED
    BY <2>2, <2>3
<1>16. TeardownExclusive'
  <2>1. \A u \in Thread : pc[u] = "erase" => at[u] \in Conn /\ at[u] # c /\ u # t
    BY <1>1 DEF ThreadTypeOK, HandFull, Locked
  <2>2. \A u \in Thread : pc'[u] = "erase" => ~Open(at[u])'
    BY <1>1, <1>6, <1>8, <1>9, <2>1 DEF Safe, TeardownExclusive, Open
  <2> QED
    BY <1>1, <1>6, <1>8, <1>9, <2>1, <2>2 DEF Safe, TeardownExclusive, Open
<1>17. ClosedIsClean'
  BY <1>1, <1>8, <1>9 DEF Safe, ClosedIsClean, Open
<1>18. EveryWebSocketNotified'
  <2> SUFFICES ASSUME NEW k \in attached'
               PROVE  \E d \in Owner(k)' : conn'[d].status = "UPGRADE"
    BY DEF EveryWebSocketNotified
  <2>1. k \in attached /\ k \in Client
    BY <1>1, <1>2 DEF ObjectTypeOK
  <2>2. PICK d \in Owner(k) : conn[d].status = "UPGRADE"
    BY <1>1, <2>1 DEF Safe, EveryWebSocketNotified
  <2>3. d # c
    BY <1>2, <2>2 DEF Owner
  <2> QED
    BY <1>9, <1>13, <2>1, <2>2, <2>3 DEF Owner
<1> QED
  BY <1>1, <1>5, <1>6, <1>7, <1>10, <1>11, <1>12, <1>15, <1>16, <1>17, <1>18
  DEF Safe, HandlerOK

\* A handler that leaves its connection open with the same socket, and a
\* WebSocket a WebSocket.
LEMMA Keeps ==
    ASSUME IInv, UNCHANGED clifd,
           NEW t \in Thread, NEW c \in Conn, NEW r \in Object, NEW s \in Socket,
           NEW wake,
           pc[t] \notin {"erase", "init"}, Open(c),
           r.fd = conn[c].fd, s.phase = sock[r.fd].phase,
           conn[c].status = "UPGRADE" => r.status = "UPGRADE",
           Keep(t, c, r, s, wake)
    PROVE  HandlerOK
<1> USE ConnAssumption, ClientAssumption
<1>1. /\ FreeTypeOK /\ ActiveTypeOK /\ ThreadTypeOK /\ ObjectTypeOK
      /\ Safe /\ (clifd \in Client <=> pc["loop"] = "init")
  BY TypeSplits DEF IInv
<1>2. /\ Goto(t, Rest(t), NULL) /\ UNCHANGED freeVars /\ UNCHANGED activeVars
      /\ conn' = [conn EXCEPT ![c] = r]
      /\ sock' = [sock EXCEPT ![r.fd] = s]
      /\ ready' = IF wake THEN ready \cup {r.fd} ELSE ready
      /\ attached' = IF r.status = "UPGRADE" THEN attached \cup {r.fd} ELSE attached
  BY DEF Keep
<1>3. r.fd \in Client
  BY DEF Object, Open
<1>4. /\ FreeTypeOK' /\ FreeListWellFormed' /\ created' = created
      /\ \A d \in Conn : OnFreeList(d)' <=> OnFreeList(d)
  BY <1>1, <1>2, FreeListStutters DEF Safe
<1>5. /\ ThreadTypeOK'
      /\ \A u \in Thread : /\ pc'[u] = IF u = t THEN Rest(t) ELSE pc[u]
                           /\ at'[u] = IF u = t THEN NULL ELSE at[u]
  BY <1>1, <1>2, ThreadsApart, GotoMoves DEF Ptr
<1>6. ActiveTypeOK'
  BY <1>1, <1>2, ActiveListTypes
<1>7. /\ \A d \in Conn : conn'[d] = IF d = c THEN r ELSE conn[d]
      /\ \A k \in Client : sock'[k] = IF k = r.fd THEN s ELSE sock[k]
  BY <1>1, <1>2, <1>3 DEF ObjectTypeOK
<1>8. ObjectTypeOK'
  BY <1>1, <1>2, <1>3 DEF ObjectTypeOK
<1>9. /\ pc'["loop"] = "init" <=> pc["loop"] = "init"
      /\ pc["loop"] = "init" => at'["loop"] = at["loop"]
      /\ \A u \in Thread : pc'[u] = "erase" =>
             u # t /\ pc[u] = "erase" /\ at'[u] = at[u]
  BY <1>5, ThreadsApart DEF HandFull
<1>10. /\ \A d \in Conn : Open(d)' <=> Open(d)
       /\ \A k \in Client : Owner(k)' = Owner(k)
  BY <1>7 DEF Open, Owner
<1>11. OneOwner'
  BY <1>1, <1>4, <1>9, <1>10 DEF Safe, OneOwner, Accepting
<1>12. OneHolderPerSocket'
  <2>1. \A k \in Client : (Taken(k)' <=> Taken(k)) /\ sock'[k].phase = sock[k].phase
    BY <1>7, <1>9 DEF Taken
  <2> QED
    BY <1>1, <1>10, <2>1 DEF Safe, OneHolderPerSocket
<1>13. TeardownExclusive'
  <2>1. \A u \in Thread : pc[u] = "erase" => at[u] \in Conn
    BY <1>1 DEF ThreadTypeOK, HandFull
  <2> QED
    BY <1>1, <1>9, <1>10, <2>1 DEF Safe, TeardownExclusive, Open
<1>14. ClosedIsClean'
  BY <1>1, <1>7, <1>10 DEF Safe, ClosedIsClean
<1>15. EveryWebSocketNotified'
  <2> SUFFICES ASSUME NEW k \in attached'
               PROVE  \E d \in Owner(k)' : conn'[d].status = "UPGRADE"
    BY DEF EveryWebSocketNotified
  <2>1. CASE k \in attached
    <3>1. PICK d \in Owner(k) : conn[d].status = "UPGRADE"
      BY <1>1, <2>1 DEF Safe, EveryWebSocketNotified
    <3>2. k \in Client /\ d \in Conn
      BY <1>1, <2>1 DEF ObjectTypeOK, Owner
    <3> QED
      BY <1>7, <1>10, <3>1, <3>2
  <2>2. CASE k \notin attached
    <3>1. k = r.fd /\ r.status = "UPGRADE"
      BY <1>2, <2>2
    <3>2. c \in Owner(k)' /\ conn'[c].status = "UPGRADE"
      BY <1>7, <3>1 DEF Owner
    <3> QED
      BY <3>2
  <2> QED
    BY <2>1, <2>2
<1> QED
  BY <1>1, <1>2, <1>4, <1>5, <1>6, <1>8, <1>9, <1>11, <1>12, <1>13, <1>14, <1>15
  DEF Safe, HandlerOK

\* A step that changes no connection's session and touches no closed
\* connection, that opens and closes no socket, and in which no thread starts
\* to set up or to tear down a connection.
LEMMA Quiet ==
    ASSUME IInv, UNCHANGED <<clifd, freeVars, attached>>,
           ActiveTypeOK', ThreadTypeOK', ObjectTypeOK',
           \A u \in Thread :
               \/ pc'[u] = pc[u] /\ at'[u] = at[u]
               \/ pc[u] # "init" /\ pc'[u] \notin {"erase", "init"},
           \A c \in Conn : /\ conn'[c].fd = conn[c].fd
                           /\ conn'[c].status = conn[c].status
                           /\ ~Open(c) => conn'[c] = conn[c],
           \A k \in Client : sock'[k].phase = "open" <=> sock[k].phase = "open"
    PROVE  HandlerOK
<1>1. /\ FreeTypeOK /\ ThreadTypeOK /\ ObjectTypeOK
      /\ Safe /\ (clifd \in Client <=> pc["loop"] = "init")
  BY TypeSplits DEF IInv
<1>2. /\ FreeTypeOK' /\ FreeListWellFormed' /\ created' = created
      /\ \A d \in Conn : OnFreeList(d)' <=> OnFreeList(d)
  BY <1>1, FreeListStutters DEF Safe
<1>3. /\ pc'["loop"] = "init" <=> pc["loop"] = "init"
      /\ pc["loop"] = "init" => at'["loop"] = at["loop"]
      /\ \A u \in Thread : pc'[u] = "erase" => pc[u] = "erase" /\ at'[u] = at[u]
  BY ThreadsApart
<1>4. /\ \A d \in Conn : Open(d)' <=> Open(d)
      /\ \A k \in Client : Owner(k)' = Owner(k)
  BY DEF Open, Owner
<1>5. OneOwner'
  BY <1>1, <1>2, <1>3, <1>4 DEF Safe, OneOwner, Accepting
<1>6. OneHolderPerSocket'
  <2>1. \A k \in Client : Taken(k)' <=> Taken(k)
    BY <1>3 DEF Taken
  <2> QED
    BY <1>1, <1>4, <2>1 DEF Safe, OneHolderPerSocket
<1>7. TeardownExclusive'
  <2>1. \A u \in Thread : pc[u] = "erase" => at[u] \in Conn
    BY <1>1 DEF ThreadTypeOK, HandFull
  <2> QED
    BY <1>1, <1>3, <1>4, <2>1 DEF Safe, TeardownExclusive, Open
<1>8. ClosedIsClean'
  BY <1>1, <1>4 DEF Safe, ClosedIsClean
<1>9. EveryWebSocketNotified'
  <2> SUFFICES ASSUME NEW k \in attached'
               PROVE  \E d \in Owner(k)' : conn'[d].status = "UPGRADE"
    BY DEF EveryWebSocketNotified
  <2>1. PICK d \in Owner(k) : conn[d].status = "UPGRADE"
    BY <1>1 DEF Safe, EveryWebSocketNotified
  <2>2. k \in Client /\ d \in Conn
    BY <1>1, <2>1 DEF ObjectTypeOK, Owner
  <2> QED
    BY <1>4, <2>1, <2>2
<1> QED
  BY <1>1, <1>2, <1>3, <1>5, <1>6, <1>7, <1>8, <1>9 DEF Safe, HandlerOK

\* A thread goes on with nothing done but an operation on the active list.
LEMMA Moves ==
    ASSUME IInv, UNCHANGED <<clifd, freeVars, conn, netVars, attached>>, ActiveTypeOK',
           NEW t \in Thread, NEW label \in Labels(t), NEW c \in Ptr,
           pc[t] # "init", label \notin {"erase", "init"},
           label \in HandFull => c \in Conn,
           Goto(t, label, c)
    PROVE  HandlerOK
<1>1. ThreadTypeOK /\ ObjectTypeOK
  BY TypeSplits DEF IInv
<1>2. /\ ThreadTypeOK'
      /\ \A u \in Thread : /\ pc'[u] = IF u = t THEN label ELSE pc[u]
                           /\ at'[u] = IF u = t THEN c ELSE at[u]
  BY <1>1, GotoMoves
<1>3. ObjectTypeOK'
  BY <1>1 DEF ObjectTypeOK, netVars
<1>4. \A k \in Client : sock'[k].phase = "open" <=> sock[k].phase = "open"
  BY DEF netVars
<1> QED
  BY <1>2, <1>3, <1>4, Quiet

LEMMA Skips ==
    ASSUME IInv, UNCHANGED clifd, NEW t \in Thread, pc[t] # "init", Skip(t)
    PROVE  HandlerOK
<1>1. /\ Goto(t, Rest(t), NULL)
      /\ UNCHANGED <<clifd, freeVars, conn, netVars, attached>> /\ UNCHANGED activeVars
  BY DEF Skip
<1>2. ActiveTypeOK'
  BY <1>1, TypeSplits DEF IInv, activeVars, ActiveTypeOK
<1>3. Rest(t) \in Labels(t) /\ Rest(t) \notin {"erase", "init"} /\ Rest(t) \notin HandFull
  BY ThreadsApart DEF HandFull
<1> QED
  BY <1>1, <1>2, <1>3, Moves DEF Ptr

LEMMA PartsJoin == HandlerOK /\ QueueTypeOK' => IInv'
BY TypeJoins DEF IInv, HandlerOK

-----------------------------------------------------------------------------
(* Accept.                                                                 *)

\* The connection popped is nobody's, and so is the socket.
LEMMA AcceptConnStep ==
    ASSUME IInv, NEW k \in Client, AcceptConn(k)
    PROVE  IInv'
<1> USE ConnAssumption, ClientAssumption
<1>1. /\ FreeTypeOK /\ ActiveTypeOK /\ ThreadTypeOK /\ ObjectTypeOK /\ QueueTypeOK
      /\ Safe /\ (clifd \in Client <=> pc["loop"] = "init")
  BY TypeSplits DEF IInv
<1>2. /\ pc["loop"] = "accept" /\ sock[k].phase = "backlog"
      /\ sock' = [sock EXCEPT ![k].phase = "open"]
      /\ clifd' = k
      /\ UNCHANGED activeVars /\ UNCHANGED queVars
      /\ UNCHANGED <<conn, batch, task, ready, attached>>
  BY DEF AcceptConn, Backlog
<1>3. PICK c \in Conn : /\ FreeListPopReuse(c) \/ FreeListPopNew(c)
                        /\ Goto("loop", "init", c)
  BY DEF AcceptConn
<1>4. /\ FreeTypeOK' /\ FreeListWellFormed'
      /\ created' = created \cup {c}
      /\ \A d \in Conn : OnFreeList(d)' <=> OnFreeList(d) /\ d # c
      /\ OnFreeList(c) \/ c \notin created
  <2>1. CASE FreeListPopReuse(c)
    BY <1>1, <2>1, PopReuse DEF Safe, OneOwner
  <2>2. CASE FreeListPopNew(c)
    BY <1>1, <2>2, PopNew DEF Safe
  <2> QED
    BY <1>3, <2>1, <2>2
<1>5. ~Open(c)
  BY <1>1, <1>4 DEF Safe, OneOwner
<1>6. /\ ThreadTypeOK'
      /\ \A u \in Thread : /\ pc'[u] = IF u = "loop" THEN "init" ELSE pc[u]
                           /\ at'[u] = IF u = "loop" THEN c ELSE at[u]
  <2>1. "init" \in Labels("loop")
    BY DEF Labels
  <2> QED
    BY <1>1, <1>3, <2>1, ThreadsApart, GotoMoves DEF Ptr
<1>7. /\ pc'["loop"] = "init" /\ at'["loop"] = c
      /\ \A u \in Thread : pc'[u] = "erase" =>
             u # "loop" /\ pc[u] = "erase" /\ at'[u] = at[u]
  BY <1>6, ThreadsApart
<1>8. ActiveTypeOK'
  BY <1>1, <1>2, <1>3, ActiveListTypes
<1>9. /\ [sock[k] EXCEPT !.phase = "open"] \in Socket
      /\ [sock[k] EXCEPT !.phase = "open"].phase = "open"
  BY <1>1 DEF ObjectTypeOK, Socket
<1>10. /\ ObjectTypeOK'
       /\ \A l \in Client : sock'[l].phase = IF l = k THEN "open" ELSE sock[l].phase
  BY <1>1, <1>2, <1>9 DEF ObjectTypeOK
<1>11. QueueTypeOK'
  BY <1>1, <1>2 DEF QueueTypeOK, queVars
<1>12. /\ \A d \in Conn : Open(d)' <=> Open(d)
       /\ \A l \in Client : Owner(l)' = Owner(l)
  BY <1>2 DEF Open, Owner
<1>13. OneOwner'
  BY <1>1, <1>2, <1>4, <1>5, <1>7, <1>12 DEF Safe, OneOwner, Accepting
<1>14. OneHolderPerSocket'
  <2>1. \A l \in Client : ~Taken(l) /\ (Taken(l)' <=> l = k)
    BY <1>2, <1>7 DEF Taken
  <2>2. Owner(k) = {}
    BY <1>1, <1>2 DEF Safe, OneHolderPerSocket
  <2> QED
    BY <1>1, <1>10, <1>12, <2>1, <2>2 DEF Safe, OneHolderPerSocket
<1>15. TeardownExclusive'
  <2>1. \A u \in Thread : pc[u] = "erase" => at[u] \in Conn
    BY <1>1 DEF ThreadTypeOK, HandFull
  <2> QED
    BY <1>1, <1>7, <1>12, <2>1 DEF Safe, TeardownExclusive, Open
<1>16. ClosedIsClean' /\ EveryWebSocketNotified'
  BY <1>1, <1>2 DEF Safe, ClosedIsClean, EveryWebSocketNotified, Open, Owner, Fresh
<1> QED
  BY <1>1, <1>2, <1>4, <1>6, <1>7, <1>8, <1>10, <1>11, <1>13, <1>14, <1>15, <1>16,
     PartsJoin DEF Safe, HandlerOK

\* Accept holds both; no teardown of the connection is under way, since that
\* would hold mtx_.
LEMMA AcceptInitStep ==
    ASSUME IInv, AcceptInit
    PROVE  IInv'
<1> USE ConnAssumption, ClientAssumption
<1> DEFINE c == at["loop"]
<1>1. /\ FreeTypeOK /\ ActiveTypeOK /\ ThreadTypeOK /\ ObjectTypeOK /\ QueueTypeOK
      /\ Safe /\ clifd \in Client /\ pc["loop"] = "init"
  BY TypeSplits DEF IInv, AcceptInit
<1>2. c \in Conn
  BY <1>1, ThreadsApart DEF ThreadTypeOK, HandFull
<1>3. /\ ~Locked(c)
      /\ conn' = [conn EXCEPT ![c].fd = clifd, ![c].active = "recent"]
      /\ ready' = IF Readable(clifd) THEN ready \cup {clifd} ELSE ready
      /\ ActiveListPush(c)
      /\ clifd' = NULL
      /\ Goto("loop", "accept", NULL)
      /\ UNCHANGED freeVars /\ UNCHANGED queVars
      /\ UNCHANGED <<batch, task, sock, attached>>
  BY DEF AcceptInit
<1> HIDE DEF c
<1>4. Accepting(c) /\ c \in created /\ ~OnFreeList(c) /\ ~Open(c)
  <2>1. Accepting(c)
    BY <1>1 DEF Accepting, c
  <2> QED
    BY <1>1, <1>2, <2>1 DEF Safe, OneOwner
<1>5. /\ FreeTypeOK' /\ FreeListWellFormed' /\ created' = created
      /\ \A d \in Conn : OnFreeList(d)' <=> OnFreeList(d)
  BY <1>1, <1>3, FreeListStutters DEF Safe
<1>6. /\ ThreadTypeOK'
      /\ \A u \in Thread : /\ pc'[u] = IF u = "loop" THEN "accept" ELSE pc[u]
                           /\ at'[u] = IF u = "loop" THEN NULL ELSE at[u]
  <2>1. "accept" \in Labels("loop") /\ "accept" \notin HandFull
    BY DEF Labels, HandFull
  <2> QED
    BY <1>1, <1>3, <2>1, ThreadsApart, GotoMoves DEF Ptr
<1>7. /\ pc'["loop"] # "init"
      /\ \A u \in Thread : pc'[u] = "erase" =>
             u # "loop" /\ pc[u] = "erase" /\ at'[u] = at[u] /\ at[u] \in Conn \ {c}
  BY <1>1, <1>3, <1>6, ThreadsApart DEF Locked, ThreadTypeOK, HandFull
<1>8. ActiveTypeOK'
  BY <1>1, <1>2, <1>3, ActiveListTypes
<1>9. \A r \in Object : [r EXCEPT !.fd = clifd, !.active = "recent"] \in Object
  BY <1>1 DEF Object
<1>10. conn' \in [Conn -> Object]
  BY <1>1, <1>2, <1>3, <1>9 DEF ObjectTypeOK
<1>11. /\ conn'[c].fd = clifd
       /\ \A d \in Conn \ {c} : conn'[d] = conn[d]
  BY <1>1, <1>2, <1>3 DEF ObjectTypeOK, Object
<1>12. ObjectTypeOK'
  BY <1>1, <1>3, <1>10 DEF ObjectTypeOK
<1>13. QueueTypeOK'
  BY <1>1, <1>3 DEF QueueTypeOK, queVars
<1>14. /\ \A d \in Conn : Open(d)' <=> Open(d) \/ d = c
       /\ \A l \in Client : Owner(l)' = Owner(l) \cup (IF l = clifd THEN {c} ELSE {})
  <2>1. \A d \in Conn : Open(d)' <=> Open(d) \/ d = c
    BY <1>1, <1>11 DEF Open
  <2>2. ASSUME NEW l \in Client
        PROVE  Owner(l)' = Owner(l) \cup (IF l = clifd THEN {c} ELSE {})
    <3>1. \A d \in Conn : conn'[d].fd = l <=> conn[d].fd = l \/ (d = c /\ l = clifd)
      BY <1>4, <1>11 DEF Open
    <3> QED
      BY <1>2, <3>1 DEF Owner
  <2> QED
    BY <2>1, <2>2
<1>15. OneOwner'
  BY <1>1, <1>4, <1>5, <1>7, <1>14 DEF Safe, OneOwner, Accepting, c
<1>16. OneHolderPerSocket'
  <2>1. \A l \in Client : ~Taken(l)' /\ (Taken(l) <=> l = clifd)
    BY <1>1, <1>7 DEF Taken
  <2> QED
    BY <1>1, <1>3, <1>14, <2>1 DEF Safe, OneHolderPerSocket
<1>17. TeardownExclusive'
  BY <1>1, <1>7, <1>14 DEF Safe, TeardownExclusive, Open
<1>18. ClosedIsClean'
  BY <1>1, <1>11, <1>14 DEF Safe, ClosedIsClean, Fresh
<1>19. EveryWebSocketNotified'
  <2> SUFFICES ASSUME NEW l \in attached
               PROVE  \E d \in Owner(l)' : conn'[d].status = "UPGRADE"
    BY <1>3 DEF EveryWebSocketNotified
  <2>1. PICK d \in Owner(l) : conn[d].status = "UPGRADE"
    BY <1>1 DEF Safe, EveryWebSocketNotified
  <2>2. l \in Client /\ d \in Conn \ {c}
    BY <1>1, <1>4, <2>1 DEF ObjectTypeOK, Owner, Open
  <2> QED
    BY <1>11, <1>14, <2>1, <2>2
<1> QED
  BY <1>1, <1>3, <1>5, <1>6, <1>7, <1>8, <1>12, <1>13, <1>15, <1>16, <1>17, <1>18,
     <1>19, PartsJoin DEF Safe, HandlerOK

\* Accept gives the connection back as it got it.
LEMMA AcceptFailStep ==
    ASSUME IInv, AcceptFail
    PROVE  IInv'
<1> USE ConnAssumption, ClientAssumption
<1> DEFINE c == at["loop"]
<1>1. /\ FreeTypeOK /\ ActiveTypeOK /\ ThreadTypeOK /\ ObjectTypeOK /\ QueueTypeOK
      /\ Safe /\ clifd \in Client /\ pc["loop"] = "init"
  BY TypeSplits DEF IInv, AcceptFail
<1>2. c \in Conn
  BY <1>1, ThreadsApart DEF ThreadTypeOK, HandFull
<1>3. /\ ~Locked(c)
      /\ conn' = [conn EXCEPT ![c] = Fresh(FALSE)]
      /\ sock' = [sock EXCEPT ![clifd] = ClosedSocket]
      /\ ready' = ready \ {clifd}
      /\ FreeListPush(c)
      /\ clifd' = NULL
      /\ Goto("loop", "accept", NULL)
      /\ UNCHANGED activeVars /\ UNCHANGED queVars
      /\ UNCHANGED <<batch, task, attached>>
  BY DEF AcceptFail, Reset
<1> HIDE DEF c
<1>4. Accepting(c) /\ c \in created /\ ~OnFreeList(c) /\ ~Open(c)
  <2>1. Accepting(c)
    BY <1>1 DEF Accepting, c
  <2> QED
    BY <1>1, <1>2, <2>1 DEF Safe, OneOwner
<1>5. /\ FreeTypeOK' /\ FreeListWellFormed' /\ created' = created
      /\ \A d \in Conn : OnFreeList(d)' <=> OnFreeList(d) \/ d = c
  BY <1>1, <1>2, <1>3, <1>4, PushFreeList DEF Safe
<1>6. /\ ThreadTypeOK'
      /\ \A u \in Thread : /\ pc'[u] = IF u = "loop" THEN "accept" ELSE pc[u]
                           /\ at'[u] = IF u = "loop" THEN NULL ELSE at[u]
  <2>1. "accept" \in Labels("loop") /\ "accept" \notin HandFull
    BY DEF Labels, HandFull
  <2> QED
    BY <1>1, <1>3, <2>1, ThreadsApart, GotoMoves DEF Ptr
<1>7. /\ pc'["loop"] # "init"
      /\ \A u \in Thread : pc'[u] = "erase" =>
             pc[u] = "erase" /\ at'[u] = at[u] /\ at[u] \in Conn \ {c}
  BY <1>1, <1>3, <1>6, ThreadsApart DEF Locked, ThreadTypeOK, HandFull
<1>8. ActiveTypeOK'
  BY <1>1, <1>2, <1>3, ActiveListTypes
<1>9. /\ \A d \in Conn : conn'[d] = IF d = c THEN Fresh(FALSE) ELSE conn[d]
      /\ \A k \in Client : sock'[k] = IF k = clifd THEN ClosedSocket ELSE sock[k]
      /\ ObjectTypeOK'
  BY <1>1, <1>2, <1>3, FreshIsClean, SocketTypes DEF ObjectTypeOK
<1>10. QueueTypeOK'
  BY <1>1, <1>3 DEF QueueTypeOK, queVars
<1>11. /\ \A d \in Conn : Open(d)' <=> Open(d)
       /\ \A l \in Client : Owner(l)' = Owner(l)
  BY <1>4, <1>9, FreshIsClean DEF Open, Owner
<1>12. OneOwner'
  BY <1>1, <1>2, <1>4, <1>5, <1>7, <1>11 DEF Safe, OneOwner, Accepting, c
<1>13. OneHolderPerSocket'
  <2>1. \A l \in Client : ~Taken(l)' /\ (Taken(l) <=> l = clifd)
    BY <1>1, <1>7 DEF Taken
  <2>2. ClosedSocket.phase # "open"
    BY DEF ClosedSocket, NewSocket
  <2> QED
    BY <1>1, <1>9, <1>11, <2>1, <2>2 DEF Safe, OneHolderPerSocket
<1>14. TeardownExclusive'
  BY <1>1, <1>7, <1>11 DEF Safe, TeardownExclusive, Open
<1>15. ClosedIsClean'
  BY <1>1, <1>9, <1>11 DEF Safe, ClosedIsClean
<1>16. EveryWebSocketNotified'
  <2> SUFFICES ASSUME NEW l \in attached
               PROVE  \E d \in Owner(l)' : conn'[d].status = "UPGRADE"
    BY <1>3 DEF EveryWebSocketNotified
  <2>1. PICK d \in Owner(l) : conn[d].status = "UPGRADE"
    BY <1>1 DEF Safe, EveryWebSocketNotified
  <2>2. l \in Client /\ d \in Conn \ {c}
    BY <1>1, <1>4, <2>1 DEF ObjectTypeOK, Owner, Open
  <2> QED
    BY <1>9, <1>11, <2>1, <2>2
<1> QED
  BY <1>1, <1>3, <1>5, <1>6, <1>7, <1>8, <1>9, <1>10, <1>12, <1>13, <1>14, <1>15,
     <1>16, PartsJoin DEF Safe, HandlerOK

-----------------------------------------------------------------------------
(* The handlers.                                                           *)

\* What a handler starts from: a thread with an event or a connection in hand.
LEMMA InHand ==
    ASSUME TypeOK, NEW t \in Thread, pc[t] \in HandFull
    PROVE  at[t] \in Conn /\ conn[at[t]] \in Object
BY DEF TypeOK

\* The objects and sockets the handlers leave behind.
LEMMA ObjectUpdates ==
    ASSUME NEW r \in Object
    PROVE  /\ [r EXCEPT !.active = "recent"] \in Object
           /\ [r EXCEPT !.active = "recent"].fd = r.fd
           /\ [r EXCEPT !.active = "recent"].status = r.status
           /\ [r EXCEPT !.wbuf = TRUE] \in Object
           /\ [r EXCEPT !.wbuf = TRUE].fd = r.fd
           /\ [r EXCEPT !.wbuf = TRUE].status = r.status
           /\ [r EXCEPT !.wbuf = TRUE, !.finish = TRUE] \in Object
           /\ [r EXCEPT !.wbuf = TRUE, !.finish = TRUE].fd = r.fd
           /\ [r EXCEPT !.wbuf = TRUE, !.finish = TRUE].status = r.status
           /\ [r EXCEPT !.ev_writable = TRUE] \in Object
           /\ [r EXCEPT !.ev_writable = TRUE].fd = r.fd
           /\ [r EXCEPT !.ev_writable = TRUE].status = r.status
BY DEF Object

LEMMA StatusUpdates ==
    ASSUME NEW r \in Object, NEW s \in Status
    PROVE  /\ [r EXCEPT !.status = s] \in Object
           /\ [r EXCEPT !.status = s].fd = r.fd
           /\ [r EXCEPT !.status = s].status = s
           /\ [r EXCEPT !.status = s, !.error = TRUE] \in Object
           /\ [r EXCEPT !.status = s, !.error = TRUE].fd = r.fd
           /\ [r EXCEPT !.status = s, !.error = TRUE].status = s
           /\ [r EXCEPT !.status = s, !.queued = TRUE] \in Object
           /\ [r EXCEPT !.status = s, !.queued = TRUE].fd = r.fd
           /\ [r EXCEPT !.status = s, !.queued = TRUE].status = s
           /\ [r EXCEPT !.status = s, !.wbuf = TRUE] \in Object
           /\ [r EXCEPT !.status = s, !.wbuf = TRUE].fd = r.fd
           /\ [r EXCEPT !.status = s, !.wbuf = TRUE].status = s
BY DEF Object

LEMMA SocketUpdates ==
    ASSUME NEW s \in Socket
    PROVE  /\ \A full \in BOOLEAN : /\ [s EXCEPT !.blocked = @ \/ full] \in Socket
                                    /\ [s EXCEPT !.blocked = @ \/ full].phase = s.phase
           /\ [s EXCEPT !.blocked = TRUE] \in Socket
           /\ [s EXCEPT !.blocked = TRUE].phase = s.phase
           /\ [s EXCEPT !.unread = FALSE] \in Socket
           /\ [s EXCEPT !.unread = FALSE].phase = s.phase
BY DEF Socket

\* A worker's use of what Flush returned.
LEMMA FlushedStep ==
    ASSUME IInv, UNCHANGED clifd,
           NEW t \in Thread, NEW c \in Conn, NEW w \in Object, NEW f \in Flush(w),
           pc[t] \notin {"erase", "init"}, ~Locked(c), Open(c),
           w.fd = conn[c].fd, conn[c].status = "UPGRADE" => w.status = "UPGRADE",
           Flushed(t, c, f)
    PROVE  HandlerOK
<1>1. f.obj \in Object /\ f.obj.fd = w.fd /\ f.obj.status = w.status /\ f.full \in BOOLEAN
  BY FlushOutcome
<1>2. sock[w.fd] \in Socket
  BY TypeSplits DEF IInv, ObjectTypeOK, Object, Open
<1>3. CASE f.status = "AGAIN"
  <2> DEFINE obj == [f.obj EXCEPT !.ev_writable = TRUE]
             s == [sock[f.obj.fd] EXCEPT !.blocked = @ \/ f.full]
             wake == ~f.obj.ev_writable /\ (Readable(f.obj.fd) \/ ~s.blocked)
  <2>1. Keep(t, c, obj, s, wake)
    BY <1>3 DEF Flushed
  <2>2. obj \in Object /\ obj.fd = w.fd /\ obj.status = w.status
    BY <1>1, ObjectUpdates
  <2>3. s \in Socket /\ s.phase = sock[w.fd].phase
    BY <1>1, <1>2, SocketUpdates
  <2> HIDE DEF obj, s, wake
  <2> QED
    BY <2>1, <2>2, <2>3, Keeps
<1>4. CASE f.status = "UPGRADE"
  <2>1. Keep(t, c, f.obj, sock[w.fd], FALSE)
    BY <1>1, <1>4 DEF Flushed
  <2> QED
    BY <1>1, <1>2, <2>1, Keeps
<1>5. CASE f.status \notin {"AGAIN", "UPGRADE"}
  <2>1. ResetConnectionTo(t, c, f.obj, FALSE)
    BY <1>5 DEF Flushed, ResetConnection
  <2> QED
    BY <1>1, <2>1, Resets
<1> QED
  BY <1>3, <1>4, <1>5

LEMMA OnErrorStep ==
    ASSUME IInv, UNCHANGED clifd,
           NEW c \in Conn, NEW r \in Object, NEW s \in Socket,
           pc["loop"] = "read", ~Locked(c), Open(c),
           r.fd = conn[c].fd, s.phase = sock[r.fd].phase,
           conn[c].status = "UPGRADE" => r.status = "UPGRADE",
           OnError(c, r, s)
    PROVE  HandlerOK
<1> USE ThreadsApart
<1> DEFINE w == [r EXCEPT !.wbuf = TRUE, !.finish = TRUE]
<1>1. CASE ~r.error
  BY <1>1, Resets DEF OnError, ResetConnection
<1>2. CASE r.error
  <2>1. PICK f \in Flush(w) :
            IF f.status = "AGAIN"
            THEN Keep("loop", c, f.obj, [s EXCEPT !.blocked = TRUE], FALSE)
            ELSE ResetConnection("loop", c, f.obj)
    BY <1>2 DEF OnError
  <2>2. w \in Object /\ w.fd = r.fd /\ w.status = r.status
    BY ObjectUpdates
  <2> HIDE DEF w
  <2>3. f.obj \in Object /\ f.obj.fd = r.fd /\ f.obj.status = r.status
    BY <2>1, <2>2, FlushOutcome
  <2>4. CASE f.status = "AGAIN"
    <3> DEFINE s2 == [s EXCEPT !.blocked = TRUE]
    <3>1. s2 \in Socket /\ s2.phase = s.phase
      BY SocketUpdates
    <3>2. Keep("loop", c, f.obj, s2, FALSE)
      BY <2>1, <2>4
    <3> HIDE DEF s2
    <3> QED
      BY <2>3, <3>1, <3>2, Keeps
  <2>5. CASE f.status # "AGAIN"
    BY <2>1, <2>3, <2>5, Resets DEF ResetConnection
  <2> QED
    BY <2>4, <2>5
<1> QED
  BY <1>1, <1>2

LEMMA OnWriteStep ==
    ASSUME IInv, NEW e \in batch, OnWrite(e)
    PROVE  IInv'
<1> USE ThreadsApart
<1> DEFINE c == e.conn
<1>1. /\ c \in Conn /\ conn[c] \in Object
      /\ QueueTypeOK
  BY TypeSplits DEF IInv, OnWrite, TypeOK, Event
<1>2. /\ pc["loop"] = "poll" /\ batch' = batch \ {e} /\ ~Locked(c)
      /\ UNCHANGED clifd /\ UNCHANGED <<queVars, clifd, task>>
  BY DEF OnWrite, Dispatch
<1>3. QueueTypeOK'
  BY <1>1, <1>2 DEF QueueTypeOK, queVars
<1>4. CASE ~Open(c)
  BY <1>2, <1>3, <1>4, Skips, PartsJoin DEF OnWrite
<1>5. CASE Open(c)
  <2>1. PICK f \in Flush(conn[c]) :
            IF f.status = "AGAIN"
            THEN Keep("loop", c, f.obj, [sock[f.obj.fd] EXCEPT !.blocked = @ \/ f.full], FALSE)
            ELSE ResetConnection("loop", c, f.obj)
    BY <1>5 DEF OnWrite
  <2>2. /\ f.obj \in Object /\ f.obj.fd = conn[c].fd
        /\ f.obj.status = conn[c].status /\ f.full \in BOOLEAN
    BY <1>1, <2>1, FlushOutcome
  <2>3. CASE f.status = "AGAIN"
    <3> DEFINE s == [sock[f.obj.fd] EXCEPT !.blocked = @ \/ f.full]
    <3>1. sock[f.obj.fd] \in Socket
      BY <1>1, <1>5, <2>2, TypeSplits DEF IInv, ObjectTypeOK, Object, Open
    <3>2. s \in Socket /\ s.phase = sock[f.obj.fd].phase
      BY <2>2, <3>1, SocketUpdates
    <3>3. Keep("loop", c, f.obj, s, FALSE)
      BY <2>1, <2>3
    <3> HIDE DEF s
    <3> QED
      BY <1>1, <1>2, <1>3, <1>5, <2>2, <3>2, <3>3, Keeps, PartsJoin
  <2>4. CASE f.status # "AGAIN"
    BY <1>1, <1>2, <1>3, <1>5, <2>1, <2>2, <2>4, Resets, PartsJoin DEF ResetConnection
  <2> QED
    BY <2>3, <2>4
<1> QED
  BY <1>4, <1>5

LEMMA OnReadStep ==
    ASSUME IInv, OnRead
    PROVE  IInv'
<1> USE ThreadsApart
<1> DEFINE c == at["loop"]
           r == [conn[c] EXCEPT !.active = "recent"]
           s == sock[r.fd]
<1>1. /\ pc["loop"] = "read" /\ ~Locked(c) /\ UNCHANGED clifd
      /\ UNCHANGED <<clifd, batch, task>>
  BY DEF OnRead
<1>2. c \in Conn /\ conn[c] \in Object /\ QueueTypeOK
  BY <1>1, InHand, TypeSplits DEF IInv, HandFull
<1>3. r \in Object /\ r.fd = conn[c].fd /\ r.status = conn[c].status
  BY <1>2, ObjectUpdates
<1>4. CASE ~Open(c)
  <2>1. Skip("loop") /\ UNCHANGED queVars
    BY <1>4 DEF OnRead
  <2>2. QueueTypeOK'
    BY <1>1, <1>2, <2>1 DEF QueueTypeOK, queVars
  <2> QED
    BY <1>1, <2>1, <2>2, Skips, PartsJoin
<1>5. CASE Open(c)
  <2>1. s \in Socket /\ r.fd \in Client
    BY <1>2, <1>3, <1>5, TypeSplits DEF IInv, ObjectTypeOK, Object, Open
  <2>2. Emptied(r) \in Socket /\ Emptied(r).phase = s.phase
    BY <2>1, SocketUpdates DEF Emptied
  <2>3. \/ ReadNothing(c, r) \/ ReadClose(c, r) \/ ReadPart(c, r)
        \/ ReadRequest(c, r) \/ ReadFrame(c, r) \/ ReadBusy(c, r)
        \/ ReadBadHeader(c, r) \/ ReadBadBody(c, r) \/ ReadOversized(c, r)
    BY <1>5 DEF OnRead
  <2> HIDE DEF c, r
  <2>4. ASSUME UNCHANGED queVars PROVE QueueTypeOK'
    BY <1>1, <1>2, <2>4 DEF QueueTypeOK, queVars
  <2>5. CASE ReadNothing(c, r)
    <3>1. Keep("loop", c, r, s, FALSE) /\ UNCHANGED queVars
      BY <2>5 DEF ReadNothing
    <3> HIDE DEF s
    <3> QED
      BY <1>1, <1>2, <1>3, <1>5, <2>1, <2>4, <3>1, Keeps, PartsJoin DEF s
  <2>6. CASE ReadClose(c, r)
    BY <1>1, <1>2, <1>3, <1>5, <2>4, <2>6, Resets, PartsJoin
    DEF ReadClose, ResetConnection
  <2>7. CASE ReadPart(c, r)
    <3>1. PICK status \in {r.status, "BODY_RECEIVING"} :
              /\ status # r.status => r.status = "HEADER_RECEIVING"
              /\ Keep("loop", c, [r EXCEPT !.status = status], Emptied(r), FALSE)
      BY <2>7 DEF ReadPart
    <3> DEFINE q == [r EXCEPT !.status = status]
    <3>2. status \in Status
      BY <1>3, <3>1 DEF Object, Status
    <3>3. q \in Object /\ q.fd = r.fd /\ q.status = status
      BY <1>3, <3>2, StatusUpdates
    <3>4. Keep("loop", c, q, Emptied(r), FALSE) /\ UNCHANGED queVars
      BY <2>7, <3>1 DEF ReadPart
    <3> HIDE DEF q
    <3> QED
      BY <1>1, <1>2, <1>3, <1>5, <2>2, <2>4, <3>1, <3>3, <3>4, Keeps, PartsJoin
  <2>8. CASE ReadRequest(c, r)
    <3> DEFINE q == [r EXCEPT !.status = "BODY_RECEIVED", !.queued = TRUE]
    <3>1. q \in Object /\ q.fd = r.fd /\ r.status # "UPGRADE"
      BY <1>3, <2>8, StatusUpdates DEF Status, ReadRequest
    <3>2. Keep("loop", c, q, Emptied(r), FALSE)
      BY <2>8 DEF ReadRequest
    <3> HIDE DEF q
    <3>3. HandlerOK
      BY <1>1, <1>2, <1>3, <1>5, <2>2, <3>1, <3>2, Keeps
    <3>4. /\ task_que' = Append(task_que, [conn |-> c, client |-> r.fd])
          /\ UNCHANGED ws_task_que
      BY <2>8 DEF ReadRequest
    <3>5. [conn |-> c, client |-> r.fd] \in Task
      BY <1>2, <2>1 DEF Task, c
    <3>6. QueueTypeOK'
      BY <1>1, <1>2, <3>4, <3>5 DEF QueueTypeOK
    <3> QED
      BY <3>3, <3>6, PartsJoin
  <2>9. CASE ReadFrame(c, r)
    <3>1. Keep("loop", c, r, Emptied(r), FALSE)
      BY <2>9 DEF ReadFrame
    <3>2. HandlerOK
      BY <1>1, <1>2, <1>3, <1>5, <2>2, <3>1, Keeps
    <3>3. /\ ws_task_que' = Append(ws_task_que, [conn |-> c, client |-> r.fd])
          /\ UNCHANGED task_que
      BY <2>9 DEF ReadFrame
    <3>4. [conn |-> c, client |-> r.fd] \in Task
      BY <1>2, <2>1 DEF Task, c
    <3>5. QueueTypeOK'
      BY <1>1, <1>2, <3>3, <3>4 DEF QueueTypeOK
    <3> QED
      BY <3>2, <3>5, PartsJoin
  <2>10. CASE ReadBusy(c, r) \/ ReadBadBody(c, r) \/ ReadOversized(c, r)
    <3>1. PICK s2 \in {s, Emptied(r)} : OnError(c, r, s2)
      BY <2>10 DEF ReadBusy, ReadBadBody, ReadOversized
    <3>2. UNCHANGED queVars
      BY <3>1 DEF OnError
    <3> QED
      BY <1>1, <1>2, <1>3, <1>5, <2>1, <2>2, <2>4, <3>1, <3>2, OnErrorStep, PartsJoin
  <2>11. CASE ReadBadHeader(c, r)
    <3>1. PICK status \in {"HEADER_RECEIVING", "BODY_RECEIVING"} :
              OnError(c, [r EXCEPT !.status = status, !.error = TRUE], Emptied(r))
      BY <2>11 DEF ReadBadHeader
    <3> DEFINE q == [r EXCEPT !.status = status, !.error = TRUE]
    <3>2. q \in Object /\ q.fd = r.fd
      <4>1. status \in Status
        BY DEF Status
      <4> QED
        BY <1>3, <4>1, StatusUpdates
    <3>3. r.status # "UPGRADE" /\ OnError(c, q, Emptied(r))
      BY <2>11, <3>1 DEF ReadBadHeader
    <3> HIDE DEF q
    <3>4. UNCHANGED queVars
      BY <3>3 DEF OnError
    <3> QED
      BY <1>1, <1>2, <1>3, <1>5, <2>2, <2>4, <3>2, <3>3, <3>4, OnErrorStep, PartsJoin
  <2> QED
    BY <2>3, <2>5, <2>6, <2>7, <2>8, <2>9, <2>10, <2>11
<1> QED
  BY <1>4, <1>5

LEMMA RunTaskStep ==
    ASSUME IInv, RunTask
    PROVE  IInv'
<1> USE ThreadsApart
<1> DEFINE c == at["worker"]
           r == conn[c]
<1>1. /\ pc["worker"] = "run" /\ ~Locked(c) /\ UNCHANGED clifd
      /\ UNCHANGED <<queVars, clifd, batch>>
      /\ task' = [task EXCEPT !["worker"] = NULL]
  BY DEF RunTask
<1>2. c \in Conn /\ r \in Object /\ QueueTypeOK
  BY <1>1, InHand, TypeSplits DEF IInv, HandFull
<1>3. QueueTypeOK'
  BY <1>1, <1>2 DEF QueueTypeOK, queVars
<1>4. CASE ~Open(c)
  <2>1. Skip("worker")
    BY <1>4 DEF RunTask
  <2> QED
    BY <1>1, <1>3, <2>1, Skips, PartsJoin
<1>5. CASE Open(c)
  <2>1. Respond(c, r) \/ Upgrade(c, r) \/ Close(c, r)
    BY <1>5 DEF RunTask
  <2>2. CASE Respond(c, r)
    <3> DEFINE w == IF r.status = "UPGRADE" THEN r
                    ELSE [r EXCEPT !.wbuf = TRUE, !.finish = TRUE]
    <3>1. PICK f \in Flush(w) : Flushed("worker", c, f)
      BY <2>2 DEF Respond
    <3>2. w \in Object /\ w.fd = r.fd /\ w.status = r.status
      BY <1>2, ObjectUpdates
    <3> HIDE DEF c, r, w
    <3> QED
      BY <1>1, <1>2, <1>3, <1>5, <3>1, <3>2, FlushedStep, PartsJoin DEF r
  <2>3. CASE Upgrade(c, r)
    <3> DEFINE w == [r EXCEPT !.status = "UPGRADE", !.wbuf = TRUE]
    <3>1. PICK f \in Flush(w) : Flushed("worker", c, f)
      BY <2>3 DEF Upgrade
    <3>2. w \in Object /\ w.fd = r.fd /\ w.status = "UPGRADE"
      BY <1>2, StatusUpdates DEF Status
    <3> HIDE DEF c, r, w
    <3> QED
      BY <1>1, <1>2, <1>3, <1>5, <3>1, <3>2, FlushedStep, PartsJoin DEF r
  <2>4. CASE Close(c, r)
    BY <1>1, <1>2, <1>3, <1>5, <2>4, Resets, PartsJoin DEF Close
  <2> QED
    BY <2>1, <2>2, <2>3, <2>4
<1> QED
  BY <1>4, <1>5

LEMMA RunFrameStep ==
    ASSUME IInv, RunFrame
    PROVE  IInv'
<1> USE ThreadsApart
<1> DEFINE c == at["ws"]
           r == conn[c]
<1>1. /\ pc["ws"] = "run" /\ ~Locked(c) /\ UNCHANGED clifd
      /\ UNCHANGED <<queVars, clifd, batch>>
      /\ task' = [task EXCEPT !["ws"] = NULL]
  BY DEF RunFrame
<1>2. c \in Conn /\ r \in Object /\ QueueTypeOK
  BY <1>1, InHand, TypeSplits DEF IInv, HandFull
<1>3. QueueTypeOK'
  BY <1>1, <1>2 DEF QueueTypeOK, queVars
<1>4. CASE ~Open(c)
  <2>1. Skip("ws")
    BY <1>4 DEF RunFrame
  <2> QED
    BY <1>1, <1>3, <2>1, Skips, PartsJoin
<1>5. CASE Open(c)
  <2>1. Callback(c, r) \/ CallbackClose(c, r)
    BY <1>5 DEF RunFrame
  <2>2. CASE Callback(c, r)
    <3>1. PICK w \in {r, [r EXCEPT !.wbuf = TRUE]} :
              \E f \in Flush(w) : Flushed("ws", c, f)
      BY <2>2 DEF Callback
    <3>2. w \in Object /\ w.fd = r.fd /\ w.status = r.status
      BY <1>2, <3>1, ObjectUpdates
    <3>3. PICK f \in Flush(w) : Flushed("ws", c, f)
      BY <3>1
    <3> HIDE DEF c, r
    <3> QED
      BY <1>1, <1>2, <1>3, <1>5, <3>2, <3>3, FlushedStep, PartsJoin DEF r
  <2>3. CASE CallbackClose(c, r)
    BY <1>1, <1>2, <1>3, <1>5, <2>3, Resets, PartsJoin DEF CallbackClose, ResetConnection
  <2> QED
    BY <2>1, <2>2, <2>3
<1> QED
  BY <1>4, <1>5

-----------------------------------------------------------------------------
(* The other steps.                                                        *)

LEMMA EraseClosedStep ==
    ASSUME IInv, NEW t \in Thread, EraseClosed(t)
    PROVE  IInv'
<1>1. /\ pc[t] = "erase" /\ ActiveListErase(at[t]) /\ Goto(t, Rest(t), NULL)
      /\ UNCHANGED <<freeVars, conn, queVars, clifd, batch, task, netVars, attached>>
  BY DEF EraseClosed
<1>2. at[t] \in Conn /\ ActiveTypeOK /\ QueueTypeOK
  BY <1>1, InHand, TypeSplits DEF IInv, HandFull
<1>3. ActiveTypeOK'
  BY <1>1, <1>2, ActiveListTypes
<1>4. QueueTypeOK'
  BY <1>1, <1>2 DEF QueueTypeOK, queVars
<1>5. Rest(t) \in Labels(t) /\ Rest(t) \notin {"erase", "init"} /\ Rest(t) \notin HandFull
  BY ThreadsApart DEF HandFull
<1> QED
  BY <1>1, <1>3, <1>4, <1>5, Moves, PartsJoin DEF Ptr

\* What the event loop does besides handling and accepting a connection.
LEMMA LoopMoves ==
    ASSUME IInv,
           \/ Poll \/ MoveToTail \/ AcceptNone
           \/ \E e \in batch : DispatchListen(e) \/ DispatchIn(e)
           \/ \E k \in Client : AcceptRefuse(k)
    PROVE  IInv'
<1> USE ThreadsApart, ClientAssumption
<1>1. ActiveTypeOK /\ ThreadTypeOK /\ ObjectTypeOK /\ QueueTypeOK
  BY TypeSplits DEF IInv
<1>2. {"poll", "accept", "push", "read"} \subseteq Labels("loop")
  BY DEF Labels
<1>3. CASE Poll
  <2>1. /\ UNCHANGED <<freeVars, activeVars, conn, queVars, pc, at, clifd, task,
                       sock, attached>>
        /\ ready' = {} /\ batch' \in SUBSET Event
    BY <1>3 DEF Poll
  <2>2. ActiveTypeOK' /\ ThreadTypeOK' /\ ObjectTypeOK' /\ QueueTypeOK'
    BY <1>1, <2>1 DEF activeVars, queVars, ActiveTypeOK, ThreadTypeOK, ObjectTypeOK,
                      QueueTypeOK
  <2> QED
    BY <2>1, <2>2, Quiet, PartsJoin
<1>4. CASE MoveToTail
  <2>1. /\ pc["loop"] = "push" /\ ActiveListPush(at["loop"])
        /\ Goto("loop", "read", at["loop"])
        /\ UNCHANGED <<freeVars, conn, queVars, clifd, batch, task, netVars, attached>>
    BY <1>4 DEF MoveToTail
  <2>2. at["loop"] \in Conn
    BY <2>1, InHand DEF IInv, HandFull
  <2>3. ActiveTypeOK' /\ QueueTypeOK'
    BY <1>1, <2>1, <2>2, ActiveListTypes DEF QueueTypeOK, queVars
  <2> QED
    BY <1>2, <2>1, <2>2, <2>3, Moves, PartsJoin DEF Ptr
<1>5. CASE AcceptNone
  <2>1. /\ pc["loop"] = "accept" /\ Goto("loop", "poll", NULL)
        /\ UNCHANGED <<freeVars, activeVars, conn, queVars, clifd, batch, task,
                       netVars, attached>>
    BY <1>5 DEF AcceptNone
  <2>2. ActiveTypeOK' /\ QueueTypeOK'
    BY <1>1, <2>1 DEF ActiveTypeOK, activeVars, QueueTypeOK, queVars
  <2> QED
    BY <1>2, <2>1, <2>2, Moves, PartsJoin DEF Ptr, HandFull
<1>6. ASSUME NEW e \in batch, DispatchListen(e)
      PROVE  IInv'
  <2>1. /\ pc["loop"] = "poll" /\ Goto("loop", "accept", NULL)
        /\ batch' = batch \ {e}
        /\ UNCHANGED <<freeVars, activeVars, conn, queVars, clifd, task, netVars,
                       attached>>
    BY <1>6 DEF DispatchListen, Dispatch
  <2>2. ActiveTypeOK' /\ QueueTypeOK'
    BY <1>1, <2>1 DEF ActiveTypeOK, activeVars, QueueTypeOK, queVars
  <2> QED
    BY <1>2, <2>1, <2>2, Moves, PartsJoin DEF Ptr, HandFull
<1>7. ASSUME NEW e \in batch, DispatchIn(e)
      PROVE  IInv'
  <2>1. /\ pc["loop"] = "poll" /\ Goto("loop", "push", e.conn)
        /\ batch' = batch \ {e} /\ ActiveListErase(e.conn)
        /\ UNCHANGED <<freeVars, conn, queVars, clifd, task, netVars, attached>>
    BY <1>7 DEF DispatchIn, Dispatch
  <2>2. e.conn \in Conn
    BY <1>1, <1>7 DEF DispatchIn, QueueTypeOK, Event
  <2>3. ActiveTypeOK' /\ QueueTypeOK'
    BY <1>1, <2>1, <2>2, ActiveListTypes DEF QueueTypeOK, queVars
  <2> QED
    BY <1>2, <2>1, <2>2, <2>3, Moves, PartsJoin DEF Ptr
<1>8. ASSUME NEW k \in Client, AcceptRefuse(k)
      PROVE  IInv'
  <2>1. /\ pc["loop"] = "accept" /\ sock[k].phase = "backlog"
        /\ UNCHANGED freeVars /\ Goto("loop", "poll", NULL)
        /\ sock' = [sock EXCEPT ![k] = ClosedSocket]
        /\ UNCHANGED <<activeVars, conn, queVars, clifd, batch, task, ready, attached>>
    BY <1>8 DEF AcceptRefuse, Backlog, FreeListPopFull
  <2>2. ActiveTypeOK' /\ QueueTypeOK' /\ ObjectTypeOK'
    BY <1>1, <2>1, SocketTypes
    DEF ActiveTypeOK, activeVars, QueueTypeOK, queVars, ObjectTypeOK
  <2>3. /\ ThreadTypeOK'
        /\ \A u \in Thread : /\ pc'[u] = IF u = "loop" THEN "poll" ELSE pc[u]
                             /\ at'[u] = IF u = "loop" THEN NULL ELSE at[u]
    BY <1>1, <1>2, <2>1, GotoMoves DEF Ptr, HandFull
  <2>4. \A l \in Client : sock'[l].phase = "open" <=> sock[l].phase = "open"
    <3>1. ClosedSocket.phase # "open"
      BY DEF ClosedSocket, NewSocket
    <3> QED
      BY <1>1, <2>1, <3>1 DEF ObjectTypeOK
  <2>5. \A u \in Thread : \/ pc'[u] = pc[u] /\ at'[u] = at[u]
                          \/ pc[u] # "init" /\ pc'[u] \notin {"erase", "init"}
    BY <2>1, <2>3
  <2> QED
    BY <2>1, <2>2, <2>3, <2>4, <2>5, Quiet, PartsJoin
<1> QED
  BY <1>3, <1>4, <1>5, <1>6, <1>7, <1>8

LEMMA TimeoutStep ==
    ASSUME IInv, TimeoutNext
    PROVE  IInv'
<1> USE ThreadsApart
<1> DEFINE c == at["timeout"]
<1>1. ActiveTypeOK /\ ThreadTypeOK /\ ObjectTypeOK /\ QueueTypeOK
  BY TypeSplits DEF IInv
<1>2. /\ {"start", "first", "peek", "sweep", "next"} \subseteq Labels("timeout")
      /\ {"start", "first", "next"} \cap HandFull = {}
  BY DEF Labels, HandFull
<1>3. ASSUME TimeoutUnchanged PROVE QueueTypeOK' /\ UNCHANGED clifd
  BY <1>1, <1>3 DEF TimeoutUnchanged, QueueTypeOK, queVars
<1>4. CASE StartSweep
  <2>1. /\ pc["timeout"] = "start" /\ ActiveListTimeoutCheck
        /\ Goto("timeout", "first", NULL)
        /\ UNCHANGED <<freeVars, conn, netVars, attached>>
        /\ TimeoutUnchanged
    BY <1>4 DEF StartSweep
  <2>2. ActiveTypeOK'
    BY <1>1, <2>1 DEF ActiveListTimeoutCheck, ActiveTypeOK
  <2> QED
    BY <1>2, <1>3, <2>1, <2>2, Moves, PartsJoin DEF Ptr
<1>5. CASE CheckNext
  <2> DEFINE cursor == active_list_lookup_cursor
             label == IF cursor = NULL THEN "start"
                      ELSE IF pc["timeout"] = "first" THEN "peek" ELSE "sweep"
  <2>1. /\ pc["timeout"] \in {"first", "next"} /\ ActiveListCheckNext
        /\ Goto("timeout", label, cursor)
        /\ UNCHANGED <<freeVars, conn, netVars, attached>>
        /\ TimeoutUnchanged
    BY <1>5 DEF CheckNext
  <2>2. cursor \in Ptr /\ ActiveTypeOK'
    BY <1>1, <2>1 DEF ActiveListCheckNext, ActiveTypeOK, Ptr
  <2>3. /\ label \in Labels("timeout") /\ label \notin {"erase", "init"}
        /\ label \in HandFull => cursor \in Conn
    BY <1>2, <2>2 DEF Ptr
  <2> HIDE DEF label, cursor
  <2> QED
    BY <1>3, <2>1, <2>2, <2>3, Moves, PartsJoin
<1>6. CASE Peek
  <2>1. /\ pc["timeout"] = "peek"
        /\ \/ Goto("timeout", "start", NULL) \/ Goto("timeout", "sweep", c)
        /\ UNCHANGED <<freeVars, activeVars, conn, netVars, attached>>
        /\ TimeoutUnchanged
    BY <1>6 DEF Peek
  <2>2. ActiveTypeOK' /\ c \in Conn
    BY <1>1, <2>1, InHand DEF IInv, HandFull, activeVars, ActiveTypeOK
  <2> QED
    BY <1>2, <1>3, <2>1, <2>2, Moves, PartsJoin DEF Ptr
<1>7. CASE Sweep
  <2>1. /\ pc["timeout"] = "sweep" /\ ~Locked(c) /\ TimeoutUnchanged
    BY <1>7 DEF Sweep
  <2>2. c \in Conn /\ conn[c] \in Object
    BY <2>1, InHand DEF IInv, HandFull
  <2>3. CASE conn[c].active = "never"
    <3>1. Skip("timeout")
      BY <1>7, <2>3 DEF Sweep
    <3> QED
      BY <1>3, <2>1, <3>1, Skips, PartsJoin
  <2>4. CASE conn[c].active = "idle"
    <3>1. ResetConnection("timeout", c, conn[c])
      BY <1>7, <2>4 DEF Sweep
    <3>2. Open(c)
      BY <2>2, <2>4 DEF IInv, Safe, ClosedIsClean, Fresh
    <3> QED
      BY <1>3, <2>1, <2>2, <3>1, <3>2, Resets, PartsJoin DEF ResetConnection
  <2>5. CASE conn[c].active = "recent"
    <3>1. /\ Goto("timeout", "start", NULL)
          /\ UNCHANGED <<freeVars, activeVars, conn, netVars, attached>>
      BY <1>7, <2>5 DEF Sweep
    <3>2. ActiveTypeOK'
      BY <1>1, <3>1 DEF activeVars, ActiveTypeOK
    <3> QED
      BY <1>2, <1>3, <2>1, <3>1, <3>2, Moves, PartsJoin DEF Ptr
  <2> QED
    BY <2>2, <2>3, <2>4, <2>5 DEF Object
<1> QED
  BY <1>4, <1>5, <1>6, <1>7, EraseClosedStep DEF TimeoutNext

LEMMA TakeSteps ==
    ASSUME IInv, TakeTask \/ TakeFrame
    PROVE  IInv'
<1> USE ThreadsApart
<1>1. ActiveTypeOK /\ QueueTypeOK
  BY TypeSplits DEF IInv
<1>2. "run" \in Labels("worker") /\ "run" \in Labels("ws")
  BY DEF Labels
<1>3. CASE TakeTask
  <2>1. /\ pc["worker"] = "idle" /\ task_que # <<>>
        /\ task' = [task EXCEPT !["worker"] = Head(task_que)]
        /\ task_que' = Tail(task_que)
        /\ Goto("worker", "run", Head(task_que).conn)
        /\ UNCHANGED <<freeVars, activeVars, conn, ws_task_que, clifd, batch,
                       netVars, attached>>
    BY <1>3 DEF TakeTask
  <2>2. Head(task_que) \in Task /\ Tail(task_que) \in Seq(Task)
    BY <1>1, <2>1 DEF QueueTypeOK
  <2>3. QueueTypeOK' /\ ActiveTypeOK'
    BY <1>1, <2>1, <2>2 DEF QueueTypeOK, ActiveTypeOK, activeVars
  <2>4. Head(task_que).conn \in Conn
    BY <2>2 DEF Task
  <2> QED
    BY <1>2, <2>1, <2>3, <2>4, Moves, PartsJoin DEF Ptr
<1>4. CASE TakeFrame
  <2>1. /\ pc["ws"] = "idle" /\ ws_task_que # <<>>
        /\ task' = [task EXCEPT !["ws"] = Head(ws_task_que)]
        /\ ws_task_que' = Tail(ws_task_que)
        /\ Goto("ws", "run", Head(ws_task_que).conn)
        /\ UNCHANGED <<freeVars, activeVars, conn, task_que, clifd, batch,
                       netVars, attached>>
    BY <1>4 DEF TakeFrame
  <2>2. Head(ws_task_que) \in Task /\ Tail(ws_task_que) \in Seq(Task)
    BY <1>1, <2>1 DEF QueueTypeOK
  <2>3. QueueTypeOK' /\ ActiveTypeOK'
    BY <1>1, <2>1, <2>2 DEF QueueTypeOK, ActiveTypeOK, activeVars
  <2>4. Head(ws_task_que).conn \in Conn
    BY <2>2 DEF Task
  <2> QED
    BY <1>2, <2>1, <2>3, <2>4, Moves, PartsJoin DEF Ptr
<1> QED
  BY <1>3, <1>4

\* Pushing a message touches only an open connection's buffer.
LEMMA PushStep ==
    ASSUME IInv, NEW c \in Conn, Push(c)
    PROVE  IInv'
<1> USE ClientAssumption
<1> DEFINE w == [conn[c] EXCEPT !.wbuf = TRUE]
<1>1. ActiveTypeOK /\ ThreadTypeOK /\ ObjectTypeOK /\ QueueTypeOK
  BY TypeSplits DEF IInv
<1>2. PICK f \in Flush(w) :
          /\ conn' = [conn EXCEPT ![c] = f.obj]
          /\ sock' = [sock EXCEPT ![f.obj.fd].blocked = @ \/ f.full]
  BY DEF Push
<1>3. UNCHANGED <<freeVars, activeVars, queVars, pc, at, clifd, batch, task, ready,
                  attached>>
  BY DEF Push
<1>4. conn[c].fd \in Client /\ Open(c) /\ conn[c] \in Object
  BY <1>1 DEF Push, ObjectTypeOK, Open
<1>5. w \in Object /\ w.fd = conn[c].fd /\ w.status = conn[c].status
  BY <1>4, ObjectUpdates
<1> HIDE DEF w
<1>6. /\ f.obj \in Object /\ f.obj.fd = conn[c].fd
      /\ f.obj.status = conn[c].status /\ f.full \in BOOLEAN
  BY <1>5, FlushOutcome
<1> DEFINE s == [sock[f.obj.fd] EXCEPT !.blocked = @ \/ f.full]
<1>7. s \in Socket /\ s.phase = sock[f.obj.fd].phase
  BY <1>1, <1>4, <1>6, SocketUpdates DEF ObjectTypeOK
<1>8. sock' = [sock EXCEPT ![f.obj.fd] = s]
  BY <1>2
<1> HIDE DEF s
<1>9. ActiveTypeOK' /\ ThreadTypeOK' /\ QueueTypeOK' /\ ObjectTypeOK'
  BY <1>1, <1>2, <1>3, <1>4, <1>6, <1>7, <1>8
  DEF activeVars, queVars, ActiveTypeOK, ThreadTypeOK, QueueTypeOK, ObjectTypeOK
<1>10. \A d \in Conn : /\ conn'[d].fd = conn[d].fd
                       /\ conn'[d].status = conn[d].status
                       /\ ~Open(d) => conn'[d] = conn[d]
  BY <1>1, <1>2, <1>4, <1>6 DEF ObjectTypeOK
<1>11. \A k \in Client : sock'[k].phase = "open" <=> sock[k].phase = "open"
  BY <1>1, <1>4, <1>6, <1>7, <1>8 DEF ObjectTypeOK
<1> QED
  BY <1>3, <1>9, <1>10, <1>11, Quiet, PartsJoin

\* The clients open and close no connection, and time only makes idle.
LEMMA EnvStep ==
    ASSUME IInv, EnvNext
    PROVE  IInv'
<1>1. ActiveTypeOK /\ ThreadTypeOK /\ ObjectTypeOK /\ QueueTypeOK
  BY TypeSplits DEF IInv
<1>2. UNCHANGED <<freeVars, activeVars, queVars, pc, at, clifd, batch, task, attached>>
  BY DEF EnvNext, Connect, Send, Leave, Drain, Age, EnvUnchanged
<1>3. ActiveTypeOK' /\ ThreadTypeOK' /\ QueueTypeOK'
  BY <1>1, <1>2 DEF activeVars, queVars, ActiveTypeOK, ThreadTypeOK, QueueTypeOK
<1>4. ASSUME NEW k \in Client, NEW s \in Socket,
             s.phase = "open" <=> sock[k].phase = "open",
             sock' = [sock EXCEPT ![k] = s],
             ready' \in SUBSET (Client \cup {LISTEN}), UNCHANGED conn
      PROVE  IInv'
  <2>1. ObjectTypeOK'
    BY <1>1, <1>2, <1>4 DEF ObjectTypeOK
  <2>2. \A l \in Client : sock'[l].phase = "open" <=> sock[l].phase = "open"
    BY <1>1, <1>4 DEF ObjectTypeOK
  <2> QED
    BY <1>2, <1>3, <1>4, <2>1, <2>2, Quiet, PartsJoin
<1>5. ASSUME NEW k \in Client, Connect(k) \/ Send(k) \/ Leave(k) \/ Drain(k)
      PROVE  IInv'
  <2>1. sock[k] \in Socket /\ ready \in SUBSET (Client \cup {LISTEN})
    BY <1>1 DEF ObjectTypeOK
  <2>2. UNCHANGED conn /\ ready' \in SUBSET (Client \cup {LISTEN})
    BY <1>5, <2>1 DEF Connect, Send, Leave, Drain, Wake, EnvUnchanged
  <2>3. \E s \in Socket : /\ s.phase = "open" <=> sock[k].phase = "open"
                          /\ sock' = [sock EXCEPT ![k] = s]
    <3>1. CASE Connect(k)
      <4> DEFINE s == [sock[k] EXCEPT !.phase = "backlog"]
      <4>1. s \in Socket /\ s.phase = "backlog"
        BY <2>1 DEF Socket
      <4>2. sock[k].phase = "new" /\ sock' = [sock EXCEPT ![k] = s]
        BY <3>1 DEF Connect
      <4> HIDE DEF s
      <4> QED
        BY <4>1, <4>2
    <3>2. CASE Send(k)
      <4> DEFINE s == [sock[k] EXCEPT !.sent = @ + 1, !.unread = TRUE]
      <4>0. \A n \in Nat : /\ [sock[k] EXCEPT !.sent = n, !.unread = TRUE] \in Socket
                           /\ [sock[k] EXCEPT !.sent = n, !.unread = TRUE].phase
                             = sock[k].phase
        BY <2>1 DEF Socket
      <4>1. s \in Socket /\ s.phase = sock[k].phase
        <5>1. sock[k].sent + 1 \in Nat
          BY <2>1 DEF Socket
        <5>2. s = [sock[k] EXCEPT !.sent = sock[k].sent + 1, !.unread = TRUE]
          OBVIOUS
        <5> QED
          BY <4>0, <5>1, <5>2
      <4>2. sock' = [sock EXCEPT ![k] = s]
        BY <3>2 DEF Send
      <4> HIDE DEF s
      <4> QED
        BY <4>1, <4>2
    <3>3. CASE Leave(k)
      <4> DEFINE s == [sock[k] EXCEPT !.gone = TRUE]
      <4>1. s \in Socket /\ s.phase = sock[k].phase
        BY <2>1 DEF Socket
      <4>2. sock' = [sock EXCEPT ![k] = s]
        BY <3>3 DEF Leave
      <4> HIDE DEF s
      <4> QED
        BY <4>1, <4>2
    <3>4. CASE Drain(k)
      <4> DEFINE s == [sock[k] EXCEPT !.blocked = FALSE]
      <4>1. s \in Socket /\ s.phase = sock[k].phase
        BY <2>1 DEF Socket
      <4>2. sock' = [sock EXCEPT ![k] = s]
        BY <3>4 DEF Drain
      <4> HIDE DEF s
      <4> QED
        BY <4>1, <4>2
    <3> QED
      BY <1>5, <3>1, <3>2, <3>3, <3>4
  <2> QED
    BY <1>4, <2>2, <2>3
<1>6. ASSUME NEW c \in Conn, Age(c)
      PROVE  IInv'
  <2> DEFINE r == [conn[c] EXCEPT !.active = "idle"]
  <2>1. /\ conn[c].active = "recent" /\ conn' = [conn EXCEPT ![c] = r]
        /\ UNCHANGED netVars
    BY <1>6 DEF Age
  <2>2. conn[c] \in Object
    BY <1>1 DEF ObjectTypeOK
  <2>3. r \in Object /\ r.fd = conn[c].fd /\ r.status = conn[c].status
    BY <2>2 DEF Object
  <2> HIDE DEF r
  <2>4. Open(c)
    BY <2>1 DEF IInv, Safe, ClosedIsClean, Fresh
  <2>5. ObjectTypeOK'
    BY <1>1, <1>2, <2>1, <2>3 DEF ObjectTypeOK, netVars
  <2>6. \A d \in Conn : /\ conn'[d].fd = conn[d].fd
                        /\ conn'[d].status = conn[d].status
                        /\ ~Open(d) => conn'[d] = conn[d]
    BY <1>1, <2>1, <2>3, <2>4 DEF ObjectTypeOK
  <2>7. \A k \in Client : sock'[k].phase = "open" <=> sock[k].phase = "open"
    BY <2>1 DEF netVars
  <2> QED
    BY <1>2, <1>3, <2>5, <2>6, <2>7, Quiet, PartsJoin
<1> QED
  BY <1>5, <1>6 DEF EnvNext

-----------------------------------------------------------------------------
(* The invariant.                                                          *)

LEMMA InitIInv == Init => IInv
<1> SUFFICES ASSUME Init PROVE IInv
  OBVIOUS
<1> USE ConnAssumption, ClientAssumption
<1>1. PoolTypeOK /\ FreeListWellFormed /\ \A c \in Conn : ~OnFreeList(c)
  BY PoolInitSound DEF Init
<1>2. /\ created = {} /\ conn = [c \in Conn |-> Fresh(FALSE)]
      /\ sock = [k \in Client |-> NewSocket]
      /\ at = [t \in Thread |-> NULL] /\ clifd = NULL /\ attached = {}
  BY DEF Init, PoolInit
<1>3. pc = [t \in Thread |-> CASE t = "loop" -> "poll"
                               [] t = "timeout" -> "start"
                               [] OTHER -> "idle"]
  BY DEF Init
<1>4. /\ pc["loop"] = "poll" /\ pc["timeout"] = "start"
      /\ pc["worker"] = "idle" /\ pc["ws"] = "idle"
      /\ pc \in [Thread -> {"poll", "start", "idle"}]
  BY <1>3, Zenon DEF Thread
<1>5. ThreadTypeOK
  <2>1. \A t \in Thread : pc[t] \in Labels(t) /\ pc[t] \notin HandFull
    BY <1>4 DEF Thread, Labels, HandFull
  <2>2. pc \in [Thread -> UNION {Labels(t) : t \in Thread}]
    BY <1>4, <2>1
  <2> QED
    BY <1>2, <2>1, <2>2 DEF ThreadTypeOK, Ptr
<1>6. ObjectTypeOK
  BY <1>2, FreshIsClean, SocketTypes DEF ObjectTypeOK, Init
<1>7. QueueTypeOK
  BY DEF Init, QueueTypeOK
<1>8. TypeOK
  BY <1>1, <1>5, <1>6, <1>7, PoolTypeSplits, TypeSplits
<1>9. \A c \in Conn : ~Open(c)
  BY <1>2, FreshIsClean DEF Open
<1>10. \A k \in Client : Owner(k) = {}
  BY <1>9 DEF Owner, Open
<1>11. OneOwner
  BY <1>1, <1>2, <1>4, <1>9 DEF OneOwner, Accepting
<1>12. OneHolderPerSocket
  BY <1>2, <1>4, <1>10 DEF OneHolderPerSocket, Taken, NewSocket
<1>13. TeardownExclusive
  BY <1>4 DEF TeardownExclusive, Thread
<1>14. ClosedIsClean /\ EveryWebSocketNotified
  BY <1>2 DEF ClosedIsClean, EveryWebSocketNotified
<1> QED
  BY <1>1, <1>2, <1>4, <1>8, <1>11, <1>12, <1>13, <1>14 DEF IInv, Safe

LEMMA NextIInv == IInv /\ [Next]_vars => IInv'
<1> SUFFICES ASSUME IInv, [Next]_vars PROVE IInv'
  OBVIOUS
<1> USE ThreadsApart
<1>1. CASE LoopNext
  <2>1. \/ Poll \/ MoveToTail \/ AcceptNone \/ AcceptInit \/ AcceptFail \/ OnRead
        \/ \E e \in batch : DispatchListen(e) \/ DispatchIn(e) \/ OnWrite(e)
        \/ \E k \in Client : AcceptConn(k) \/ AcceptRefuse(k)
        \/ EraseClosed("loop")
    BY <1>1 DEF LoopNext
  <2> QED
    BY <2>1, LoopMoves, AcceptConnStep, AcceptInitStep, AcceptFailStep, OnReadStep,
       OnWriteStep, EraseClosedStep
<1>2. CASE TimeoutNext
  BY <1>2, TimeoutStep
<1>3. CASE WorkerNext
  BY <1>3, TakeSteps, RunTaskStep, EraseClosedStep DEF WorkerNext
<1>4. CASE WsNext
  BY <1>4, TakeSteps, RunFrameStep, EraseClosedStep DEF WsNext
<1>5. CASE EnvNext
  BY <1>5, EnvStep
<1>6. CASE AppNext
  BY <1>6, PushStep DEF AppNext
<1>7. CASE UNCHANGED vars
  <2>1. ActiveTypeOK' /\ ThreadTypeOK' /\ ObjectTypeOK' /\ QueueTypeOK'
    BY <1>7, TypeSplits
    DEF IInv, vars, activeVars, queVars, netVars, ActiveTypeOK, ThreadTypeOK,
        ObjectTypeOK, QueueTypeOK
  <2>2. UNCHANGED <<clifd, freeVars, attached>> /\ UNCHANGED <<pc, at, conn, sock>>
    BY <1>7 DEF vars, netVars
  <2> QED
    BY <2>1, <2>2, Quiet, PartsJoin
<1> QED
  BY <1>1, <1>2, <1>3, <1>4, <1>5, <1>6, <1>7 DEF Next

THEOREM Invariant == Spec => []IInv
BY InitIInv, NextIInv, PTL DEF Spec

\* Every variable keeps its type.
THEOREM TypeCorrect == Spec => []TypeOK
<1>1. IInv => TypeOK
  BY DEF IInv
<1> QED
  BY Invariant, <1>1, PTL

\* The free list stays one chain without repetitions under the calls that four
\* threads make.
THEOREM FreeListSound == Spec => []FreeListWellFormed
<1>1. IInv => FreeListWellFormed
  BY DEF IInv, Safe
<1> QED
  BY Invariant, <1>1, PTL

\* No connection has two owners and none is lost.
THEOREM ConnectionsOwned == Spec => []OneOwner
<1>1. IInv => OneOwner
  BY DEF IInv, Safe
<1> QED
  BY Invariant, <1>1, PTL

\* No descriptor has two holders and none is leaked.
THEOREM SocketsHeld == Spec => []OneHolderPerSocket
<1>1. IInv => OneHolderPerSocket
  BY DEF IInv, Safe
<1> QED
  BY Invariant, <1>1, PTL

\* Two threads never tear down the same connection, and nobody touches one
\* that is being torn down.
THEOREM TeardownAlone == Spec => []TeardownExclusive
<1>1. IInv => TeardownExclusive
  BY DEF IInv, Safe
<1> QED
  BY Invariant, <1>1, PTL

\* A connection comes back to the pool without anything of its last client.
THEOREM RecycledClean == Spec => []ClosedIsClean
<1>1. IInv => ClosedIsClean
  BY DEF IInv, Safe
<1> QED
  BY Invariant, <1>1, PTL

\* The application learns of the end of every WebSocket.
THEOREM WebSocketsNotified == Spec => []EveryWebSocketNotified
<1>1. IInv => EveryWebSocketNotified
  BY DEF IInv, Safe
<1> QED
  BY Invariant, <1>1, PTL

-----------------------------------------------------------------------------
(* What no step of the event loop does: queue a request twice for one      *)
(* session, or end a round of Accept with clients left in the backlog and  *)
(* no edge to come for them.                                               *)

\* An object whose status tells that its request was queued, if it was.
Settled(r) == r.queued => r.status \in {"BODY_RECEIVED", "UPGRADE"}

QueuedIsRequest == \A c \in Conn : Settled(conn[c])

-----------------------------------------------------------------------------
(* The objects the handlers leave behind.                                  *)

LEMMA ChangedSettles ==
    ASSUME TypeOK, QueuedIsRequest, NEW c \in Conn, NEW r, Settled(r),
           conn' = [conn EXCEPT ![c] = r]
    PROVE  QueuedIsRequest'
<1>1. \A d \in Conn : conn'[d] = IF d = c THEN r ELSE conn[d]
  BY DEF TypeOK
<1> QED
  BY <1>1 DEF QueuedIsRequest, Settled

LEMMA UnchangedSettles ==
    ASSUME QueuedIsRequest, UNCHANGED conn
    PROVE  QueuedIsRequest'
BY DEF QueuedIsRequest, Settled

LEMMA FreshSettles == \A finish : Settled(Fresh(finish))
BY DEF Settled, Fresh

LEMMA UpdatesSettle ==
    ASSUME NEW r \in Object, Settled(r)
    PROVE  /\ Settled([r EXCEPT !.active = "recent"])
           /\ Settled([r EXCEPT !.active = "idle"])
           /\ Settled([r EXCEPT !.wbuf = TRUE])
           /\ Settled([r EXCEPT !.wbuf = TRUE, !.finish = TRUE])
           /\ Settled([r EXCEPT !.ev_writable = TRUE])
           /\ Settled([r EXCEPT !.status = "UPGRADE", !.wbuf = TRUE])
           /\ Settled([r EXCEPT !.status = "BODY_RECEIVED", !.queued = TRUE])
           /\ \A k, a : Settled([r EXCEPT !.fd = k, !.active = a])
           /\ r.status = "HEADER_RECEIVING" =>
                  \A s : /\ Settled([r EXCEPT !.status = s])
                         /\ Settled([r EXCEPT !.status = s, !.error = TRUE])
BY DEF Settled, Object

LEMMA FlushSettles ==
    ASSUME NEW r \in Object, Settled(r), NEW f \in Flush(r)
    PROVE  f.obj \in Object /\ Settled(f.obj)
<1>1. f.obj \in {r, Drained(r)}
  BY DEF Flush, FlushedAll, FlushedPart
<1>2. Settled(Drained(r))
  BY DEF Settled, Drained, Object
<1> QED
  BY <1>1, <1>2, FlushOutcome

-----------------------------------------------------------------------------
(* The ways to leave a handler.                                            *)

LEMMA KeepSettles ==
    ASSUME TypeOK, QueuedIsRequest, NEW t, NEW c \in Conn, NEW r, NEW s, NEW wake,
           Settled(r), Keep(t, c, r, s, wake)
    PROVE  QueuedIsRequest'
BY ChangedSettles DEF Keep

LEMMA ResetSettles ==
    ASSUME TypeOK, QueuedIsRequest, NEW t, NEW c \in Conn, NEW r, NEW finish,
           ResetConnectionTo(t, c, r, finish)
    PROVE  QueuedIsRequest'
BY ChangedSettles, FreshSettles DEF ResetConnectionTo, Reset

LEMMA FlushedSettles ==
    ASSUME TypeOK, QueuedIsRequest, NEW t, NEW c \in Conn, NEW r \in Object,
           Settled(r), NEW f \in Flush(r), Flushed(t, c, f)
    PROVE  QueuedIsRequest'
<1>1. f.obj \in Object /\ Settled(f.obj)
  BY FlushSettles
<1>2. Settled([f.obj EXCEPT !.ev_writable = TRUE])
  BY <1>1, UpdatesSettle
<1>3. CASE f.status = "AGAIN"
  BY <1>2, <1>3, KeepSettles DEF Flushed
<1>4. CASE f.status = "UPGRADE"
  <2>1. Keep(t, c, f.obj, sock[f.obj.fd], FALSE)
    BY <1>4 DEF Flushed
  <2> QED
    BY <1>1, <2>1, KeepSettles
<1>5. CASE f.status \notin {"AGAIN", "UPGRADE"}
  BY <1>5, ResetSettles DEF Flushed, ResetConnection
<1> QED
  BY <1>3, <1>4, <1>5

LEMMA OnErrorSettles ==
    ASSUME TypeOK, QueuedIsRequest, NEW c \in Conn, NEW r \in Object, NEW s,
           Settled(r), OnError(c, r, s)
    PROVE  QueuedIsRequest'
<1> DEFINE w == [r EXCEPT !.wbuf = TRUE, !.finish = TRUE]
<1>1. CASE ~r.error
  BY <1>1, ResetSettles DEF OnError, ResetConnection
<1>2. CASE r.error
  <2>1. PICK f \in Flush(w) :
            IF f.status = "AGAIN"
            THEN Keep("loop", c, f.obj, [s EXCEPT !.blocked = TRUE], FALSE)
            ELSE ResetConnection("loop", c, f.obj)
    BY <1>2 DEF OnError
  <2>2. w \in Object /\ Settled(w)
    BY ObjectUpdates, UpdatesSettle
  <2> HIDE DEF w
  <2>3. Settled(f.obj)
    BY <2>1, <2>2, FlushSettles
  <2>4. CASE f.status = "AGAIN"
    BY <2>1, <2>3, <2>4, KeepSettles
  <2>5. CASE f.status # "AGAIN"
    BY <2>1, <2>5, ResetSettles DEF ResetConnection
  <2> QED
    BY <2>4, <2>5
<1> QED
  BY <1>1, <1>2

-----------------------------------------------------------------------------
(* The steps.                                                              *)

LEMMA OnReadSettles ==
    ASSUME IInv, QueuedIsRequest, OnRead
    PROVE  QueuedIsRequest'
<1> DEFINE c == at["loop"]
           r == [conn[c] EXCEPT !.active = "recent"]
<1>1. TypeOK /\ pc["loop"] = "read" /\ "loop" \in Thread
  BY ThreadsApart DEF IInv, OnRead
<1>2. c \in Conn /\ conn[c] \in Object /\ Settled(conn[c])
  BY <1>1, InHand DEF HandFull, QueuedIsRequest
<1>3. r \in Object /\ Settled(r)
  BY <1>2, ObjectUpdates, UpdatesSettle
<1>4. CASE ~Open(c)
  BY <1>4, UnchangedSettles DEF OnRead, Skip
<1>5. CASE Open(c)
  <2>1. \/ ReadNothing(c, r) \/ ReadClose(c, r) \/ ReadPart(c, r)
        \/ ReadRequest(c, r) \/ ReadFrame(c, r) \/ ReadBusy(c, r)
        \/ ReadBadHeader(c, r) \/ ReadBadBody(c, r) \/ ReadOversized(c, r)
    BY <1>5 DEF OnRead
  <2> HIDE DEF c, r
  <2>2. CASE ReadNothing(c, r) \/ ReadFrame(c, r)
    BY <1>1, <1>2, <1>3, <2>2, KeepSettles DEF ReadNothing, ReadFrame
  <2>3. CASE ReadClose(c, r)
    BY <1>1, <1>2, <2>3, ResetSettles DEF ReadClose, ResetConnection
  <2>4. CASE ReadPart(c, r)
    <3>1. PICK s \in {r.status, "BODY_RECEIVING"} :
              /\ s # r.status => r.status = "HEADER_RECEIVING"
              /\ Keep("loop", c, [r EXCEPT !.status = s], Emptied(r), FALSE)
      BY <2>4 DEF ReadPart
    <3>2. Settled([r EXCEPT !.status = s])
      <4>1. [r EXCEPT !.status = r.status] = r
        BY <1>3 DEF Object
      <4> QED
        BY <1>3, <3>1, <4>1, UpdatesSettle
    <3> QED
      BY <1>1, <1>2, <3>1, <3>2, KeepSettles
  <2>5. CASE ReadRequest(c, r)
    BY <1>1, <1>2, <1>3, <2>5, UpdatesSettle, KeepSettles DEF ReadRequest
  <2>6. CASE ReadBusy(c, r) \/ ReadBadBody(c, r) \/ ReadOversized(c, r)
    BY <1>1, <1>2, <1>3, <2>6, OnErrorSettles DEF ReadBusy, ReadBadBody, ReadOversized
  <2>7. CASE ReadBadHeader(c, r)
    <3>1. PICK s \in {"HEADER_RECEIVING", "BODY_RECEIVING"} :
              OnError(c, [r EXCEPT !.status = s, !.error = TRUE], Emptied(r))
      BY <2>7 DEF ReadBadHeader
    <3> DEFINE q == [r EXCEPT !.status = s, !.error = TRUE]
    <3>2. q \in Object
      <4>1. s \in Status
        BY DEF Status
      <4> QED
        BY <1>3, <4>1, StatusUpdates
    <3>3. Settled(q)
      BY <1>3, <2>7, UpdatesSettle DEF ReadBadHeader
    <3> HIDE DEF q
    <3> QED
      BY <1>1, <1>2, <3>1, <3>2, <3>3, OnErrorSettles DEF q
  <2> QED
    BY <2>1, <2>2, <2>3, <2>4, <2>5, <2>6, <2>7
<1> QED
  BY <1>4, <1>5

LEMMA LoopSettles ==
    ASSUME IInv, QueuedIsRequest, LoopNext
    PROVE  QueuedIsRequest'
<1> USE ThreadsApart
<1> DEFINE c == at["loop"]
<1>1. TypeOK
  BY DEF IInv
<1>2. CASE Poll \/ MoveToTail \/ AcceptNone \/ EraseClosed("loop")
  BY <1>2, UnchangedSettles DEF Poll, MoveToTail, AcceptNone, EraseClosed
<1>3. CASE \E e \in batch : DispatchListen(e) \/ DispatchIn(e)
  BY <1>3, UnchangedSettles DEF DispatchListen, DispatchIn
<1>4. CASE \E k \in Client : AcceptConn(k) \/ AcceptRefuse(k)
  BY <1>4, UnchangedSettles DEF AcceptConn, AcceptRefuse
<1>5. ASSUME pc["loop"] = "init"
      PROVE  c \in Conn /\ conn[c] \in Object /\ Settled(conn[c])
  BY <1>1, <1>5, InHand DEF HandFull, QueuedIsRequest
<1>6. CASE AcceptInit
  <2>1. /\ pc["loop"] = "init"
        /\ conn' = [conn EXCEPT ![c] = [conn[c] EXCEPT !.fd = clifd, !.active = "recent"]]
    BY <1>1, <1>6 DEF AcceptInit, TypeOK
  <2> HIDE DEF c
  <2> QED
    BY <1>1, <1>5, <2>1, UpdatesSettle, ChangedSettles
<1>7. CASE AcceptFail
  BY <1>1, <1>5, <1>7, FreshSettles, ChangedSettles DEF AcceptFail, Reset
<1>8. CASE \E e \in batch : OnWrite(e)
  <2>1. PICK e \in batch : OnWrite(e)
    BY <1>8
  <2>2. e.conn \in Conn /\ conn[e.conn] \in Object /\ Settled(conn[e.conn])
    BY <1>1, <2>1 DEF OnWrite, TypeOK, Event, QueuedIsRequest
  <2>3. CASE ~Open(e.conn)
    BY <2>1, <2>3, UnchangedSettles DEF OnWrite, Skip
  <2>4. CASE Open(e.conn)
    <3>1. PICK f \in Flush(conn[e.conn]) :
              IF f.status = "AGAIN"
              THEN Keep("loop", e.conn, f.obj,
                        [sock[f.obj.fd] EXCEPT !.blocked = @ \/ f.full], FALSE)
              ELSE ResetConnection("loop", e.conn, f.obj)
      BY <2>1, <2>4 DEF OnWrite
    <3>2. Settled(f.obj)
      BY <2>2, <3>1, FlushSettles
    <3>3. CASE f.status = "AGAIN"
      BY <1>1, <2>2, <3>1, <3>2, <3>3, KeepSettles
    <3>4. CASE f.status # "AGAIN"
      BY <1>1, <2>2, <3>1, <3>4, ResetSettles DEF ResetConnection
    <3> QED
      BY <3>3, <3>4
  <2> QED
    BY <2>3, <2>4
<1> QED
  BY <1>2, <1>3, <1>4, <1>6, <1>7, <1>8, OnReadSettles DEF LoopNext

LEMMA WorkersSettle ==
    ASSUME IInv, QueuedIsRequest, WorkerNext \/ WsNext
    PROVE  QueuedIsRequest'
<1>1. TypeOK /\ "worker" \in Thread /\ "ws" \in Thread
  BY ThreadsApart DEF IInv
<1>2. CASE TakeTask \/ TakeFrame \/ \E t \in Thread : EraseClosed(t)
  BY <1>2, UnchangedSettles DEF TakeTask, TakeFrame, EraseClosed
<1>3. ASSUME NEW t \in Thread, pc[t] = "run"
      PROVE  at[t] \in Conn /\ conn[at[t]] \in Object /\ Settled(conn[at[t]])
  BY <1>1, <1>3, InHand DEF HandFull, QueuedIsRequest
<1>4. CASE RunTask
  <2> DEFINE c == at["worker"]
             r == conn[c]
  <2>1. c \in Conn /\ r \in Object /\ Settled(r)
    BY <1>1, <1>3, <1>4 DEF RunTask
  <2>2. Skip("worker") \/ Respond(c, r) \/ Upgrade(c, r) \/ Close(c, r)
    BY <1>4 DEF RunTask
  <2>3. CASE Skip("worker")
    BY <2>3, UnchangedSettles DEF Skip
  <2>4. CASE Respond(c, r)
    <3> DEFINE w == IF r.status = "UPGRADE" THEN r
                    ELSE [r EXCEPT !.wbuf = TRUE, !.finish = TRUE]
    <3>1. PICK f \in Flush(w) : Flushed("worker", c, f)
      BY <2>4 DEF Respond
    <3>2. w \in Object /\ Settled(w)
      BY <2>1, ObjectUpdates, UpdatesSettle
    <3> HIDE DEF c, r, w
    <3> QED
      BY <1>1, <2>1, <3>1, <3>2, FlushedSettles
  <2>5. CASE Upgrade(c, r)
    <3> DEFINE w == [r EXCEPT !.status = "UPGRADE", !.wbuf = TRUE]
    <3>1. PICK f \in Flush(w) : Flushed("worker", c, f)
      BY <2>5 DEF Upgrade
    <3>2. w \in Object /\ Settled(w)
      BY <2>1, StatusUpdates, UpdatesSettle DEF Status
    <3> HIDE DEF c, r, w
    <3> QED
      BY <1>1, <2>1, <3>1, <3>2, FlushedSettles
  <2>6. CASE Close(c, r)
    BY <1>1, <2>1, <2>6, ResetSettles DEF Close
  <2> QED
    BY <2>2, <2>3, <2>4, <2>5, <2>6
<1>5. CASE RunFrame
  <2> DEFINE c == at["ws"]
             r == conn[c]
  <2>1. c \in Conn /\ r \in Object /\ Settled(r)
    BY <1>1, <1>3, <1>5 DEF RunFrame
  <2>2. Skip("ws") \/ Callback(c, r) \/ CallbackClose(c, r)
    BY <1>5 DEF RunFrame
  <2>3. CASE Skip("ws")
    BY <2>3, UnchangedSettles DEF Skip
  <2>4. CASE Callback(c, r)
    <3>1. PICK w \in {r, [r EXCEPT !.wbuf = TRUE]} :
              \E f \in Flush(w) : Flushed("ws", c, f)
      BY <2>4 DEF Callback
    <3>2. w \in Object /\ Settled(w)
      BY <2>1, <3>1, ObjectUpdates, UpdatesSettle
    <3>3. PICK f \in Flush(w) : Flushed("ws", c, f)
      BY <3>1
    <3> HIDE DEF c, r
    <3> QED
      BY <1>1, <2>1, <3>2, <3>3, FlushedSettles
  <2>5. CASE CallbackClose(c, r)
    BY <1>1, <2>1, <2>5, ResetSettles DEF CallbackClose, ResetConnection
  <2> QED
    BY <2>2, <2>3, <2>4, <2>5
<1> QED
  BY <1>1, <1>2, <1>4, <1>5 DEF WorkerNext, WsNext

LEMMA TimeoutSettles ==
    ASSUME IInv, QueuedIsRequest, TimeoutNext
    PROVE  QueuedIsRequest'
<1> DEFINE c == at["timeout"]
<1>1. TypeOK /\ "timeout" \in Thread
  BY ThreadsApart DEF IInv
<1>2. CASE StartSweep \/ CheckNext \/ Peek \/ EraseClosed("timeout")
  BY <1>2, UnchangedSettles DEF StartSweep, CheckNext, Peek, EraseClosed
<1>3. CASE Sweep
  <2>1. c \in Conn /\ conn[c] \in Object
    BY <1>1, <1>3, InHand DEF HandFull, Sweep
  <2>2. UNCHANGED conn \/ ResetConnection("timeout", c, conn[c])
    <3>1. conn[c].active \in {"never", "idle", "recent"}
      BY <2>1 DEF Object
    <3> QED
      BY <1>3, <3>1 DEF Sweep, Skip
  <2> QED
    BY <1>1, <2>1, <2>2, ResetSettles, UnchangedSettles DEF ResetConnection
<1> QED
  BY <1>2, <1>3 DEF TimeoutNext

LEMMA OutsideSettles ==
    ASSUME IInv, QueuedIsRequest, AppNext \/ EnvNext
    PROVE  QueuedIsRequest'
<1>1. TypeOK /\ \A c \in Conn : conn[c] \in Object /\ Settled(conn[c])
  BY DEF IInv, TypeOK, QueuedIsRequest
<1>2. ASSUME NEW c \in Conn, Push(c)
      PROVE  QueuedIsRequest'
  <2> DEFINE w == [conn[c] EXCEPT !.wbuf = TRUE]
  <2>1. PICK f \in Flush(w) : conn' = [conn EXCEPT ![c] = f.obj]
    BY <1>2 DEF Push
  <2>2. w \in Object /\ Settled(w)
    BY <1>1, ObjectUpdates, UpdatesSettle
  <2> HIDE DEF w
  <2> QED
    BY <1>1, <2>1, <2>2, FlushSettles, ChangedSettles
<1>3. ASSUME NEW c \in Conn, Age(c)
      PROVE  QueuedIsRequest'
  <2>1. conn' = [conn EXCEPT ![c] = [conn[c] EXCEPT !.active = "idle"]]
    BY <1>3 DEF Age
  <2> QED
    BY <1>1, <2>1, UpdatesSettle, ChangedSettles
<1>4. ASSUME NEW k \in Client, Connect(k) \/ Send(k) \/ Leave(k) \/ Drain(k)
      PROVE  QueuedIsRequest'
  BY <1>4, UnchangedSettles DEF Connect, Send, Leave, Drain, EnvUnchanged
<1> QED
  BY <1>2, <1>3, <1>4 DEF AppNext, EnvNext

LEMMA NextSettles == IInv /\ QueuedIsRequest /\ [Next]_vars => QueuedIsRequest'
<1> SUFFICES ASSUME IInv, QueuedIsRequest, [Next]_vars PROVE QueuedIsRequest'
  OBVIOUS
<1>1. CASE UNCHANGED vars
  BY <1>1, UnchangedSettles DEF vars
<1> QED
  BY <1>1, LoopSettles, TimeoutSettles, WorkersSettle, OutsideSettles DEF Next

LEMMA Settles == Spec => []QueuedIsRequest
<1>1. Init => QueuedIsRequest
  <2> SUFFICES ASSUME Init, NEW c \in Conn PROVE Settled(conn[c])
    BY DEF QueuedIsRequest
  <2>1. conn[c] = Fresh(FALSE)
    BY DEF Init
  <2> QED
    BY <2>1, FreshSettles
<1> QED
  BY <1>1, Invariant, NextSettles, PTL DEF Spec

-----------------------------------------------------------------------------
(* The requests.                                                           *)

\* Only the end of a request puts one in the queue.
LEMMA OnlyRequestsQueued ==
    ASSUME TypeOK, [Next]_vars, Len(task_que') > Len(task_que)
    PROVE  OnRead /\ task_que' # task_que
<1>1. task_que \in Seq(Task)
  BY DEF TypeOK
<1>2. task_que' # task_que /\ ~UNCHANGED queVars /\ ~UNCHANGED vars
  BY <1>1 DEF queVars, vars
<1>3. ~TakeTask
  BY <1>1 DEF TakeTask
<1>4. ~TimeoutNext
  BY <1>2 DEF TimeoutNext, StartSweep, CheckNext, Peek, Sweep, EraseClosed,
              TimeoutUnchanged
<1>5. ~WorkerNext /\ ~WsNext
  BY <1>2, <1>3 DEF WorkerNext, WsNext, RunTask, TakeFrame, RunFrame, EraseClosed,
                    queVars
<1>6. ~AppNext /\ ~EnvNext
  BY <1>2 DEF AppNext, Push, EnvNext, Connect, Send, Leave, Drain, Age, EnvUnchanged
<1>7. ~Poll /\ ~MoveToTail /\ ~AcceptNone /\ ~AcceptInit /\ ~AcceptFail
  BY <1>2 DEF Poll, MoveToTail, AcceptNone, AcceptInit, AcceptFail
<1>8. /\ ~\E e \in batch : DispatchListen(e) \/ DispatchIn(e) \/ OnWrite(e)
      /\ ~\E k \in Client : AcceptConn(k) \/ AcceptRefuse(k)
      /\ ~EraseClosed("loop")
  BY <1>2 DEF DispatchListen, DispatchIn, OnWrite, AcceptConn, AcceptRefuse, EraseClosed
<1>9. LoopNext
  BY <1>2, <1>4, <1>5, <1>6 DEF Next
<1> QED
  BY <1>2, <1>7, <1>8, <1>9 DEF LoopNext

LEMMA QueuedStep ==
    ASSUME IInv, QueuedIsRequest, [Next]_vars, Len(task_que') > Len(task_que)
    PROVE  ~conn[Last(task_que').conn].queued
<1> DEFINE c == at["loop"]
           r == [conn[c] EXCEPT !.active = "recent"]
<1>1. OnRead /\ task_que' # task_que /\ task_que \in Seq(Task)
  BY OnlyRequestsQueued DEF IInv, TypeOK
<1>2. c \in Conn /\ conn[c] \in Object /\ Settled(conn[c])
  BY <1>1, InHand, ThreadsApart DEF OnRead, IInv, HandFull, QueuedIsRequest
<1>3. r.status = conn[c].status
  BY <1>2, ObjectUpdates
<1>4. \/ UNCHANGED queVars
      \/ ReadNothing(c, r) \/ ReadClose(c, r) \/ ReadPart(c, r)
      \/ ReadRequest(c, r) \/ ReadFrame(c, r) \/ ReadBusy(c, r)
      \/ ReadBadHeader(c, r) \/ ReadBadBody(c, r) \/ ReadOversized(c, r)
  BY <1>1 DEF OnRead
<1> HIDE DEF c, r
<1>5. ReadRequest(c, r)
  BY <1>1, <1>4 DEF ReadNothing, ReadClose, ReadPart, ReadFrame, ReadBusy,
                    ReadBadHeader, ReadBadBody, ReadOversized, OnError, queVars
<1>6. /\ task_que' = Append(task_que, [conn |-> c, client |-> r.fd])
      /\ conn[c].status \in {"HEADER_RECEIVING", "BODY_RECEIVING"}
  BY <1>3, <1>5 DEF ReadRequest
<1>7. Last(task_que') = [conn |-> c, client |-> r.fd]
  BY <1>1, <1>6 DEF Last
<1>8. Last(task_que').conn = c
  BY <1>7
<1>9. ~conn[c].queued
  BY <1>2, <1>6 DEF Settled
<1> QED
  BY <1>8, <1>9

-----------------------------------------------------------------------------
(* The backlog.                                                            *)

\* The other threads do not move the loop.
LEMMA OthersLeaveLoop ==
    ASSUME ThreadTypeOK, NEW t \in Thread, t # "loop",
           NEW label, NEW c, Goto(t, label, c)
    PROVE  pc'["loop"] = pc["loop"]
BY ThreadsApart DEF Goto, ThreadTypeOK

LEMMA OthersStay ==
    ASSUME TypeOK, TimeoutNext \/ WorkerNext \/ WsNext \/ AppNext \/ EnvNext
    PROVE  pc'["loop"] = pc["loop"]
<1>1. ThreadTypeOK /\ Thread = {"loop", "timeout", "worker", "ws"}
  BY TypeSplits DEF Thread
<1>2. CASE TimeoutNext
  <2>1. \E label, c : Goto("timeout", label, c)
    <3>1. CASE Sweep
      <4>1. CASE conn[at["timeout"]].active = "never"
        BY <3>1, <4>1 DEF Sweep, Skip
      <4>2. CASE conn[at["timeout"]].active = "idle"
        BY <3>1, <4>2 DEF Sweep, ResetConnection, ResetConnectionTo
      <4>3. CASE conn[at["timeout"]].active = "recent"
        BY <3>1, <4>3 DEF Sweep
      <4>4. conn[at["timeout"]].active \in {"never", "idle", "recent"}
        BY <3>1, <1>1, InHand DEF Sweep, HandFull, Object
      <4> QED
        BY <4>1, <4>2, <4>3, <4>4
    <3>2. CASE StartSweep \/ CheckNext \/ Peek \/ EraseClosed("timeout")
      BY <3>2 DEF StartSweep, CheckNext, Peek, EraseClosed
    <3> QED
      BY <1>2, <3>1, <3>2 DEF TimeoutNext
  <2> QED
    BY <1>1, <2>1, OthersLeaveLoop
<1>3. ASSUME NEW t, NEW c, NEW f, Flushed(t, c, f)
      PROVE  \E label, d : Goto(t, label, d)
  <2>1. CASE f.status = "AGAIN"
    BY <1>3, <2>1 DEF Flushed, Keep
  <2>2. CASE f.status = "UPGRADE"
    BY <1>3, <2>2 DEF Flushed, Keep
  <2>3. CASE f.status \notin {"AGAIN", "UPGRADE"}
    BY <1>3, <2>3 DEF Flushed, ResetConnection, ResetConnectionTo
  <2> QED
    BY <2>1, <2>2, <2>3
<1>4. CASE WorkerNext
  <2>1. \E label, c : Goto("worker", label, c)
    <3>1. CASE TakeTask \/ EraseClosed("worker")
      BY <3>1 DEF TakeTask, EraseClosed
    <3>2. CASE RunTask
      <4> DEFINE c == at["worker"]
      <4>1. Skip("worker") \/ Respond(c, conn[c]) \/ Upgrade(c, conn[c]) \/ Close(c, conn[c])
        BY <3>2 DEF RunTask
      <4>2. CASE Skip("worker") \/ Close(c, conn[c])
        BY <4>2 DEF Skip, Close, ResetConnectionTo
      <4>3. CASE Respond(c, conn[c]) \/ Upgrade(c, conn[c])
        <5>1. \E f : Flushed("worker", c, f)
          BY <4>3 DEF Respond, Upgrade
        <5> QED
          BY <1>3, <5>1
      <4> QED
        BY <4>1, <4>2, <4>3
    <3> QED
      BY <1>4, <3>1, <3>2 DEF WorkerNext
  <2> QED
    BY <1>1, <2>1, OthersLeaveLoop
<1>5. CASE WsNext
  <2>1. \E label, c : Goto("ws", label, c)
    <3>1. CASE TakeFrame \/ EraseClosed("ws")
      BY <3>1 DEF TakeFrame, EraseClosed
    <3>2. CASE RunFrame
      <4> DEFINE c == at["ws"]
      <4>1. Skip("ws") \/ Callback(c, conn[c]) \/ CallbackClose(c, conn[c])
        BY <3>2 DEF RunFrame
      <4>2. CASE Skip("ws") \/ CallbackClose(c, conn[c])
        BY <4>2 DEF Skip, CallbackClose, ResetConnection, ResetConnectionTo
      <4>3. CASE Callback(c, conn[c])
        <5>1. \E f : Flushed("ws", c, f)
          BY <4>3 DEF Callback
        <5> QED
          BY <1>3, <5>1
      <4> QED
        BY <4>1, <4>2, <4>3
    <3> QED
      BY <1>5, <3>1, <3>2 DEF WsNext
  <2> QED
    BY <1>1, <2>1, OthersLeaveLoop
<1>6. CASE AppNext
  BY <1>6 DEF AppNext, Push
<1>7. CASE EnvNext
  BY <1>7 DEF EnvNext, Connect, Send, Leave, Drain, Age, EnvUnchanged
<1> QED
  BY <1>2, <1>4, <1>5, <1>6, <1>7

LEMMA AcceptStep ==
    ASSUME TypeOK, [Next]_vars, pc["loop"] \in {"accept", "init"}, pc'["loop"] = "poll"
    PROVE  \/ \A k \in Client : sock'[k].phase # "backlog"
           \/ LISTEN \in ready'
           \/ free_list_head' = NULL /\ count' > MaxConn
<1>1. ThreadTypeOK /\ "loop" \in Thread
  BY TypeSplits, ThreadsApart
<1>2. \A label, c : Goto("loop", label, c) => label = "poll"
  BY <1>1 DEF Goto, ThreadTypeOK
<1>3. LoopNext
  BY OthersStay DEF Next, vars
<1>4. ~Poll /\ ~MoveToTail /\ ~OnRead /\ ~EraseClosed("loop")
  BY DEF Poll, MoveToTail, OnRead, EraseClosed
<1>5. ~\E e \in batch : DispatchListen(e) \/ DispatchIn(e) \/ OnWrite(e)
  BY DEF DispatchListen, DispatchIn, OnWrite, Dispatch
<1>6. /\ ~AcceptInit /\ ~AcceptFail
      /\ ~\E k \in Client : AcceptConn(k)
  BY <1>2 DEF AcceptInit, AcceptFail, AcceptConn
<1>7. CASE AcceptNone
  BY <1>7 DEF AcceptNone, Backlog, netVars
<1>8. CASE \E k \in Client : AcceptRefuse(k)
  BY <1>8 DEF AcceptRefuse, FreeListPopFull, freeVars
<1> QED
  BY <1>3, <1>4, <1>5, <1>6, <1>7, <1>8 DEF LoopNext

-----------------------------------------------------------------------------
(* The theorems.                                                           *)

\* No session's request reaches the handlers twice.
THEOREM QueuedOnce == Spec => RequestQueuedOnce
<1>1. IInv /\ QueuedIsRequest /\ [Next]_vars
      => [Len(task_que') > Len(task_que) => ~conn[Last(task_que').conn].queued]_vars
  BY QueuedStep
<1> QED
  BY <1>1, Invariant, Settles, PTL DEF Spec, RequestQueuedOnce

\* A round of Accept ends with an empty backlog or an exhausted pool.
THEOREM AcceptDrains == Spec => AcceptTakesAll
<1>1. TypeOK /\ [Next]_vars
      => [ pc["loop"] \in {"accept", "init"} /\ pc'["loop"] = "poll"
           => \/ \A k \in Client : sock'[k].phase # "backlog"
              \/ LISTEN \in ready'
              \/ free_list_head' = NULL /\ count' > MaxConn ]_vars
  BY AcceptStep
<1> QED
  BY <1>1, TypeCorrect, PTL DEF Spec, AcceptTakesAll
=============================================================================
