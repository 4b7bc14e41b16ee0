# mevent in TLA+

TLA+ models of mevent, a small HTTP and WebSocket server library in C++ (`src/`), with TLC
configurations that check them on small instances and TLAPS proofs that hold for every instance.
Paths and line numbers below refer to `src/`.

## The system

`HTTPServer` (`http_server.cpp`) listens and starts `worker_threads_` threads, each with an
`EventLoop` of its own. Each `EventLoop` (`event_loop.cpp`) has its own epoll instance, its own
`ConnectionPool`, its own task queues and its own threads; loops share the listening socket and the
application's handlers. Inside one loop:

| part | state | operations | what makes it correct |
|---|---|---|---|
| event loop thread (`EventLoop::Loop`, `Accept`, `OnRead`, `OnWrite`) | epoll's edges, the batch of events in hand | poll, accept, read, write | every client is accepted, an edge is never lost with data left behind it |
| timeout thread (`CheckConnectionTimeout`) | a cursor into the active list | walk the list, close idle connections | visits the least recently active first, misses none, closes none twice |
| `WorkerThread` | `task_que_` (bare `Connection` pointers) | take a request, run the handler, flush | each request is run once, on the session that sent it |
| `WebSocketWorkerThread` | `ws_task_que_` | take a frame, run the callback, flush | each frame reaches the callbacks of its own session |
| `Connection` (`connection.cpp`) | `fd_`, `active_time_`, `write_buffer_chain_`, `Request`, `Response`, `WebSocket`, `mtx_` | `ReadData`, `Readn`, `Flush`, `Reset` | reset completely before reuse; `fd_` closed once |
| `ConnectionPool` (`connection_pool.cpp`) | a free list (stack) and an active list (doubly linked, ordered by activity, with a cursor) | pop, push, erase, sweep | no connection lost or handed out twice; well-formed lists |
| `Request` (`request.cpp`) | `status_`, `parse_status_`, `rbuf_`, lengths | `ReadData`, `Parse` | a request is handed over once, whole, within its limits, however it was cut |
| `Response` (`response.cpp`) | `header_map_`, `wbuf_`, `finish_` | headers, `WriteString`, `WriteErrorMessage`, `Flush` | each response has one length, that of its body |
| output of a connection (`connection.cpp`) | `write_buffer_chain_`, `write_len` of its head | `WriteString`, `WriteData`, `Flush`, `Writen` | nothing lost, doubled or torn apart by partial writes of several threads |
| `WebSocket` (`websocket.cpp`) | `rbuf_`, `cache_str_` | `ReadData`, `Parse`, `Upgrade`, the callbacks, the `Safe` functions | messages put together from frames, in order, none lost or doubled |
| epoll (`event_loop_base_epoll.cpp`) | registrations | `Add`, `Modify`, `Poll` | edge-triggered: an edge is reported once |
| router (`ternary_search_tree.cpp`, `HTTPHandler`) | a ternary search tree | `Insert`, `Search`, `SearchOne`, `Erase` | the longest registered prefix wins |
| codecs (`base64.cpp`, `util.cpp`, forms and headers in `request.cpp`, frames in `websocket.cpp`) | none | encode, decode, parse | what one side writes the other reads |
| the chat room (`examples/chat_room.cpp`), an application | members of each room, a queue of messages, two mutexes, a thread | subscribe, publish, callbacks, `TaskThread` | every member gets every message once and in order; no deadlock with `mtx_` |

They interact through shared memory: the four threads lock a connection's `mtx_` for one handler,
the pool has a mutex per list, each queue has one. What is hard to test in this:

- any of the four threads may decide to close a connection that another one is about to use;
  `ResetConnection` does two list operations, the second after the object is already free;
- tasks and events are pointers, without the session they were made for;
- everything is edge-triggered, so a missed edge is a client that waits for ever;
- requests, headers and frames arrive cut into reads at any byte;
- the pool runs out, and system calls on a new socket fail half way;
- handlers, callbacks and other threads write to one chain of buffers, and the socket takes any part
  of it at a time;
- an application has mutexes of its own, which it takes with `mtx_` held, and keeps pointers to
  WebSockets that end in other threads.

`PROJECT.json` lists these at their lines ("hazards") with the property that catches each.

## Modules

| module | models | TLC | proofs |
|---|---|---|---|
| `ConnectionPool` | the operations of `ConnectionPool`, pointer by pointer | with the two below | `ConnectionPoolProofs` |
| `AbstractPool` | what the pool promises: a stack, a queue, a sweep over the queue | as a property | |
| `PoolContract` | the pool under every sequence of calls that keeps its discipline | `MCPoolContract` | `PoolContractProofs` |
| `EventLoop` | one loop: four threads, connections, queues, epoll, clients; EXTENDS `ConnectionPool` | `MCEventLoop` | `EventLoopProofs` |
| `RequestParser` | `Request::ReadData` and `Request::Parse` of one session | `MCRequestParser` | `RequestParserProofs` |
| `WebSocket` | `WebSocket::ReadData` and `WebSocket::Parse` of one session | `MCWebSocket` | `WebSocketProofs` |
| `SearchTree` | the router | `MCSearchTree` | `SearchTreeProofs` |
| `ConnectionOutput` | the chain of buffers of a connection, `Flush` and `Writen` | with `ChatRoom` | `ChatRoomProofs` |
| `ChatRoom` | the chat room and the four threads that run it; EXTENDS `ConnectionOutput` | `MCChatRoom` | `ChatRoomProofs` |
| `Codec` | base64, URL decoding | with `Codecs` | `CodecsProofs` |
| `HeaderMap` | maps from names to values, which requests and responses have alike | with `Codecs` | `CodecsProofs` |
| `Fields` | headers and forms of a request; EXTENDS `Codec` and `HeaderMap` | with `Codecs` | `CodecsProofs` |
| `Response` | one response, from its handler to `Flush`; EXTENDS `HeaderMap` | with `Codecs` | `CodecsProofs` |
| `Frames` | the format of WebSocket frames, written and read; EXTENDS `Codec` | with `Codecs` | `CodecsProofs` |
| `Codecs` | all of these at work on what somebody types | `MCCodecs` | `CodecsProofs` |

In each component's module, definitions that carry no comment and stand right before a commented
one are variants: what the code would be with a mistake in it (a forgotten close, a lock taken
twice, `>=` for `>`). No action uses them; putting one in place of the definition it precedes must
violate a property, and PROJECT.json ("mutants") says which.

### ConnectionPool, PoolContract, AbstractPool

Variables are the pool's members: `free_list_head`, `free_next` (`free_next_` of each object),
`count`, `active_list_head`, `active_list_tail`, `active_next`, `active_prev`,
`active_list_lookup_cursor`. Each method is one action, because each holds its list's mutex
throughout. `created` and `free_rank` are auxiliary: which objects were allocated, and the height
of each in the stack. `Reserve` is left out: its only call is commented out (`event_loop.cpp:85`).

`PoolContract` is the pool's most general client that is well behaved (gives back what it holds,
erases what is on the list). `PoolContract!ImplementsAbstractPool` is the refinement: the
abstract stack, queue and pending sweep are read off the pointers.

### EventLoop

A handler of the code is one action up to its last operation on the pool or a queue, since it holds
the connection's `mtx_` and everything else it shows to others is behind the mutex of one
operation. `ResetConnection` is therefore two actions (up to `FreeListPush`; then
`ActiveListErase`, `mtx_` held in between), and `ActiveListUpdate`, which the loop calls *before*
it locks `mtx_` (`event_loop.cpp:144`), two more. `pc` and `at` say what each thread does next and
on which connection.

| actions | code |
|---|---|
| `Poll`, `DispatchListen`, `DispatchIn`, `MoveToTail`, `OnWrite` | `Loop` 135-153, `Poll` of the epoll base, `ActiveListUpdate` |
| `AcceptNone`, `AcceptConn`, `AcceptRefuse`, `AcceptInit`, `AcceptFail` | the returns and continues of `Accept` 156-230 |
| `OnRead` with `ReadNothing` ... `ReadOversized`, `OnError` | `OnRead` 324-337 with what the two `ReadData` may return |
| `StartSweep`, `CheckNext`, `Peek`, `Sweep` | `CheckConnectionTimeout` 232-282 |
| `TakeTask`, `RunTask` (`Respond`, `Upgrade`, `Close`), `TakeFrame`, `RunFrame` | the two workers 352-466 |
| `EraseClosed` | the second half of `ResetConnection` 284-293, in each thread |
| `Push` | the `Safe` functions, called by an application thread |
| `Connect`, `Send`, `Leave`, `Drain`, `Age` | clients, kernel and time |

What a read delivers is abstracted to the outcomes of `ReadData` that the control flow tells apart
(part of a request, a whole one, a bad header, a frame, too much, end of file). `RequestParser` and
`WebSocket` are the inside of two of these outcomes; they have the same shape (socket, edge,
`ReadData`) and could be put in their place, at a price in states that TLC cannot pay.

Abstractions, each with the reason it is sound for the properties:

- a client is its socket and connects once; a new client with a reused descriptor is another client;
- "idle" is judged when the timeout thread looks, the code compares with a clock it read at the
  start of the sweep: the model lets time pass at any moment, so every outcome of the code is there;
- one read takes all that was sent and hands over at most one frame. More frames in one read queue
  more tasks of the same session, as do two reads;
- the header with the WebSocket key is the last to arrive, so a handler cannot upgrade a session
  whose header is still incomplete;
- writing to a socket whose peer has left may succeed or fail; events come in any order; a socket
  is full at any moment a client has not read;
- one worker of each kind: `EventLoop::worker_threads_` is 1 (`event_loop.cpp:47`) and nothing sets
  it (`HTTPServer::SetWorkerThreads` is the number of loops);
- an application pushes only on a WebSocket it holds (one whose end it was not told of), and never
  from inside a callback of the same connection, where `mtx_` would be locked twice;
- `Response::wbuf_` is taken to be empty when a session starts;
- CLOSE frames call `on_close_func_` of the application, too: only the call of
  `EventLoop::OnClose` is tracked.

`attached` (WebSockets the application holds), `queued` of an object and `client` of a task are
auxiliary: the code has none of them, and no guard reads them but that of `Push`.

### RequestParser

The client sends lines (request line, headers, the empty line, body), the network delivers bytes,
and every read takes what there is, up to `CHUNK`. Of a line the model keeps the kind, the number
of bytes, the digits of a `Content-Length` (as value and power of ten) and whether it has a byte
`Parse` refuses. `Parse` goes over the part of a line that has arrived in one step; `parse_status`
and `parse_offset` carry over between reads, as in the code. Kept exactly: when the loop of
`ReadData` is left and re-entered, the limits and what they count, 32-bit wrap-around of
`content_length_`, a second `Content-Length` appended to the digits of the first, and the
look-ahead of nine bytes, which passes over a `Content-` header if the read ends inside it
(`request.cpp:515`). "closed" stands for the error page and the end of the session, which
`EventLoop` models. Not kept: path, query, `Content-Type` and `Sec-WebSocket-Key`, whose values
decide nothing here, and header names of one letter.

### WebSocket

Frames with an opcode, `fin`, header and payload lengths; bytes arrive anyhow. `ReadData` reads in
chunks and lets `Parse` take frames off `rbuf_` one by one; `cache` is the sequence of payloads in
`cache_str_`, `queue` the frames handed to `WebSocketTaskPush`. Payload lengths are below 2^63;
unmasking is data.

### SearchTree

A node is named by the turns that lead to it, the tree is a function from names to nodes. The way
down of `Insert`, `SearchOne` and `Search` is the same, so it is one recursive function of the
number of steps (`Way`, each step `Down`), as long as the tree is deep; `Erase`, a loop with
variables of its own, is another (`Walk`, each round `Round`). `Traverse`, which `Search` calls and
which calls itself on the three children of a node, is a recursive function of the depth left below
the node. The properties compare all of them with what they should return, written over the set of registered paths. Paths are not empty and
handlers are not null. `Erase`, which the server does not call either, does less well than its name
says: a path that no other extends takes the nodes between it and the last branch along, with their
handlers, and, if the character after that branch is also that of a node to the left or right of the
branch, everything below that node instead. `EraseIsConfined` states what remains true.

### ConnectionOutput

`chain` is `write_buffer_chain_`: buffers that consist of what they are (`item`) and how many of
their bytes are written (`write_len`, here `done`). `Flush` is the set of its outcomes: the socket
takes any number of bytes of the chain and is then full or fails, or takes everything; so each
outcome stands for the loop of `Flush`, the loop of `Writen` inside it and all cuts that `write` can
make. `sent` is auxiliary: what the socket has taken. `StreamIsWhole` is conservation: what was sent
and what is left make up whole buffers, one after the other.

### ChatRoom

The library's part is cut down to what an application sees: sessions that send one request and
become WebSockets, close and are recycled; `EventLoop` has the rest (pool, epoll, timeout). Handlers
and callbacks hold `mtx_` from beginning to end, so a handler is one action up to the next mutex it
takes.

| actions | code |
|---|---|
| `Accept`, `ReadRequest`, `ReadFrame`, `Close`, `OnWrite` | the event loop, and the timeout thread, which closes alike |
| `TakeTask`, `RunTask`, `FlushConn("worker")` | `WorkerThread`; `RunTask` begins the handlers and is all of `Index` |
| `Subscribe`, `Insert` | `Subscribe` 197-229, its two maps being changed under `clients_mtx_` |
| `Publish`, `TaskPush` | `Publish` 172-190, `TaskPush` 251-264 |
| `TakeFrame`, `RunFrame`, `FlushConn("ws")` | `WebSocketWorkerThread`; `RunFrame` is all of `Ping` and of `OnMessage` for an empty message |
| `Post` | `OnMessage` and `TaskPush` 231-249 |
| `Leave`, `Reset` | `OnClose` 145-162, called for a CLOSE frame and by `ResetConnection` |
| `TakeMessage`, `Lookup`, `WriteRawDataSafe` | `TaskThread` 266-299, one member at a time in any order |

`TaskPush` looks `channel_index_map_` up under `task_mtx_` while `Subscribe` changes it under
`clients_mtx_`: a data race, for which the lookup in `Post` may fail. A task of `task_que` is a bare
connection, as in the code, so a handler may run on a session that came later (finding `stale`); the
properties hold in spite of it. `audience` is auxiliary: who was in the room when a message was
queued, and is still there. A reset clears what the session was sent: a client reads what arrived
before its connection went away, and no property is about it.

### Codec, Fields, Response, Frames, Codecs

Conversions are operators on sequences of character codes: the loops of the code are recursive
functions of the position, and masks and shifts of a byte are remainders and quotients. `Codecs`
compares each with what the other side does: `Base64Encode` with the bits of its input, forms with what a browser makes of the
values, headers with the values sent, `Parse` with `MakeFrame` and a client's mask. `Response` is a
state machine, since a handler calls its operations in any order; only the number of bytes of a body
is kept. Things the properties say exactly, and a reader may not expect: names of form fields are
not decoded, only their values; a field without a value is absent; the 400 page is four bytes longer
than announced.

## Runs

| run | bounds | shows |
|---|---|---|
| `pool_contract` | 3 connections, limit 2 | list shapes and refinement: empty, one, first, middle, last; limit reached |
| `event_loop` | 3 clients, 2 connections (limit 1), 1 send each | all safety properties of the loop, every action of the handlers; exhaustion, reuse during teardown, failing calls |
| `live` | 1 client, 2 sends, application pushes | `GoneIsClosed`, `QueuesAreServed`, `ResponsesAreSent`, `RequestQueuedOnce` |
| `request` | 5 lines of 7 kinds, chunks of 2 bytes, look-ahead 2, lengths modulo 16 | every way to cut a request, both limits, both ends of the look-ahead, wrap-around |
| `websocket` | 4 frames of 6 kinds, chunks of 3 bytes, buffer of 3 | every way to cut frames, fragments with control frames between them |
| `router` | 7 paths, 2 handlers, 13 look-ups, limits 0, 1, 7 | every tree over these paths in every order of registering and erasing |
| `chat` | 3 clients, 2 connections, 2 rooms, 2 messages, 1 frame, buffers of 2 bytes | sessions that recycle a connection while a message is on its way to it, both ways to post, every cut of every write |
| `codecs` | strings of 4 of 9 characters, 10 lengths, 4 header fields with up to 2 values, bodies of 2 bytes | every string against every conversion; every sequence of calls on a response |
| `pool_limit`, `lost`, `stale`, `control_frames` | small | the four findings |

Why these bounds are enough: every hazard involves at most two sessions of one connection object and
two threads (two clients, two objects: one to be recycled and one beside it on the list), and a
third client for the pool to be exhausted, or for a recycled connection to be recycled again.
Constants such as `READ_BUFFER_SIZE` are scaled so that the smallest lines and frames are cut,
joined, and exactly filled. Every property of a passing run but the three of liveness is proved for
all values, so there the bounds are what found the mistakes, and the proofs what excludes the rest;
only for liveness do they matter. `MaxSends`, `MaxLines`, `MaxFrames`,
`MaxMessages`, `MaxLen` and the three bounds of `Response` are the only bounds on behaviour. In
`codecs`, four characters are one more than an escape or a base64 group, so that each ends inside,
at and after the string's end. Symmetry is used in safety runs only. `CHECK_DEADLOCK FALSE` where
sessions end (`request`, `websocket`, `chat`): the clients have left and nothing more can happen;
and in `codecs`, where nothing is typed after the last character. A circle of threads that wait for
each other is found by `NoLockCycle`, not by the deadlock check.

### Fairness

`FairSpec` gives weak fairness to each thread's next step: threads run under the operating system's
scheduler, a thread that can go on does so in the end, a mutex that is free is got, and handlers and
callbacks of the application return. Clients owe nothing: they need not send, read or leave, so
`ResponsesAreSent` promises progress only until the socket is full again. Time need not pass.

## Proofs

All theorems hold for every set of connections, clients, rooms, messages, paths and handlers, every
limit and every chunk size, under the named assumptions of the modules: `NULL` is no connection,
client, message or handler; limits are naturals; frames and lines have the form described; chunks and
buffers are not empty; characters of a path are not 0, and no path is registered that is empty;
characters that are typed are bytes other than 0, CR and LF, and messages are not longer than 2^30
(the upper half of an eight-byte length is not modelled).

Every module has the shape: a strengthened invariant `IInv` (checked by TLC before it was proved),
one lemma for each action, and the properties as consequences.

- **`PoolContractProofs`**: `TypeOK /\ FreeListSound /\ ActiveListSound` is inductive. The idea is
  in the auxiliary variables: `free_rank` and `place` number the lists, so that "one chain" becomes a
  first-order statement about neighbours. The same numbers give the refinement: what the recursive
  `Chain` of the mapping reads off the pointers is the sequence in the order of the numbers, and the
  step of each call of the pool changes the numbers as the step of `AbstractPool` changes stack, queue
  and sweep. `ConnectionPoolProofs` has the lemmas on the free list, shared with the next module.
- **`EventLoopProofs`**: the inductive invariant is the conjunction of the type invariant, all
  safety properties of the run `event_loop` that are invariants, and that `clifd` is set exactly
  while `Accept` sets a connection up. No property is inductive alone: that `ResetConnection` does
  not push a connection twice needs `OneOwner`, that nobody reopens it meanwhile
  `TeardownExclusive`, that a popped object is clean `ClosedIsClean`. The proof says nothing of the
  active list beyond its types, because what one would want to say is false (finding `lost`).
  Then, what no step does. `RequestQueuedOnce` needs an invariant of its own, `QueuedIsRequest`: a
  session whose request was queued is in `BODY_RECEIVED` or `UPGRADE`, where `ReadData` never again
  calls `TaskPush`; every handler of every thread has to keep it, whatever `Flush` leaves of the
  object. `AcceptTakesAll` needs the types only: of all the steps two lead from `Accept` back to
  `Poll`.
- **`WebSocketProofs`**: `Layout` (the frames lie one after the other in the stream), `Frontier`
  (`Parse` has taken a whole number of frames, and `cache` is what was collected of them) and
  `Reading` (a read that was not full emptied the socket; what came later left an edge) make
  `Reassembly` and `NothingStranded` inductive.
- **`RequestParserProofs`**: the same `Layout`; `Stage`, what `ReadData` knows at each of its
  places; `Header`, that `Parse` stands between or in lines that it did not refuse. A second
  invariant, `LInv`, is for `LengthAsAnnounced`: the length parsed so far is what the lines that
  `Parse` has passed tell (`LengthSoFar`, where `Told` is a function of the number of lines, so that a
  line more is a step of it); inside a line `parse_status` says whether the line is taken for a
  `Content-Length` (`Inside`); and whether it is depends on where the reads cut the stream, so what
  is remembered of them must not change behind `Parse` (`Cuts`).
- **`ChatRoomProofs`**: first the chain of buffers of `ConnectionOutput`, for buffers of every
  length: a write appends a whole buffer to the stream, and `Flush`, wherever it stops, only moves the
  border between what is sent and what is left (division and remainder of an offset by the length of a
  buffer). The inductive invariant adds to `StreamIsWhole` who holds which mutex (`MtxOK`: exactly the
  thread in the middle of a handler on that connection; `ClientsMtxOK`), what a handler may rely on
  from one lock to the next (`HandOK`), and that a member still has the request it subscribed with
  (`Members`): without it a second task of the same session could put it into a second room.
  `NoLockCycle` follows from the mutexes alone: the holder of `clients_mtx_` waits for nothing, and a
  thread that waits for an `mtx_` has no mutex. `InOrder` and `NobodySkipped` need a second
  invariant, `OInv`, which follows a message from `chat_que` to the streams: numbers rise along the
  queue (`Numbers`), what a stream has is older than all that may still be sent to it (`NumbersSent`),
  and everyone in the audience of a message has a connection that either has it or is where the
  message will get to (`Served`).
- **`CodecsProofs`**: `ResponseIsFramed` compares what was sent with the header as it is now. It is
  inductive together with `NoneYet`: as long as the handler may still change the header, no response
  with code 200 is out. The other four properties of `Codecs` say something of the string that has
  been typed, and need of the specification only that it is a string of one line, not longer than
  `MaxLen` (`TypeInv`); the rest is about the operators. A recursive function over a string is replaced
  by any function that begins with the same value and obeys the same equation at every position
  (`Steps`, `DecodeSteps`, `EscapeSteps`, `NumberSteps`: the recursive one equals it, by induction),
  and such a function for a whole string is glued from those of its parts. So `ParseHeader` and
  `ParseFormUrlencoded` are followed field by field (`Scans`, with `LineScanned` and `FieldRead` for
  one field each, starting from and ending in an empty field), and an escape that is put before a
  string is one step more of `URLDecode` (`EscapedBefore`), by induction from the end. `ParseHead` is
  followed for the three sizes of the length (`LengthFieldIs`), on any data that begins with a head
  (`BeginsWith`), so that whole frames, masked ones and beginnings of them are cases of two lemmas;
  that a mask comes off again is shown on the eight bits of `Xor` (`XorTwice`). Base64 is proved block
  by block (`Block`, `Digit`): `Quad` moves each of the 24 bits (`BitMoves`), `Triple` moves them back
  even if the last digits are missing (`TripleOfQuad`), and the three lengths of the tail differ only in
  how much of the last block is there (`TextIs`, `TailRead`).
- **`SearchTreeProofs`**: the tree is finite and has what leads to its nodes (`WellFormed`), and each
  handler is where its path leads to (`Led`). No way is longer than the tree is deep (`DepthBounds`),
  so that the recursion of the code ends where `Way` does; the way of a string passes by every node
  that the string or a beginning of it leads to (`Follow`), and strings that lead to the same node
  begin alike (`Agree`). So the handlers on the way are those of the registered prefixes, the longest
  last; `Insert` ends at the node of the path or beside the tree; and a path
  that others extend has a node straight below its own, for which `Erase` frees nothing. What `Search`
  lists (`SearchIsComplete`): `Traverse` goes through a subtree in four parts, left, node, center,
  right, and the strings that lead into them come in this order (`PartsInOrder`); so by induction over
  the depth it lists every handler of the subtree once, in the order of the strings
  (`TraverseLists`), and what it begins with is what the search string leads to (`MatchingIsBelow`).

Inductions (over steps, turns, lines or places in a list) take the least counterexample, with the
well-founded order of the naturals.

Only model-checked: liveness (`GoneIsClosed`, `QueuesAreServed`, `ResponsesAreSent`), which rests on
fairness and with it on `ENABLED`, and what the four findings show, which are counterexamples.

## Findings

1. `pool_limit`: `FreeListPop` compares `count_ > max_conn_` before it counts
   (`connection_pool.cpp:52`): one connection more than `SetMaxWorkerConnections` says.
2. `lost`: `ActiveListUpdate` is called without `mtx_` (`event_loop.cpp:144`); interleaved with
   `ResetConnection` in another thread it breaks the active list, and an open connection is no
   longer seen by the timeout thread.
3. `stale`: a task holds a pointer and no session (`event_loop.cpp:366`): after a close and a new
   accept the handler of the old request runs on the new client.
4. `control_frames`: control frames share `cache_str_` with the message they interrupt
   (`websocket.cpp:224`).

Further behaviour worth knowing, which no line of the repository contradicts: an exhausted pool
leaves clients in the backlog until the next one connects (`event_loop.cpp:177`); an error page or a
WebSocket frame that does not fit the socket is sent on only if something else wakes the loop;
`OnWrite` closes a healthy WebSocket whose buffered frame has just gone out (`event_loop.cpp:341`);
a `Content-Length` cut in its first nine bytes is ignored (`request.cpp:515`); a small header is
refused if enough of the body came in the same read (`request.cpp:319`); a last frame and the close
that arrive together are dropped (`connection.cpp:229`); the error page for 400 announces the length
of the one for 403, four bytes less (`response.cpp:37`); header fields are compared with their case,
so a `content-length` set by a handler is sent beside the library's; what a handler writes after
`WriteErrorMessage` is sent as a second response; `ParseHeader` goes on into the body, and a body
with lines that look like fields overrides the header (`request.cpp:126`); the four `Safe` functions
return true always (`status == ERROR && status == CLOSE`, `websocket.cpp:279`); `OnClose` calls
`on_close_func_` without asking whether the application has set it (`event_loop.cpp:348`); the chat
room looks `channel_index_map_` up without `clients_mtx_` (`chat_room.cpp:234`), and may send a
message to the session that took over a member's connection (`chat_room.cpp:294`).

## Not modelled

TLS (`ssl_` branches: the state machine of OpenSSL), kqueue (the other platform), the HTTP client
(one blocking call into libcurl), `HTTPServer`'s startup (system calls), the wording of responses,
handshake and dates, `URLEncode`, `RC4` and the address ranges of `util.cpp` (nothing calls them;
`URLEncode` indexes its table with `toascii(c) << 4`, past its end, `util.cpp:302`), users, groups
and `Daemonize` (system calls), and the examples other than the chat room, each one stateless
handler. The limits of the system (descriptors, memory) end the program (`event_loop.cpp:167`).

## Plan

In this order:

1. `TimeoutSweep`: a clock, the `now` read at the start of a sweep, and the two sleeps: an idle
   connection is closed within a bound, an active one is not; against a list in order and against
   one that `lost` has disturbed.
2. `EventLoops`: several loops on one listening socket: a client wakes them all and one accepts it;
   which of the findings get worse.
