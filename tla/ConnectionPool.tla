---------------------------- MODULE ConnectionPool ----------------------------
(***************************************************************************)
(* The data structures of src/connection_pool.cpp: the stack of recycled   *)
(* connections (free list) and the doubly linked list of connections in    *)
(* use, least recently active first (active list), with the cursor the     *)
(* timeout thread walks it with.                                           *)
(*                                                                         *)
(* Every member function of ConnectionPool locks one of the two list       *)
(* mutexes for its whole body and calls nothing that locks another, so     *)
(* each is one atomic action here.  The functions have no preconditions:   *)
(* they write the pointers whatever the caller passes, and so do these     *)
(* actions.  PoolContract adds the discipline under which they work, and   *)
(* EventLoop the calls the server makes.                                   *)
(*                                                                         *)
(* Variants.  An uncommented definition right before a commented one is a  *)
(* mistake that could be made in the code the latter models; no action     *)
(* uses it, and the properties are tested on the models it gives in the    *)
(* other's place.                                                          *)
(***************************************************************************)
EXTENDS Integers, FiniteSets, SequencesExt

CONSTANTS
    Conn,       \* Connection objects, those not yet allocated included
    NULL,       \* the null pointer
    MaxConn     \* max_conn_

ASSUME ConnAssumption == IsFiniteSet(Conn) /\ NULL \notin Conn
\* There are objects enough for what the pool may allocate.
ASSUME MaxConnAssumption == MaxConn \in Nat \ {0} /\ Cardinality(Conn) > MaxConn

VARIABLES
    free_list_head,             \* top of the stack of recycled connections
    free_next,                  \* Connection::free_next_
    count,                      \* count_: connections allocated so far
    created,                    \* the connections allocated so far
    free_rank,                  \* auxiliary: how deep a connection lies in the
                                \* free list, from its bottom (0: not on it)
    active_list_head,
    active_list_tail,
    active_list_lookup_cursor,  \* what ActiveListCheckNext returns next
    active_next,                \* Connection::active_next_
    active_prev                 \* Connection::active_prev_

freeVars == <<free_list_head, free_next, count, created, free_rank>>
activeVars == <<active_list_head, active_list_tail, active_list_lookup_cursor,
                active_next, active_prev>>

Ptr == Conn \cup {NULL}

PoolTypeOK ==
    /\ free_list_head \in Ptr
    /\ free_next \in [Conn -> Ptr]
    /\ count \in Nat
    /\ created \in SUBSET Conn
    /\ free_rank \in [Conn -> Nat]
    /\ active_list_head \in Ptr
    /\ active_list_tail \in Ptr
    /\ active_list_lookup_cursor \in Ptr
    /\ active_next \in [Conn -> Ptr]
    /\ active_prev \in [Conn -> Ptr]

PoolInit ==
    /\ free_list_head = NULL
    /\ free_next = [c \in Conn |-> NULL]
    /\ count = 0
    /\ created = {}
    /\ free_rank = [c \in Conn |-> 0]
    /\ active_list_head = NULL
    /\ active_list_tail = NULL
    /\ active_list_lookup_cursor = NULL
    /\ active_next = [c \in Conn |-> NULL]
    /\ active_prev = [c \in Conn |-> NULL]

-----------------------------------------------------------------------------
(* The free list.                                                          *)

FreeListPopKeeping(c) ==
    c # NULL /\ c = free_list_head /\ UNCHANGED freeVars
\* FreeListPop returns c: the top of the stack, or a new connection.
FreeListPopReuse(c) ==
    /\ c # NULL /\ c = free_list_head
    /\ free_list_head' = free_next[c]
    /\ free_rank' = [free_rank EXCEPT ![c] = 0]
    /\ UNCHANGED <<free_next, count, created>>

FreeListPopUncounted(c) ==
    /\ free_list_head = NULL /\ ~(count > MaxConn)
    /\ c \in Conn \ created
    /\ created' = created \cup {c}
    /\ UNCHANGED <<free_list_head, free_next, count, free_rank>>
\* The limit is tested before the connection is counted.
FreeListPopNew(c) ==
    /\ free_list_head = NULL /\ ~(count > MaxConn)
    /\ c \in Conn \ created
    /\ created' = created \cup {c}
    /\ count' = count + 1
    /\ UNCHANGED <<free_list_head, free_next, free_rank>>

\* FreeListPop returns NULL.
FreeListPopFull ==
    /\ free_list_head = NULL
    /\ count > MaxConn
    /\ UNCHANGED freeVars

FreeListDrop(c) == UNCHANGED freeVars
FreeListPushUncounting(c) ==
    /\ free_next' = [free_next EXCEPT ![c] = free_list_head]
    /\ free_list_head' = c
    /\ count' = count - 1
    /\ UNCHANGED <<created, free_rank>>
\* The connection becomes the top of the stack.
FreeListPush(c) ==
    /\ free_next' = [free_next EXCEPT ![c] = free_list_head]
    /\ free_list_head' = c
    /\ free_rank' = [free_rank EXCEPT ![c] =
                        IF free_list_head = NULL
                        THEN 1 ELSE free_rank[free_list_head] + 1]
    /\ UNCHANGED <<count, created>>

-----------------------------------------------------------------------------
(* The active list.                                                        *)

\* The first connection of an empty list keeps the pointers it has.
ActiveListPush(c) ==
    /\ active_list_tail' = c
    /\ IF active_list_tail = NULL
       THEN /\ active_list_head' = c
            /\ UNCHANGED <<active_next, active_prev>>
       ELSE /\ active_next' = [active_next EXCEPT ![active_list_tail] = c,
                                                  ![c] = NULL]
            /\ active_prev' = [active_prev EXCEPT ![c] = active_list_tail]
            /\ UNCHANGED active_list_head
    /\ UNCHANGED active_list_lookup_cursor

ActiveListEraseUnlinked(c) ==
    LET n == active_next[c]
        p == active_prev[c]
    IN  /\ active_list_head' = IF p = NULL THEN n ELSE active_list_head
        /\ active_list_tail' = IF n = NULL THEN p ELSE active_list_tail
        /\ active_next' = [x \in Conn |-> IF x = p THEN n ELSE active_next[x]]
        /\ active_prev' = [x \in Conn |-> IF x = n THEN p ELSE active_prev[x]]
        /\ UNCHANGED active_list_lookup_cursor
\* A list whose head is its tail is taken to hold c and nothing else.
ActiveListErase(c) ==
    LET n == active_next[c]
        p == active_prev[c]
    IN  /\ active_list_lookup_cursor' =
               IF c = active_list_lookup_cursor
               THEN n ELSE active_list_lookup_cursor
        /\ IF active_list_tail = active_list_head
           THEN /\ active_list_tail' = NULL
                /\ active_list_head' = NULL
                /\ active_next' = [active_next EXCEPT ![c] = NULL]
                /\ active_prev' = [active_prev EXCEPT ![c] = NULL]
           ELSE /\ active_list_head' = IF p = NULL THEN n ELSE active_list_head
                /\ active_list_tail' = IF n = NULL THEN p ELSE active_list_tail
                /\ active_next' = [x \in Conn |->
                        IF x = c THEN NULL
                        ELSE IF x = p THEN n ELSE active_next[x]]
                /\ active_prev' = [x \in Conn |->
                        IF x = c THEN NULL
                        ELSE IF x = n THEN p ELSE active_prev[x]]

SweepFromTail ==
    /\ active_list_lookup_cursor' = active_list_tail
    /\ UNCHANGED <<active_list_head, active_list_tail, active_next, active_prev>>
\* Start of a sweep: the cursor goes to the least recently active connection.
ActiveListTimeoutCheck ==
    /\ active_list_lookup_cursor' = active_list_head
    /\ UNCHANGED <<active_list_head, active_list_tail, active_next, active_prev>>

\* ActiveListCheckNext returns the connection at the cursor and moves it on.
ActiveListCheckNext ==
    /\ active_list_lookup_cursor' =
           IF active_list_lookup_cursor = NULL
           THEN NULL ELSE active_next[active_list_lookup_cursor]
    /\ UNCHANGED <<active_list_head, active_list_tail, active_next, active_prev>>

-----------------------------------------------------------------------------
(* What the pointers mean.                                                 *)

\* The connections met from start along next.  A chain with a cycle has more
\* cells than there are connections.
Chain(start, next) ==
    LET cells[n \in 0..Cardinality(Conn)] ==
            IF n = 0
            THEN IF start = NULL THEN <<>> ELSE <<start>>
            ELSE LET s == cells[n - 1]
                 IN  IF s = <<>> \/ next[Last(s)] = NULL
                     THEN s ELSE Append(s, next[Last(s)])
    IN  cells[Cardinality(Conn)]

FreeList == Chain(free_list_head, free_next)
ActiveList == Chain(active_list_head, active_next)

OnFreeList(c) == free_rank[c] > 0

\* The free list is one finite chain without repetitions: every connection on
\* it is one deeper than the connection its free_next_ names, the bottom has
\* none, and the head is the top.
FreeListWellFormed ==
    /\ free_list_head = NULL => \A c \in Conn : ~OnFreeList(c)
    /\ free_list_head # NULL =>
           /\ OnFreeList(free_list_head)
           /\ \A c \in Conn : free_rank[c] <= free_rank[free_list_head]
    /\ \A c, d \in Conn :
           OnFreeList(c) /\ free_rank[c] = free_rank[d] => c = d
    /\ \A c \in Conn : OnFreeList(c) =>
           IF free_rank[c] = 1
           THEN free_next[c] = NULL
           ELSE /\ free_next[c] # NULL
                /\ free_rank[free_next[c]] = free_rank[c] - 1
=============================================================================
