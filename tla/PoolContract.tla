----------------------------- MODULE PoolContract -----------------------------
(***************************************************************************)
(* The connection pool under the most general client that keeps its        *)
(* discipline: a connection is given back only while it is held, put on    *)
(* the active list only while it is held and not on it, and erased from    *)
(* the active list only while it is on it.  The two lists are otherwise    *)
(* independent, as in EventLoop::ResetConnection, which gives a connection *)
(* back before it erases it.  Under this discipline the pool implements    *)
(* AbstractPool; the module EventLoop shows where the server breaks it.    *)
(***************************************************************************)
EXTENDS ConnectionPool

VARIABLES
    got,        \* what the last FreeListPop or ActiveListCheckNext returned
    place,      \* auxiliary: position on the active list, from its head
                \* (0: not on it)
    len         \* auxiliary: how many connections are on the active list

vars == <<freeVars, activeVars, got, place, len>>

OnActiveList(c) == place[c] > 0

Held(c) == c \in created /\ ~OnFreeList(c)

TypeOK ==
    /\ PoolTypeOK
    /\ got \in Ptr
    /\ place \in [Conn -> Nat]
    /\ len \in Nat

Init ==
    /\ PoolInit
    /\ got = NULL
    /\ place = [c \in Conn |-> 0]
    /\ len = 0

Pop ==
    /\ \/ \E c \in Conn : (FreeListPopReuse(c) \/ FreeListPopNew(c)) /\ got' = c
       \/ FreeListPopFull /\ got' = NULL
    /\ UNCHANGED <<activeVars, place, len>>

PushFree(c) ==
    /\ Held(c)
    /\ FreeListPush(c)
    /\ UNCHANGED <<activeVars, got, place, len>>

PushActive(c) ==
    /\ Held(c) /\ ~OnActiveList(c)
    /\ ActiveListPush(c)
    /\ place' = [place EXCEPT ![c] = len + 1]
    /\ len' = len + 1
    /\ UNCHANGED <<freeVars, got>>

EraseActive(c) ==
    /\ OnActiveList(c)
    /\ ActiveListErase(c)
    /\ place' = [x \in Conn |-> IF x = c THEN 0
                                ELSE IF place[x] > place[c] THEN place[x] - 1
                                ELSE place[x]]
    /\ len' = len - 1
    /\ UNCHANGED <<freeVars, got>>

StartSweep ==
    /\ ActiveListTimeoutCheck
    /\ UNCHANGED <<freeVars, got, place, len>>

Visit ==
    /\ ActiveListCheckNext
    /\ got' = active_list_lookup_cursor
    /\ UNCHANGED <<freeVars, place, len>>

Next ==
    \/ Pop
    \/ StartSweep
    \/ Visit
    \/ \E c \in Conn : PushFree(c) \/ PushActive(c) \/ EraseActive(c)

Spec == Init /\ [][Next]_vars

-----------------------------------------------------------------------------
(* Safety.                                                                 *)

(***************************************************************************)
(* No connection is leaked, handed out twice or conjured up: the stack     *)
(* reached from free_list_head_ is well formed, holds allocated            *)
(* connections only, and count_ is their number, one above max_conn_ at    *)
(* most (the test in FreeListPop is count_ > max_conn_).                   *)
(***************************************************************************)
FreeListSound ==
    /\ FreeListWellFormed
    /\ \A c \in Conn : OnFreeList(c) => c \in created
    /\ count = Cardinality(created)
    /\ count <= MaxConn + 1

(***************************************************************************)
(* The active list is one chain in both directions: head and tail are its  *)
(* ends, active_prev_ inverts active_next_, a connection off the list has  *)
(* null pointers (ActiveListPush relies on it when the list is empty), and *)
(* the cursor is never left on a connection that was erased.               *)
(***************************************************************************)
PlacesNumberTheList ==
    /\ \A c \in Conn : place[c] <= len
    /\ \A c, d \in Conn : OnActiveList(c) /\ place[c] = place[d] => c = d

EndsAreEnds ==
    /\ len = 0 <=> active_list_head = NULL
    /\ len = 0 <=> active_list_tail = NULL
    /\ len > 0 => /\ place[active_list_head] = 1
                  /\ place[active_list_tail] = len

Linked(c) ==
    /\ IF place[c] = len
       THEN active_next[c] = NULL
       ELSE /\ active_next[c] # NULL
            /\ place[active_next[c]] = place[c] + 1
    /\ IF place[c] = 1
       THEN active_prev[c] = NULL
       ELSE /\ active_prev[c] # NULL
            /\ place[active_prev[c]] = place[c] - 1

Unlinked(c) == active_next[c] = NULL /\ active_prev[c] = NULL

ActiveListSound ==
    /\ PlacesNumberTheList
    /\ EndsAreEnds
    /\ \A c \in Conn : IF OnActiveList(c) THEN Linked(c) ELSE Unlinked(c)
    /\ active_list_lookup_cursor # NULL =>
           OnActiveList(active_list_lookup_cursor)

\* The pool implements AbstractPool: the stack is read off free_next_, the
\* order and what the sweep still has to visit off active_next_.
Abstract == INSTANCE AbstractPool WITH
    Capacity <- MaxConn + 1,
    made <- created,
    free <- FreeList,
    order <- ActiveList,
    pending <- Chain(active_list_lookup_cursor, active_next)

(***************************************************************************)
(* Every call does what its caller expects: a recycled connection comes    *)
(* back last in first out, the sweep sees the connections least recently   *)
(* active first and misses none, whatever is pushed or erased meanwhile.   *)
(***************************************************************************)
ImplementsAbstractPool == Abstract!Spec

(***************************************************************************)
(* What the server says when it refuses a client ("worker connections      *)
(* reach max limit", src/event_loop.cpp:175) and what                      *)
(* SetMaxWorkerConnections promises: no more than MaxConn connections.     *)
(***************************************************************************)
AtMostMaxConn == count <= MaxConn
=============================================================================
