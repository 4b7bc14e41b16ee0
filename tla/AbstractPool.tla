----------------------------- MODULE AbstractPool -----------------------------
(***************************************************************************)
(* What src/connection_pool.h promises its callers, without a pointer: a   *)
(* stack of recycled connections, a queue of connections in use ordered by *)
(* their last activity, and a sweep that is handed, one at a time and in   *)
(* that order, the connections that were in use when it started or came    *)
(* into use before it reached the end, except those erased meanwhile.      *)
(***************************************************************************)
EXTENDS Integers, FiniteSets, SequencesExt

CONSTANTS
    Conn,
    NULL,
    Capacity    \* connections the pool may allocate

VARIABLES
    made,       \* connections allocated so far
    free,       \* recycled connections, the one to hand out first in front
    order,      \* connections in use, the least recently active in front
    pending,    \* what the current sweep has still to visit, in order
    got         \* what the last FreeListPop or ActiveListCheckNext returned

vars == <<made, free, order, pending, got>>

Init ==
    /\ made = {}
    /\ free = <<>>
    /\ order = <<>>
    /\ pending = <<>>
    /\ got = NULL

Held == made \ ToSet(free)

Pop ==
    /\ \/ /\ free # <<>>
          /\ got' = Head(free)
          /\ free' = Tail(free)
          /\ UNCHANGED made
       \/ /\ free = <<>>
          /\ Cardinality(made) < Capacity
          /\ got' \in Conn \ made
          /\ made' = made \cup {got'}
          /\ UNCHANGED free
       \/ /\ free = <<>>
          /\ Cardinality(made) = Capacity
          /\ got' = NULL
          /\ UNCHANGED <<made, free>>
    /\ UNCHANGED <<order, pending>>

PushFree(c) ==
    /\ c \in Held
    /\ free' = <<c>> \o free
    /\ UNCHANGED <<made, order, pending, got>>

PushActive(c) ==
    /\ c \in Held \ ToSet(order)
    /\ order' = Append(order, c)
    /\ pending' = IF pending = <<>> THEN <<>> ELSE Append(pending, c)
    /\ UNCHANGED <<made, free, got>>

EraseActive(c) ==
    /\ c \in ToSet(order)
    /\ order' = RemoveFirst(order, c)
    /\ pending' = RemoveFirst(pending, c)
    /\ UNCHANGED <<made, free, got>>

StartSweep ==
    /\ pending' = order
    /\ UNCHANGED <<made, free, order, got>>

Visit ==
    /\ IF pending = <<>>
       THEN got' = NULL /\ UNCHANGED pending
       ELSE got' = Head(pending) /\ pending' = Tail(pending)
    /\ UNCHANGED <<made, free, order>>

Next ==
    \/ Pop
    \/ StartSweep
    \/ Visit
    \/ \E c \in Conn : PushFree(c) \/ PushActive(c) \/ EraseActive(c)

Spec == Init /\ [][Next]_vars
=============================================================================
